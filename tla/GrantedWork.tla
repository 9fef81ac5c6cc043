----------------------------- MODULE GrantedWork -----------------------------
(***************************************************************************)
(* What an approved grant is spent on: a tool call made by                 *)
(* src/mitosis/tools.py, or an action in the world that a person takes and *)
(* src/mitosis/external_actions.py records, under the collision checks of  *)
(* channel_registry.py.  The module composes the review queue (Approvals)  *)
(* with the reservations both kinds of work are metered against            *)
(* (ReservationCore; a reservation has its proposal's id).                 *)
(*                                                                         *)
(* A row of external_action_registry is kept with the one target its       *)
(* channel collides on.  The time limit of a hold is left open: a sweep    *)
(* may find any hold expired.                                              *)
(***************************************************************************)
EXTENDS Approvals

CONSTANTS
  Flags,         \* autonomy flags
  FlagOf,        \* the flag a proposal's work needs
  Hosts,         \* hosts that may be on the egress allowlist
  HostOf,        \* the host a tool request reads
  Artifacts,
  MakerOf,       \* the Cell that made an artifact
  Tainted,       \* artifacts with a taint that never leaves the colony
  Subjects,      \* what rights are attested on: sources, the colony's own work
  RightsOn,      \* those an artifact's commercial use rests on
  Channels,
  TargetKind,    \* what a channel collides on
  WindowCap,     \* max_actions_per_window
  OpenCap,       \* max_open_claims
  Billable,      \* max_billable_human_minutes
  Targets,
  Artifact,      \* what an action delivers, "none" for nothing
  Records,       \* actions people took on their own, recorded afterwards
  RecordChannel,
  Minutes,       \* human minutes people report
  Budget,        \* a Cell's RESOURCE cash
  CallCost       \* RESOURCE_COST_PER_CALL

Acts == Proposals \cup Records

Core == INSTANCE ReservationCore WITH
  Rids <- Proposals,
  CellOf <- Proposer,
  BookOf <- [p \in Proposals |-> "RESOURCE"],
  OperationOf <- [p \in Proposals |-> IF Kind[p] = "tool_request"
                                      THEN "tool_call" ELSE "external_action"],
  Funding <- [c \in Cells |-> [b \in {"USD_REAL", "USD_SIM", "RESOURCE"} |->
                                 IF b = "RESOURCE" THEN Budget[c] ELSE 0]],
  PerRequestCap <- 0, ConcurrentCap <- 0, WindowCap <- 0

ASSUME GrantedWorkAssumption ==
  /\ FlagOf \in [Proposals -> Flags \cup {"none"}]
  /\ \A p \in Proposals : Kind[p] = "tool_request" => HostOf[p] \in Hosts
  /\ MakerOf \in [Artifacts -> Cells] /\ Tainted \subseteq Artifacts
  /\ RightsOn \in [Artifacts -> SUBSET Subjects]
  /\ Artifact \in [Acts -> Artifacts \cup {"none"}]
  /\ \A r \in Records : Artifact[r] \in Artifacts
  /\ WindowCap \in [Channels -> Nat] /\ OpenCap \in [Channels -> Nat]
  /\ Billable \in [Channels -> Nat \ {0}]
  /\ RecordChannel \in [Records -> Channels]
  /\ Records \cap Proposals = {}
  /\ Minutes \subseteq Nat \ {0}
  /\ Budget \in [Cells -> Nat] /\ CallCost \in Nat \ {0}
  /\ \A p \in Proposals : Kind[p] = "external_action" => Channel[p] \in Channels

VARIABLES
  db,       \* reservations, their postings and what was metered
  flags,    \* operator_state: the autonomy flags that are on
  allowed,  \* egress_allowlist
  cleared,  \* subjects whose commercial use is attested as permitted
  exported, \* artifacts.exported_at_utc
  sold,     \* artifacts.export_is_commercial
  call,     \* tool_calls.status
  sent,     \* requests that have left the machine for a proposal
  action,   \* external_action_registry
  frozen,   \* channels frozen in channel_state
  blocked   \* counterparty_blocks

workVars == <<db, flags, allowed, cleared, exported, sold, call, sent, action,
              frozen, blocked>>
gates == <<flags, allowed, cleared, exported, sold>>
world == <<action, frozen, blocked>>
vars == <<approvalVars, workVars>>

Unexported == -1

NoAction == [status |-> "none", at |-> 0, target |-> "none", minutes |-> 0]

Init ==
  /\ ApprovalInit
  /\ db = Core!EmptyDatabase
  /\ flags = Flags
  /\ allowed = Hosts
  /\ cleared = {}
  /\ exported = [x \in Artifacts |-> Unexported]
  /\ sold = {}
  /\ call = [p \in Proposals |-> "none"]
  /\ sent = [p \in Proposals |-> 0]
  /\ action = [x \in Acts |-> NoAction]
  /\ frozen = {}
  /\ blocked = {}

-----------------------------------------------------------------------------
(* Consuming a grant. *)

\* A grant for another kind of work is refused, and left out.
BeginWork(a, p, kind, op) ==
  /\ "issued" \in grant[p] /\ "consumed" \notin grant[p]
  /\ Kind[p] = kind
  /\ Begin(a, op, {p})
  /\ UNCHANGED workVars

\* The checks every consumer makes inside the lock.
MayUse(p, now) ==
  /\ "consumed" \notin grant[p]
  /\ now < request[p].expires
  /\ cell[Proposer[p]] = "alive"
  /\ FlagOf[p] \in flags

\* Charter C12: a host nobody allowed, or allowed no longer, is not read.
MayFetch(p, now) == MayUse(p, now) /\ HostOf[p] \in allowed

\* Mutant: the claim is not recorded on the grant.
LeaveOpen(p) == UNCHANGED grant

Consume(p) == grant' = [grant EXCEPT ![p] = @ \cup {"consumed"}]

GoTo(a, op) == actor' = [actor EXCEPT ![a].op = op]

-----------------------------------------------------------------------------
(* tools.execute_grant: claim, reserve, fetch outside any transaction, finish. *)

ClaimCall(a, p) ==
  /\ Doing(a, {"execute"}, p)
  /\ MayFetch(p, Now(a))
  /\ Consume(p)
  /\ call' = [call EXCEPT ![p] = "requested"]
  /\ GoTo(a, "reserve")
  /\ UNCHANGED <<clock, cell, proposed, request, wakes, db, gates, sent, world>>

CallRefused(a, p) ==
  /\ Doing(a, {"execute"}, p)
  /\ ~MayFetch(p, Now(a))
  /\ Raise(a)
  /\ UNCHANGED <<clock, cell, proposed, queueVars, workVars>>

\* A refused reservation fails the call; the grant stays spent.
ReserveCall(a, p) ==
  /\ Doing(a, {"reserve"}, p)
  /\ \/ /\ Core!MayRequest(db, p, CallCost)
        /\ db' = Core!Request(db, p, CallCost)
        /\ GoTo(a, "fetch")
        /\ UNCHANGED call
     \/ /\ ~Core!MayRequest(db, p, CallCost)
        /\ call' = [call EXCEPT ![p] = "failed"]
        /\ Raise(a)
        /\ UNCHANGED db
  /\ UNCHANGED <<clock, cell, proposed, queueVars, gates, sent, world>>

\* A ToolError: nothing left the machine.
FetchRefused(a, p) ==
  /\ Doing(a, {"fetch"}, p)
  /\ Core!MayRelease(db, p)
  /\ db' = Core!Release(db, p)
  /\ call' = [call EXCEPT ![p] = "failed"]
  /\ Raise(a)
  /\ UNCHANGED <<clock, cell, proposed, queueVars, gates, sent, world>>

Send(p) == sent' = [sent EXCEPT ![p] = @ + 1]

\* Any other exception: the hold stays until something resolves it.
FetchUnclear(a, p) ==
  /\ Doing(a, {"fetch"}, p)
  /\ Send(p)
  /\ call' = [call EXCEPT ![p] = "unknown"]
  /\ Raise(a)
  /\ UNCHANGED <<clock, cell, proposed, queueVars, db, gates, world>>

MayFinish(p) ==
  /\ Core!MayRecordUsage(db, p, CallCost)
  /\ Core!MaySettle(db, p, CallCost)

\* Metered, settled, recorded and the Cell woken, or, when a sweep has been at
\* the hold since, an exception that leaves the call as it was.
FetchAnswered(a, p) ==
  /\ Doing(a, {"fetch"}, p)
  /\ Send(p)
  /\ IF MayFinish(p)
     THEN /\ db' = Core!Settle(Core!RecordUsage(db, p, CallCost), p, CallCost)
          /\ call' = [call EXCEPT ![p] = "succeeded"]
          /\ wakes' = wakes \cup {<<"tool result", p>>}
     ELSE UNCHANGED <<db, call, wakes>>
  /\ Raise(a)
  /\ UNCHANGED <<clock, cell, proposed, request, grant, gates, world>>

CrashInFetch(a, p) ==
  /\ Doing(a, {"fetch"}, p)
  /\ Send(p)
  /\ Raise(a)
  /\ UNCHANGED <<clock, cell, proposed, queueVars, db, gates, call, world>>

-----------------------------------------------------------------------------
(* The collision checks of channel_registry.check_action. *)

ChannelOf(x) == IF x \in Records THEN RecordChannel[x] ELSE Channel[x]
LineageOf(x) == IF x \in Records THEN FounderOf[MakerOf[Artifact[x]]] ELSE Founder(x)
KeyOf(x) == TargetKind[ChannelOf(x)]

\* Mutant: a claim nobody has completed yet does not count.
IsDone(x) == action[x].status = "completed"

Stands(x) == action[x].status \in {"claimed", "completed"}

Recent(now) == {x \in Acts : Stands(x) /\ action[x].at >= now - Window}

IsSiblingCollision(x, target, now) ==
  \E y \in Recent(now) : /\ KeyOf(y) = KeyOf(x)
                         /\ action[y].target = target
                         /\ LineageOf(y) # LineageOf(x)

\* A person is contacted once; a domain may be published to with other content.
IsDuplicate(x, target, now) ==
  \E y \in Recent(now) :
    /\ ChannelOf(y) = ChannelOf(x)
    /\ action[y].target = target
    /\ KeyOf(x) # "counterparty" =>
         Artifact[y] = Artifact[x] /\ Artifact[x] # "none"

Open(ch) == {x \in Acts : action[x].status = "claimed" /\ ChannelOf(x) = ch}

WithinCaps(ch, now) ==
  /\ Cardinality({y \in Recent(now) : ChannelOf(y) = ch}) < WindowCap[ch]
  /\ Cardinality(Open(ch)) < OpenCap[ch]

MayContact(x, target, now) ==
  /\ ChannelOf(x) \notin frozen
  /\ KeyOf(x) = "counterparty" => target \notin blocked
  /\ ~IsSiblingCollision(x, target, now)
  /\ ~IsDuplicate(x, target, now)
  /\ WithinCaps(ChannelOf(x), now)

-----------------------------------------------------------------------------
(* external_actions: a claim before a person acts, then what came of it. *)

\* Its own Cell's work, which a person has let out of the colony.
IsDeliverable(p) ==
  Artifact[p] # "none" => /\ MakerOf[Artifact[p]] = Proposer[p]
                          /\ exported[Artifact[p]] # Unexported

MayClaim(p, target, now) ==
  /\ MayUse(p, now)
  /\ IsDeliverable(p)
  /\ MayContact(p, target, now)
  /\ Core!MayRequest(db, p, Billable[Channel[p]])

ClaimAction(a, p, target) ==
  /\ Doing(a, {"claim"}, p)
  /\ MayClaim(p, target, Now(a))
  /\ Consume(p)
  /\ db' = Core!Request(db, p, Billable[Channel[p]])
  /\ action' = [action EXCEPT ![p] = [status |-> "claimed", at |-> Now(a),
                                      target |-> target, minutes |-> 0]]
  /\ Raise(a)
  /\ UNCHANGED <<clock, cell, proposed, request, wakes, gates, call, sent,
                 frozen, blocked>>

ClaimRefused(a, p, target) ==
  /\ Doing(a, {"claim"}, p)
  /\ ~MayClaim(p, target, Now(a))
  /\ Raise(a)
  /\ UNCHANGED <<clock, cell, proposed, queueVars, workVars>>

\* _record_damage_locked: a complaint freezes the channel and blocks the person.
Damage(x, target, isDamage) ==
  /\ frozen' = IF isDamage THEN frozen \cup {ChannelOf(x)} ELSE frozen
  /\ blocked' = IF isDamage /\ KeyOf(x) = "counterparty"
                THEN blocked \cup {target} ELSE blocked

BilledMinutes(p, minutes) ==
  IF minutes < Billable[Channel[p]] THEN minutes ELSE Billable[Channel[p]]

\* Mutant: only what was billed is settled, the rest stays held.
PayAndHold(p, billed) == Core!Settle(Core!RecordUsage(db, p, billed), p, billed)

PayAndRelease(p, billed) ==
  Core!SettleAndReleaseRemainder(Core!RecordUsage(db, p, billed), p, billed)

\* The Cell pays up to the ceiling; the record holds what was really given.
CompleteAction(p, minutes, isDamage) ==
  /\ action[p].status = "claimed"
  /\ Core!MayRecordUsage(db, p, BilledMinutes(p, minutes))
  /\ db' = PayAndRelease(p, BilledMinutes(p, minutes))
  /\ action' = [action EXCEPT ![p].status = "completed", ![p].minutes = minutes]
  /\ Damage(p, action[p].target, isDamage)
  /\ wakes' = wakes \cup {<<"external action result", p>>}
  /\ UNCHANGED <<clock, cell, proposed, request, grant, actor, gates, call, sent>>

\* The slot and the counterparty are free again, the grant stays spent.
AbandonAction(p) ==
  /\ action[p].status = "claimed"
  /\ Core!MayRelease(db, p)
  /\ db' = Core!Release(db, p)
  /\ action' = [action EXCEPT ![p].status = "abandoned"]
  /\ UNCHANGED <<approvalVars, gates, call, sent, frozen, blocked>>

WasExportedBy(x, instant) == exported[x] # Unexported /\ exported[x] <= instant

\* record_performed: what a person did outside any grant.  The checks' verdict
\* is reported and refuses nothing.
RecordPerformed(r, target, performed, isDamage) ==
  /\ action[r].status = "none"
  /\ performed <= clock
  /\ WasExportedBy(Artifact[r], performed)
  /\ action' = [action EXCEPT ![r] = [status |-> "completed", at |-> performed,
                                      target |-> target, minutes |-> 0]]
  /\ Damage(r, target, isDamage)
  /\ UNCHANGED <<approvalVars, db, gates, call, sent>>

AcknowledgeChannel(ch) ==
  /\ ch \in frozen
  /\ frozen' = frozen \ {ch}
  /\ UNCHANGED <<approvalVars, db, gates, call, sent, action, blocked>>

-----------------------------------------------------------------------------
(* The rest of the colony. *)

SetAutonomy(flag, enabled) ==
  /\ flags' = IF enabled THEN flags \cup {flag} ELSE flags \ {flag}
  /\ UNCHANGED <<approvalVars, db, allowed, cleared, exported, sold, call, sent,
                 world>>

AllowDomain(host) ==
  /\ allowed' = allowed \cup {host}
  /\ UNCHANGED <<approvalVars, db, flags, cleared, exported, sold, call, sent,
                 world>>

DenyDomain(host) ==
  /\ allowed' = allowed \ {host}
  /\ UNCHANGED <<approvalVars, db, flags, cleared, exported, sold, call, sent,
                 world>>

\* An attestation, or the one that withdraws it; artifacts are not rewritten.
Attest(subject, permitted) ==
  /\ cleared' = IF permitted THEN cleared \cup {subject} ELSE cleared \ {subject}
  /\ UNCHANGED <<approvalVars, db, flags, allowed, exported, sold, call, sent,
                 world>>

\* Taint never leaves; a commercial use has to be permitted now, by everything
\* the artifact was made from.
MayExport(x, commercial) ==
  /\ x \notin Tainted
  /\ commercial => RightsOn[x] \subseteq cleared

\* Once, at a time read before the lock; nothing is delivered by it.
Export(x, commercial, now) ==
  /\ MayExport(x, commercial)
  /\ exported[x] = Unexported
  /\ exported' = [exported EXCEPT ![x] = now]
  /\ sold' = IF commercial THEN sold \cup {x} ELSE sold
  /\ UNCHANGED <<approvalVars, db, flags, allowed, cleared, call, sent, world>>

\* Nothing can tell whether a tool ran or a person acted.
SweepHold(p) ==
  /\ db.status[p] = "reserved"
  /\ db' = Core!Mark(db, p, "execution_unknown")
  /\ UNCHANGED <<approvalVars, gates, call, sent, world>>

Kill(c) == KillCell(c) /\ db' = Core!Kill(db, c)
           /\ UNCHANGED <<gates, call, sent, world>>

ToolStep(a, p) ==
  \/ ClaimCall(a, p) \/ CallRefused(a, p) \/ ReserveCall(a, p)
  \/ FetchRefused(a, p) \/ FetchUnclear(a, p) \/ FetchAnswered(a, p)
  \/ CrashInFetch(a, p)

-----------------------------------------------------------------------------
(* The verbs of cli.py.  A tool is run, and a channel claimed, by a process  *)
(* that reads the clock first; the others are one transaction.               *)

cmd_run_tool(a) ==
  \E p \in Proposals : BeginWork(a, p, "tool_request", "execute")

cmd_claim_external_action(a) ==
  \E p \in Proposals : BeginWork(a, p, "external_action", "claim")

cmd_complete_external_action ==
  \E p \in Proposals, minutes \in Minutes, isDamage \in BOOLEAN :
    CompleteAction(p, minutes, isDamage)

cmd_abandon_external_action == \E p \in Proposals : AbandonAction(p)

cmd_record_external_action ==
  \E r \in Records, target \in Targets, performed \in 0 .. clock,
     isDamage \in BOOLEAN : RecordPerformed(r, target, performed, isDamage)

cmd_unfreeze_channel == \E ch \in Channels : AcknowledgeChannel(ch)

cmd_set_autonomy ==
  \E flag \in Flags, enabled \in BOOLEAN : SetAutonomy(flag, enabled)

\* With --remove, a denial.
cmd_allow_domain == \E host \in Hosts : AllowDomain(host) \/ DenyDomain(host)

cmd_set_rights ==
  \E subject \in Subjects, permitted \in BOOLEAN : Attest(subject, permitted)

cmd_export_artifact ==
  \E x \in Artifacts, commercial \in BOOLEAN, now \in 0 .. clock :
    Export(x, commercial, now)

Verbs ==
  \/ cmd_complete_external_action \/ cmd_abandon_external_action
  \/ cmd_record_external_action \/ cmd_unfreeze_channel
  \/ cmd_set_autonomy \/ cmd_allow_domain
  \/ cmd_set_rights \/ cmd_export_artifact

Next ==
  \/ ApprovalNext /\ UNCHANGED workVars
  \/ \E a \in Actors, p \in Proposals :
       \/ ToolStep(a, p)
       \/ \E target \in Targets : ClaimAction(a, p, target)
                                  \/ ClaimRefused(a, p, target)
  \/ \E a \in Actors : cmd_run_tool(a) \/ cmd_claim_external_action(a)
  \/ Verbs
  \/ \E p \in Proposals : SweepHold(p)
  \/ \E c \in Mortal : Kill(c)

Spec == Init /\ [][Next]_vars

-----------------------------------------------------------------------------
TypeOK ==
  /\ ApprovalTypeOK
  /\ Core!HoldsBalanced(db)
  /\ flags \subseteq Flags /\ allowed \subseteq Hosts
  /\ cleared \subseteq Subjects /\ sold \subseteq Artifacts
  /\ exported \in [Artifacts -> {Unexported} \cup 0 .. MaxClock]
  /\ call \in [Proposals -> {"none", "requested", "succeeded", "failed",
                             "unknown"}]
  /\ sent \in [Proposals -> Nat]
  /\ action \in [Acts -> [status : {"none", "claimed", "completed", "abandoned"},
                          at : 0 .. MaxClock, target : Targets \cup {"none"},
                          minutes : Minutes \cup {0}]]
  /\ frozen \subseteq Channels /\ blocked \subseteq Targets

(***************************************************************************)
(* Externally the colony is one business: of the actions claimed under     *)
(* grants and not abandoned, no two within one contact window reach the    *)
(* same target for two lineages, and no person is contacted twice on one   *)
(* channel, whatever the order in which verbs read the clock and took the  *)
(* lock.  What any action delivers was let out of the colony before it     *)
(* (channel_registry.py:559, _check_counterparty_locked; artifacts.py:663, *)
(* check_exportable).                                                      *)
(***************************************************************************)
OneBusiness ==
  /\ \A x \in Acts : action[x].status = "completed" /\ Artifact[x] # "none" =>
       /\ exported[Artifact[x]] # Unexported /\ Artifact[x] \notin Tainted
       /\ x \in Records => exported[Artifact[x]] <= action[x].at
  /\ \A x, y \in {p \in Proposals : Stands(p)} :
       /\ x # y
       /\ KeyOf(x) = KeyOf(y) /\ action[x].target = action[y].target
       /\ action[x].at - action[y].at \in 0 .. Window
       => /\ LineageOf(x) = LineageOf(y)
          /\ ChannelOf(x) = ChannelOf(y) =>
               /\ KeyOf(x) # "counterparty"
               /\ Artifact[x] # Artifact[y] \/ Artifact[x] = "none"

(***************************************************************************)
(* The account agrees with the work (tools.py:519, external_actions.py:416,*)
(* 623): a call or an action that is over holds nothing of its Cell's      *)
(* budget, paid its price if it happened and nothing if it did not; and    *)
(* while anyone may still be doing it, or its outcome is unknown, what was *)
(* reserved for it stays reserved.                                         *)
(***************************************************************************)
WorkIsPaidFor ==
  \A p \in Proposals :
    /\ call[p] = "succeeded" => db.status[p] = "settled"
                                /\ db.paid[p] = CallCost /\ sent[p] = 1
    /\ call[p] = "failed" => Core!Held(db, p) = 0 /\ db.paid[p] = 0
                             /\ sent[p] = 0
    /\ call[p] = "unknown" \/ action[p].status = "claimed" =>
         Core!Held(db, p) = db.maximum[p] /\ db.maximum[p] > 0
    /\ action[p].status = "completed" =>
         Core!Held(db, p) = 0 /\ db.paid[p] = BilledMinutes(p, action[p].minutes)
    /\ action[p].status = "abandoned" => Core!Held(db, p) = 0 /\ db.paid[p] = 0

\* The abstract permit each proposal carries.
Permit ==
  [p \in Proposals |->
     CASE request[p].status = "absent" -> "unasked"
       [] request[p].status = "pending" -> "asked"
       [] request[p].status \in {"rejected", "expired"} -> "refused"
       [] request[p].status = "approved" /\ "consumed" \notin grant[p] -> "granted"
       [] OTHER -> "used"]

Permits == INSTANCE Permits WITH permit <- Permit, effects <- sent

(***************************************************************************)
(* A permit is used at most once and only after a person granted it, and   *)
(* at most one request leaves the machine on it, however many executions   *)
(* race for it and whatever crashes between the claim and the fetch        *)
(* (tools.py:235, execute_grant).                                          *)
(***************************************************************************)
ImplementsPermits == Permits!Spec
=============================================================================
