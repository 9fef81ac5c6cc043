--------------------------- MODULE GrantedWorkProofs ---------------------------
(***************************************************************************)
(* What the review queue and the consumers of its grants promise, for any  *)
(* number of proposals, Cells, channels, operators and processes.          *)
(***************************************************************************)
EXTENDS GrantedWork, SumTheorems

(* The kernel's lemmas, for the reservations of this module. *)
Kernel == INSTANCE ReservationsProofs WITH
  Rids <- Proposals,
  CellOf <- Proposer,
  BookOf <- [p \in Proposals |-> "RESOURCE"],
  OperationOf <- [p \in Proposals |-> IF Kind[p] = "tool_request"
                                      THEN "tool_call" ELSE "external_action"],
  Funding <- [c \in Cells |-> [b \in {"USD_REAL", "USD_SIM", "RESOURCE"} |->
                                 IF b = "RESOURCE" THEN Budget[c] ELSE 0]],
  PerRequestCap <- 0, ConcurrentCap <- 0, WindowCap <- 0, Amounts <- Nat

\* What the kernel assumes of its constants is true of those it is given here.
LEMMA KernelAssumptionMet ==
  /\ Kernel!IsFiniteSet(Proposals)
  /\ Proposer \in [Proposals -> Cells]
  /\ [p \in Proposals |-> "RESOURCE"] \in [Proposals -> Kernel!Books]
  /\ [p \in Proposals |-> IF Kind[p] = "tool_request"
                          THEN "tool_call" ELSE "external_action"]
       \in [Proposals -> {"none", "model_call", "tool_call", "external_action"}]
  /\ [c \in Cells |-> [b \in {"USD_REAL", "USD_SIM", "RESOURCE"} |->
                         IF b = "RESOURCE" THEN Budget[c] ELSE 0]]
       \in [Cells -> [Kernel!Books -> Nat]]
  /\ 0 \in Nat
<1>1. Kernel!IsFiniteSet(Proposals)
  <2>1. IsFiniteSet(Proposals)
    BY ApprovalsAssumption
  <2>2. QED
    BY <2>1 DEF Kernel!IsFiniteSet, IsFiniteSet
<1>2. QED
  BY <1>1, ApprovalsAssumption, GrantedWorkAssumption DEF Kernel!Books

\* The cores are the same, by whichever name they are called.
LEMMA SameDatabases ==
  /\ Core!Databases = Kernel!Databases
  /\ Core!EmptyDatabase = Kernel!EmptyDatabase
  /\ \A d : Core!HoldsBalanced(d) = Kernel!HoldsBalanced(d)
<1>1. Core!Databases = Kernel!Databases
  BY DEF Core!Databases, Kernel!Databases, Core!Statuses, Kernel!Statuses,
         Core!OpenStatuses, Kernel!OpenStatuses, Core!Books, Kernel!Books
<1>2. Core!EmptyDatabase = Kernel!EmptyDatabase
  BY DEF Core!EmptyDatabase, Kernel!EmptyDatabase, Core!Books, Kernel!Books
<1>3. \A d : Core!HoldsBalanced(d) = Kernel!HoldsBalanced(d)
  BY DEF Core!HoldsBalanced, Kernel!HoldsBalanced, Core!HoldBalanced,
         Kernel!HoldBalanced, Core!Balanced, Kernel!Balanced
<1>4. QED
  BY <1>1, <1>2, <1>3

\* So are the transitions of a reservation,
LEMMA SameTransitions ==
  \A d, p, s : Core!MayTransition(d, p, s) = Kernel!MayTransition(d, p, s)
  BY DEF Core!MayTransition, Kernel!MayTransition, Core!AllowedTransitions,
         Kernel!AllowedTransitions

\* how amounts are added up,
LEMMA SameSums ==
  ASSUME NEW f, NEW S
  PROVE  Core!SumFunctionOnSet(f, S) = Kernel!SumFunctionOnSet(f, S)
  BY DEF Core!SumFunctionOnSet, Kernel!SumFunctionOnSet, Core!FoldFunctionOnSet,
         Kernel!FoldFunctionOnSet, Core!MapThenFoldSet, Kernel!MapThenFoldSet

\* what is left of a budget,
LEMMA SameCash ==
  ASSUME NEW d, NEW c, NEW b PROVE Core!Cash(d, c, b) = Kernel!Cash(d, c, b)
  BY SameSums
  DEF Core!Cash, Kernel!Cash, Core!TakenFromCash, Kernel!TakenFromCash,
      Core!Books, Kernel!Books

\* and what each core asks and does.
LEMMA SameCores ==
  ASSUME NEW d, NEW p, NEW n
  PROVE  /\ Core!MayRequest(d, p, n) = Kernel!MayRequest(d, p, n)
         /\ Core!Request(d, p, n) = Kernel!Request(d, p, n)
         /\ Core!MaySettle(d, p, n) = Kernel!MaySettle(d, p, n)
         /\ Core!Settle(d, p, n) = Kernel!Settle(d, p, n)
         /\ Core!MayRelease(d, p) = Kernel!MayRelease(d, p)
         /\ Core!Release(d, p) = Kernel!Release(d, p)
         /\ Core!Mark(d, p, n) = Kernel!Mark(d, p, n)
         /\ Core!MayRecordUsage(d, p, n) = Kernel!MayRecordUsage(d, p, n)
         /\ Core!RecordUsage(d, p, n) = Kernel!RecordUsage(d, p, n)
<1>1. Core!MayRequest(d, p, n) = Kernel!MayRequest(d, p, n)
  BY SameSums
  DEF Core!MayRequest, Kernel!MayRequest, Core!Cash, Kernel!Cash,
         Core!TakenFromCash, Kernel!TakenFromCash, Core!Books, Kernel!Books,
         Core!BreakerAllows, Kernel!BreakerAllows, Core!ConcurrentReserved,
         Kernel!ConcurrentReserved, Core!SettledSpendInWindow,
         Kernel!SettledSpendInWindow, Core!RealRids, Kernel!RealRids,
         Core!Held, Kernel!Held, Core!OpenStatuses, Kernel!OpenStatuses
<1>2. Core!Request(d, p, n) = Kernel!Request(d, p, n)
  BY DEF Core!Request, Kernel!Request
<1>3. Core!MaySettle(d, p, n) = Kernel!MaySettle(d, p, n)
  BY SameTransitions
  DEF Core!MaySettle, Kernel!MaySettle, Core!SettledStatus, Kernel!SettledStatus
<1>4. Core!Settle(d, p, n) = Kernel!Settle(d, p, n)
  BY DEF Core!Settle, Kernel!Settle, Core!SettledStatus, Kernel!SettledStatus
<1>5. Core!MayRelease(d, p) = Kernel!MayRelease(d, p)
  BY SameTransitions DEF Core!MayRelease, Kernel!MayRelease
<1>6. Core!Release(d, p) = Kernel!Release(d, p)
  BY DEF Core!Release, Kernel!Release
<1>7. Core!Mark(d, p, n) = Kernel!Mark(d, p, n)
  BY DEF Core!Mark, Kernel!Mark
<1>8. Core!MayRecordUsage(d, p, n) = Kernel!MayRecordUsage(d, p, n)
  BY DEF Core!MayRecordUsage, Kernel!MayRecordUsage
<1>9. Core!RecordUsage(d, p, n) = Kernel!RecordUsage(d, p, n)
  BY DEF Core!RecordUsage, Kernel!RecordUsage
<1>10. QED
  BY <1>1, <1>2, <1>3, <1>4, <1>5, <1>6, <1>7, <1>8, <1>9

\* No reservation of this module may be released at a Cell's death, so a death
\* moves cash only.
LEMMA KillKeepsHolds ==
  ASSUME NEW d, NEW c \in Cells, Kernel!Sound(d)
  PROVE  /\ Core!Kill(d, c) = Kernel!Kill(d, c)
         /\ Core!Kill(d, c).status = d.status
         /\ Core!Kill(d, c).maximum = d.maximum
         /\ Core!Kill(d, c).settled = d.settled
         /\ Core!Kill(d, c).paid = d.paid
         /\ Core!Kill(d, c).metered = d.metered
<1> DEFINE e == [d EXCEPT !.alive[c] = FALSE]
<1>1. d \in Kernel!Databases
  BY DEF Kernel!Sound
<1>2. /\ Core!ReleasableAtDeath(e, c) = {}
      /\ Kernel!ReleasableAtDeath(e, c) = {}
  BY DEF Core!ReleasableAtDeath, Kernel!ReleasableAtDeath
<1>3. \A x : Core!ReturnCash(x, c) = Kernel!ReturnCash(x, c)
  BY SameCash DEF Core!ReturnCash, Kernel!ReturnCash, Core!Books, Kernel!Books
<1>4. \A x : Core!ReleaseAll(x, {}) = Kernel!ReleaseAll(x, {})
  BY DEF Core!ReleaseAll, Kernel!ReleaseAll
<1>5. /\ Core!Kill(d, c) = Core!ReturnCash(Core!ReleaseAll(e, {}), c)
      /\ Kernel!Kill(d, c) = Kernel!ReturnCash(Kernel!ReleaseAll(e, {}), c)
  BY <1>2 DEF Core!Kill, Kernel!Kill, Core!Reclaim, Kernel!Reclaim
<1>6. Core!Kill(d, c) = Kernel!Kill(d, c)
  BY <1>3, <1>4, <1>5
<1> DEFINE f == Core!ReleaseAll(e, {})
<1>7. /\ f.status = d.status /\ f.maximum = d.maximum /\ f.settled = d.settled
      /\ f.paid = d.paid /\ f.metered = d.metered
      /\ DOMAIN f = DOMAIN d
  BY <1>1 DEF Core!ReleaseAll, Kernel!Databases
<1>8. /\ "status" \in DOMAIN d /\ "maximum" \in DOMAIN d /\ "settled" \in DOMAIN d
      /\ "paid" \in DOMAIN d /\ "metered" \in DOMAIN d
  BY <1>1 DEF Kernel!Databases
<1> HIDE DEF f
<1>9. /\ Core!ReturnCash(f, c).status = f.status
      /\ Core!ReturnCash(f, c).maximum = f.maximum
      /\ Core!ReturnCash(f, c).settled = f.settled
      /\ Core!ReturnCash(f, c).paid = f.paid
      /\ Core!ReturnCash(f, c).metered = f.metered
  BY <1>7, <1>8 DEF Core!ReturnCash
<1>10. Core!Kill(d, c) = Core!ReturnCash(f, c)
  BY <1>5 DEF f
<1>11. QED
  BY <1>6, <1>7, <1>9, <1>10

-----------------------------------------------------------------------------
(* The inductive invariant. *)

\* What a process does with a grant after the claim.
RunOps == {"reserve", "fetch"}

\* Every table has its columns' types, and the accounts balance.
RequestTable == [Proposals -> Requests]
GrantTable == [Proposals -> SUBSET {"issued", "consumed", "lapsed"}]
ActorTable ==
  [Actors -> [op : Ops, now : 0 .. MaxClock, todo : SUBSET Proposals]]
CellTable == [Cells -> CellStatuses]
ExportTable == [Artifacts -> {Unexported} \cup 0 .. MaxClock]
CallTable ==
  [Proposals -> {"none", "requested", "succeeded", "failed", "unknown"}]
ActionRow ==
  [status : {"none", "claimed", "completed", "abandoned"}, at : 0 .. MaxClock,
   target : Targets \cup {"none"}, minutes : Minutes \cup {0}]
ActionTable == [Acts -> ActionRow]

Typed ==
  /\ clock \in 0 .. MaxClock /\ cell \in CellTable /\ proposed \subseteq Proposals
  /\ request \in RequestTable /\ grant \in GrantTable /\ actor \in ActorTable
  /\ Kernel!Sound(db)
  /\ flags \subseteq Flags /\ allowed \subseteq Hosts
  /\ cleared \subseteq Subjects /\ sold \subseteq Artifacts
  /\ exported \in ExportTable
  /\ call \in CallTable /\ sent \in [Proposals -> Nat]
  /\ action \in ActionTable
  /\ frozen \subseteq Channels /\ blocked \subseteq Targets

\* A grant is issued by an approval and consumed only if issued; a process
\* works on one issued grant, of the kind its verb serves.
GrantsKnown ==
  /\ \A p \in Proposals : "issued" \in grant[p] => request[p].status = "approved"
  /\ \A p \in Proposals : "consumed" \in grant[p] => "issued" \in grant[p]
  /\ \A a \in Actors : actor[a].op \in WorkOps =>
       \A p, q \in actor[a].todo : p = q
  /\ \A a \in Actors, p \in Proposals : Doing(a, WorkOps, p) =>
       /\ "issued" \in grant[p]
       /\ Kind[p] = IF actor[a].op = "claim" THEN "external_action"
                    ELSE "tool_request"

\* A process past the claim has consumed its grant, alone, and has sent nothing;
\* nothing is ever sent on a grant that is not consumed.
RunsKnown ==
  /\ \A a \in Actors, p \in Proposals :
       Doing(a, RunOps, p) => "consumed" \in grant[p] /\ sent[p] = 0
  /\ \A a, b \in Actors, p \in Proposals :
       Doing(a, RunOps, p) /\ Doing(b, RunOps, p) => a = b
  /\ \A p \in Proposals : sent[p] # 0 => "consumed" \in grant[p]

\* The hold of p is n, untouched, whether or not a sweep has been at it.
HoldsAll(d, p, n) ==
  /\ d.status[p] \in {"reserved", "execution_unknown"}
  /\ d.maximum[p] = n
  /\ d.settled[p] = 0 /\ d.paid[p] = 0 /\ d.metered[p] = 0

\* The hold of p is closed, having paid n.
ClosedAt(d, p, n) ==
  d.status[p] \in {"settled", "released"} /\ d.paid[p] = n

\* What the account of p says of the work done on its grant.
WorkKnown(p) ==
  /\ call[p] = "none" /\ action[p].status = "none" => db.status[p] = "absent"
  /\ call[p] # "none" => Kind[p] = "tool_request" /\ "consumed" \in grant[p]
  /\ action[p].status # "none" => Kind[p] = "external_action"
  /\ call[p] = "requested" =>
       db.status[p] = "absent" \/ HoldsAll(db, p, CallCost)
  /\ call[p] = "succeeded" =>
       db.status[p] = "settled" /\ db.paid[p] = CallCost /\ sent[p] = 1
  /\ call[p] = "failed" =>
       db.status[p] \in {"absent", "released"} /\ db.paid[p] = 0 /\ sent[p] = 0
  /\ call[p] = "unknown" => HoldsAll(db, p, CallCost)
  /\ action[p].status = "claimed" =>
       HoldsAll(db, p, Billable[Channel[p]]) /\ action[p].target \in Targets
  /\ action[p].status = "completed" =>
       ClosedAt(db, p, BilledMinutes(p, action[p].minutes))
  /\ action[p].status = "abandoned" => ClosedAt(db, p, 0)
  /\ \A a \in Actors :
       /\ Doing(a, {"reserve"}, p) =>
            call[p] = "requested" /\ db.status[p] = "absent"
       /\ Doing(a, {"fetch"}, p) =>
            call[p] = "requested" /\ HoldsAll(db, p, CallCost)

\* What stands or was done delivers what was let out before; nothing tainted was.
DeliveriesKnown ==
  /\ \A x \in Artifacts : exported[x] # Unexported => x \notin Tainted
  /\ \A x \in Acts : Stands(x) /\ Artifact[x] # "none" =>
       /\ exported[Artifact[x]] # Unexported
       /\ x \in Records => exported[Artifact[x]] <= action[x].at
  /\ \A r \in Records : action[r].status \in {"none", "completed"}

\* Of two standing claims on one target, neither was made against the other.
Compatible(x, y) ==
  /\ LineageOf(x) = LineageOf(y)
  /\ ChannelOf(x) = ChannelOf(y) =>
       /\ KeyOf(x) # "counterparty"
       /\ Artifact[x] # Artifact[y] \/ Artifact[x] = "none"

ClaimsCompatible ==
  \A x, y \in {p \in Proposals : Stands(p)} :
    /\ x # y
    /\ KeyOf(x) = KeyOf(y) /\ action[x].target = action[y].target
    /\ action[x].at - action[y].at \in 0 .. Window
    => Compatible(x, y)

\* Requests of p's key, queued within the window from s on, that a batch has
\* approved or may yet approve.
BatchMay(s, p) ==
  {q \in Proposals : /\ AggregationKey(q) = AggregationKey(p)
                     /\ request[q].tier = Low
                     /\ request[q].status = "pending" \/ request[q].batched
                     /\ request[q].created \in s .. s + Window}

BatchesKnown ==
  /\ \A s \in Nat, p \in Proposals : ExposureTier(TotalCost(BatchMay(s, p))) = Low
  /\ \A p \in Proposals : request[p].created <= clock
  /\ \A p \in Proposals :
       request[p].batched => request[p].tier = Low /\ request[p].status = "approved"
  /\ \A a \in Actors, p \in Proposals : Doing(a, {"batch"}, p) =>
       request[p].tier = Low /\ request[p].status # "absent"

-----------------------------------------------------------------------------
(* What each core does to the hold it is called for. *)

\* The rows of q in d and e agree, and so do all rows but that of p.
SameRow(d, e, q) ==
  /\ e.status[q] = d.status[q] /\ e.maximum[q] = d.maximum[q]
  /\ e.settled[q] = d.settled[q] /\ e.paid[q] = d.paid[q]
  /\ e.metered[q] = d.metered[q]

OthersKept(d, e, p) == \A q \in Proposals \ {p} : SameRow(d, e, q)

\* A sound database's columns.
LEMMA SoundColumns ==
  ASSUME NEW d, Kernel!Sound(d)
  PROVE  /\ DOMAIN d = {"status", "maximum", "settled", "paid", "returned",
                        "metered", "direct", "mirrored", "aged", "estate", "alive"}
         /\ d.status \in [Proposals -> {"reserved", "execution_unknown",
                "partially_settled", "disputed", "settled", "released", "absent"}]
         /\ d.maximum \in [Proposals -> Nat] /\ d.settled \in [Proposals -> Nat]
         /\ d.paid \in [Proposals -> Nat] /\ d.metered \in [Proposals -> Nat]
<1>1. d \in Kernel!Databases
  BY DEF Kernel!Sound
<1>2. Kernel!Statuses \cup {"absent"} =
        {"reserved", "execution_unknown", "partially_settled", "disputed",
         "settled", "released", "absent"}
  BY DEF Kernel!Statuses, Kernel!OpenStatuses
<1>3. QED
  BY <1>1, <1>2 DEF Kernel!Databases

\* A sound database's rows balance.
LEMMA SoundBalances ==
  ASSUME NEW d, Kernel!Sound(d), NEW p \in Proposals
  PROVE  /\ d.status[p] = "absent" => d.maximum[p] = 0
         /\ d.paid[p] = d.settled[p] /\ d.metered[p] <= d.maximum[p]
         /\ d.status[p] \in {"absent", "reserved", "execution_unknown", "disputed"}
              => d.settled[p] = 0
         /\ d.status[p] # "absent" => d.maximum[p] > 0
  BY DEF Kernel!Sound, Kernel!HoldsBalanced, Kernel!HoldBalanced, Kernel!Balanced

\* A granted request holds its whole amount.
LEMMA RequestHolds ==
  ASSUME NEW d, Kernel!Sound(d), NEW p \in Proposals, NEW n \in Nat,
         Core!MayRequest(d, p, n)
  PROVE  LET e == Core!Request(d, p, n)
         IN  /\ Kernel!Sound(e) /\ OthersKept(d, e, p) /\ HoldsAll(e, p, n)
             /\ d.status[p] = "absent"
<1> DEFINE e == Core!Request(d, p, n)
<1>1. Kernel!Sound(e)
  <2>1. Kernel!MayRequest(d, p, n) /\ e = Kernel!Request(d, p, n)
    BY SameCores
  <2>2. QED
    BY <2>1, Kernel!RequestSound, KernelAssumptionMet
<1>2. d.status[p] = "absent"
  BY DEF Core!MayRequest
<1>3. /\ e.status = [d.status EXCEPT ![p] = "reserved"]
      /\ e.maximum = [d.maximum EXCEPT ![p] = n]
      /\ e.settled = d.settled /\ e.paid = d.paid /\ e.metered = d.metered
  BY SoundColumns DEF Core!Request
<1>4. d.metered[p] = 0 /\ d.settled[p] = 0 /\ d.paid[p] = 0
  BY <1>2, SoundColumns, SoundBalances
<1>5. HoldsAll(e, p, n)
  BY <1>3, <1>4, SoundColumns DEF HoldsAll
<1>6. OthersKept(d, e, p)
  BY <1>3, SoundColumns DEF OthersKept, SameRow
<1>7. QED
  BY <1>1, <1>2, <1>5, <1>6

\* Releasing an untouched hold closes it, with nothing paid.
LEMMA ReleaseCloses ==
  ASSUME NEW d, Kernel!Sound(d), NEW p \in Proposals, NEW n,
         HoldsAll(d, p, n), Core!MayRelease(d, p)
  PROVE  LET e == Core!Release(d, p)
         IN  /\ Kernel!Sound(e) /\ OthersKept(d, e, p)
             /\ e.status[p] = "released" /\ e.paid[p] = 0
<1> DEFINE e == Core!Release(d, p)
<1>1. Kernel!Sound(e)
  <2>1. Kernel!MayRelease(d, p) /\ e = Kernel!Release(d, p)
    BY SameCores
  <2>2. QED
    BY <2>1, Kernel!ReleaseSound, KernelAssumptionMet
<1>2. /\ e.status = [d.status EXCEPT ![p] = "released"]
      /\ e.maximum = d.maximum /\ e.settled = d.settled /\ e.paid = d.paid
      /\ e.metered = d.metered
  BY SoundColumns DEF Core!Release
<1>3. QED
  BY <1>1, <1>2, SoundColumns DEF OthersKept, SameRow, HoldsAll

\* A sweep leaves a hold held, its outcome unknown.
LEMMA SweepKeepsHold ==
  ASSUME NEW d, Kernel!Sound(d), NEW p \in Proposals, d.status[p] = "reserved"
  PROVE  LET e == Core!Mark(d, p, "execution_unknown")
         IN  /\ Kernel!Sound(e) /\ OthersKept(d, e, p)
             /\ \A n : HoldsAll(d, p, n) => HoldsAll(e, p, n)
<1> DEFINE e == Core!Mark(d, p, "execution_unknown")
<1>1. Kernel!MayTransition(d, p, "execution_unknown")
  BY DEF Kernel!MayTransition, Kernel!AllowedTransitions
<1>2. Kernel!Sound(e)
  <2>1. e = Kernel!Mark(d, p, "execution_unknown")
    BY SameCores
  <2>2. QED
    BY <1>1, <2>1, Kernel!MarkSound, KernelAssumptionMet
<1>3. /\ e.status = [d.status EXCEPT ![p] = "execution_unknown"]
      /\ e.maximum = d.maximum /\ e.settled = d.settled /\ e.paid = d.paid
      /\ e.metered = d.metered
  BY SoundColumns DEF Core!Mark
<1>4. QED
  BY <1>2, <1>3, SoundColumns DEF OthersKept, SameRow, HoldsAll

\* Metering against an untouched hold leaves the rest of it alone.
LEMMA MeteringKeepsHold ==
  ASSUME NEW d, Kernel!Sound(d), NEW p \in Proposals, NEW n, NEW used \in Nat,
         HoldsAll(d, p, n), Core!MayRecordUsage(d, p, used)
  PROVE  LET e == Core!RecordUsage(d, p, used)
         IN  /\ Kernel!Sound(e) /\ OthersKept(d, e, p)
             /\ e.status[p] = "reserved" /\ e.maximum[p] = n
             /\ e.settled[p] = 0 /\ e.paid[p] = 0
             /\ used <= n
<1> DEFINE e == Core!RecordUsage(d, p, used)
<1>1. Kernel!Sound(e)
  <2>1. Kernel!MayRecordUsage(d, p, used) /\ e = Kernel!RecordUsage(d, p, used)
    BY SameCores
  <2>2. QED
    BY <2>1, Kernel!RecordUsageSound, KernelAssumptionMet
<1>2. /\ e.metered = [d.metered EXCEPT ![p] = d.metered[p] + used]
      /\ e.maximum = d.maximum /\ e.settled = d.settled /\ e.paid = d.paid
      /\ e.status = d.status
  BY SoundColumns DEF Core!RecordUsage
<1>3. d.status[p] = "reserved" /\ d.metered[p] + used <= d.maximum[p]
  BY DEF Core!MayRecordUsage
<1>4. d.metered[p] = 0 /\ d.maximum[p] = n /\ d.settled[p] = 0 /\ d.paid[p] = 0
  BY DEF HoldsAll
<1>5. OthersKept(d, e, p)
  BY <1>2, SoundColumns DEF OthersKept, SameRow
<1>6. QED
  BY <1>1, <1>2, <1>3, <1>4, <1>5

\* Settling part or all of a metered hold pays that much, whatever then becomes
\* of the rest.
LEMMA SettlingPays ==
  ASSUME NEW d, Kernel!Sound(d), NEW p \in Proposals, NEW n \in Nat,
         d.status[p] = "reserved", d.maximum[p] = n, d.paid[p] = 0,
         NEW used \in Nat, used <= n
  PROVE  LET e == Core!Settle(d, p, used)
         IN  /\ Kernel!Sound(e) /\ OthersKept(d, e, p)
             /\ e.status[p] = (IF used = n THEN "settled" ELSE "partially_settled")
             /\ e.paid[p] = used /\ e.maximum[p] = n
<1> DEFINE e == Core!Settle(d, p, used)
<1>1. Kernel!MaySettle(d, p, used)
  BY SoundColumns
  DEF Kernel!MaySettle, Kernel!MayTransition, Kernel!AllowedTransitions,
      Kernel!SettledStatus
<1>2. Kernel!Sound(e)
  <2>1. e = Kernel!Settle(d, p, used)
    BY SameCores
  <2>2. QED
    BY <1>1, <2>1, Kernel!SettleSound, KernelAssumptionMet
<1>3. /\ e.status = [d.status EXCEPT ![p] = IF used = n THEN "settled"
                                            ELSE "partially_settled"]
      /\ e.settled = [d.settled EXCEPT ![p] = used]
      /\ e.paid = [d.paid EXCEPT ![p] = d.paid[p] + used]
      /\ e.maximum = d.maximum /\ e.metered = d.metered
  BY SoundColumns DEF Core!Settle, Core!SettledStatus
<1>4. e.paid[p] = used
  BY <1>3, SoundColumns
<1>5. OthersKept(d, e, p)
  BY <1>3, SoundColumns DEF OthersKept, SameRow
<1>6. QED
  BY <1>2, <1>3, <1>4, <1>5, SoundColumns

\* What is kept twice is kept.
LEMMA KeptTwice ==
  ASSUME NEW d, NEW e, NEW f, NEW p, OthersKept(d, e, p), OthersKept(e, f, p)
  PROVE  OthersKept(d, f, p)
  BY DEF OthersKept, SameRow

\* A call that was answered settles its whole price.
LEMMA CallIsPaid ==
  ASSUME NEW d, Kernel!Sound(d), NEW p \in Proposals, HoldsAll(d, p, CallCost),
         Core!MayRecordUsage(d, p, CallCost)
  PROVE  LET e == Core!Settle(Core!RecordUsage(d, p, CallCost), p, CallCost)
         IN  /\ Kernel!Sound(e) /\ OthersKept(d, e, p)
             /\ e.status[p] = "settled" /\ e.paid[p] = CallCost
<1> DEFINE m == Core!RecordUsage(d, p, CallCost)
<1>1. CallCost \in Nat
  BY GrantedWorkAssumption
<1>2. /\ Kernel!Sound(m) /\ OthersKept(d, m, p)
      /\ m.status[p] = "reserved" /\ m.maximum[p] = CallCost /\ m.paid[p] = 0
  BY <1>1, MeteringKeepsHold
<1> HIDE DEF m
<1>3. LET e == Core!Settle(m, p, CallCost)
      IN  /\ Kernel!Sound(e) /\ OthersKept(m, e, p)
          /\ e.status[p] = "settled" /\ e.paid[p] = CallCost
  BY <1>1, <1>2, SettlingPays
<1>4. QED
  BY <1>2, <1>3, KeptTwice DEF m

\* A completed action pays what is billed and frees the rest.
LEMMA ActionIsPaid ==
  ASSUME NEW d, Kernel!Sound(d), NEW p \in Proposals, NEW n \in Nat,
         HoldsAll(d, p, n), NEW billed \in Nat,
         Core!MayRecordUsage(d, p, billed)
  PROVE  LET e == Core!SettleAndReleaseRemainder(
                    Core!RecordUsage(d, p, billed), p, billed)
         IN  /\ Kernel!Sound(e) /\ OthersKept(d, e, p) /\ ClosedAt(e, p, billed)
<1> DEFINE m == Core!RecordUsage(d, p, billed)
           f == Core!Settle(m, p, billed)
           e == Core!SettleAndReleaseRemainder(m, p, billed)
<1>1. /\ Kernel!Sound(m) /\ OthersKept(d, m, p)
      /\ m.status[p] = "reserved" /\ m.maximum[p] = n /\ m.paid[p] = 0
      /\ billed <= n
  BY MeteringKeepsHold
<1>2. e = IF billed < n THEN Core!Release(f, p) ELSE f
  BY <1>1 DEF Core!SettleAndReleaseRemainder
<1> HIDE DEF m
<1>3. /\ Kernel!Sound(f) /\ OthersKept(m, f, p)
      /\ f.status[p] = (IF billed = n THEN "settled" ELSE "partially_settled")
      /\ f.paid[p] = billed
  BY <1>1, SettlingPays
<1> HIDE DEF f
<1>4. CASE billed = n
  <2>1. ClosedAt(f, p, billed)
    BY <1>3, <1>4 DEF ClosedAt
  <2>2. e = f
    BY <1>2, <1>4
  <2>3. QED
    BY <1>1, <1>3, <2>1, <2>2, KeptTwice DEF m
<1>5. CASE billed # n
  <2> DEFINE g == Core!Release(f, p)
  <2>1. Kernel!MayRelease(f, p)
    BY <1>3, <1>5
    DEF Kernel!MayRelease, Kernel!MayTransition, Kernel!AllowedTransitions
  <2>2. Kernel!Sound(g)
    <3>1. g = Kernel!Release(f, p)
      BY SameCores
    <3>2. QED
      BY <1>3, <2>1, <3>1, Kernel!ReleaseSound, KernelAssumptionMet
  <2>3. /\ g.status = [f.status EXCEPT ![p] = "released"]
        /\ g.maximum = f.maximum /\ g.settled = f.settled /\ g.paid = f.paid
        /\ g.metered = f.metered
    BY <1>3, SoundColumns DEF Core!Release
  <2>4. OthersKept(f, g, p) /\ ClosedAt(g, p, billed)
    BY <1>3, <2>3, SoundColumns DEF OthersKept, SameRow, ClosedAt
  <2>5. e = g
    BY <1>1, <1>2, <1>5
  <2> HIDE DEF g
  <2>6. OthersKept(d, g, p)
    BY <1>1, <1>3, <2>4, KeptTwice
  <2>7. QED
    BY <2>2, <2>4, <2>5, <2>6 DEF m
<1>6. QED
  BY <1>4, <1>5

-----------------------------------------------------------------------------
(* The steps, by what they do to requests, grants, processes and the world. *)

\* A step of something else.
Rests ==
  /\ UNCHANGED <<request, grant, actor, sent>>
  /\ clock' = clock \/ (clock < MaxClock /\ clock' = clock + 1)

\* A proposal is queued for review.
Queues(p) ==
  /\ request[p].status = "absent"
  /\ \E selective \in BOOLEAN :
       request' = [request EXCEPT ![p] = NewRequest(p, selective)]
  /\ UNCHANGED <<grant, actor, sent, clock>>

\* A verb of the review queue reads the clock and its list.
Starts(a) ==
  /\ \E op \in QueueOps, todo \in SUBSET Proposals :
       /\ actor' = [actor EXCEPT ![a] = [op |-> op, now |-> clock, todo |-> todo]]
       /\ op = "batch" => todo \subseteq {p \in Pending : Batchable(p)}
  /\ UNCHANGED <<request, grant, sent, clock>>

\* A process ends, by itself or not.
Stops(a) == Raise(a) /\ UNCHANGED <<request, grant, sent, clock>>

\* It approves, rejects, lets expire or lapse, or passes over, one proposal.
Approves(a, p) ==
  /\ request[p].status = "pending"
  /\ request' = [request EXCEPT ![p].status = "approved",
                                ![p].batched = actor[a].op = "batch"]
  /\ grant' = [grant EXCEPT ![p] = {"issued"}]
Refuses(p) ==
  /\ request[p].status = "pending"
  /\ \E s \in {"rejected", "expired"} : request' = [request EXCEPT ![p].status = s]
  /\ UNCHANGED grant
Lapses(p) ==
  /\ grant[p] = {"issued"}
  /\ grant' = [grant EXCEPT ![p] = @ \cup {"lapsed"}]
  /\ UNCHANGED request
Decides(a, p) ==
  /\ Doing(a, QueueOps, p) /\ NextItem(a, p)
  /\ Approves(a, p) \/ Refuses(p) \/ Lapses(p) \/ UNCHANGED <<request, grant>>
  /\ UNCHANGED <<sent, clock>>

\* A process takes up an issued grant of its kind,
Begins(a, p) ==
  /\ "issued" \in grant[p]
  /\ \E op \in {"execute", "claim"} :
       /\ Kind[p] = (IF op = "claim" THEN "external_action" ELSE "tool_request")
       /\ actor' = [actor EXCEPT ![a] = [op |-> op, now |-> clock, todo |-> {p}]]
  /\ UNCHANGED <<request, grant, sent, clock>>

\* spends it on a call and goes on to reserve,
ClaimsCall(a, p) ==
  /\ Doing(a, {"execute"}, p) /\ "consumed" \notin grant[p]
  /\ Consume(p) /\ GoTo(a, "reserve")
  /\ UNCHANGED <<request, sent, clock>>

\* or spends it on an action that a person will take,
Takes(a, p) ==
  /\ Doing(a, {"claim"}, p) /\ "consumed" \notin grant[p]
  /\ Consume(p) /\ Raise(a)
  /\ UNCHANGED <<request, sent, clock>>

\* goes on to fetch,
Reserves(a, p) ==
  /\ Doing(a, {"reserve"}, p) /\ GoTo(a, "fetch")
  /\ UNCHANGED <<request, grant, sent, clock>>

\* and sends.
Sends(a, p) ==
  /\ Doing(a, {"fetch"}, p) /\ Send(p) /\ Raise(a)
  /\ UNCHANGED <<request, grant, clock>>

ActorStep(a, p) ==
  \/ Decides(a, p) \/ Begins(a, p) \/ ClaimsCall(a, p) \/ Takes(a, p)
  \/ Reserves(a, p) \/ Sends(a, p)

\* How a verb of the queue begins.
LEMMA BeginStarts ==
  ASSUME NEW a, NEW op \in QueueOps, NEW todo \in SUBSET Proposals,
         Begin(a, op, todo), UNCHANGED sent,
         op = "batch" => todo \subseteq {p \in Pending : Batchable(p)}
  PROVE  Starts(a)
  BY DEF Begin, Starts, queueVars

\* The steps of the queue,
LEMMA QueueKinds ==
  ASSUME ApprovalNext, UNCHANGED workVars
  PROVE  \/ Rests
         \/ \E p \in Proposals : Queues(p)
         \/ \E a \in Actors : Starts(a) \/ Stops(a)
         \/ \E a \in Actors, p \in Proposals : Decides(a, p)
<1> DEFINE Known == \/ Rests
                    \/ \E p \in Proposals : Queues(p)
                    \/ \E a \in Actors : Starts(a) \/ Stops(a)
                    \/ \E a \in Actors, p \in Proposals : Decides(a, p)
<1>1. CASE Queueing
  <2>1. ASSUME NEW p \in Proposals, NEW selective \in BOOLEAN,
               Enqueue(p, selective), UNCHANGED <<clock, grant, actor>>
        PROVE  Rests \/ Queues(p)
    <3>1. UNCHANGED sent
      BY DEF workVars
    <3>2. CASE request' = request
      BY <2>1, <3>1, <3>2 DEF Rests
    <3>3. CASE request' # request
      BY <2>1, <3>1, <3>3 DEF Enqueue, Queues
    <3>4. QED
      BY <3>2, <3>3
  <2>2. ASSUME NEW p \in Proposals, ProposeUnqueued(p) PROVE Rests
    BY <2>2 DEF ProposeUnqueued, Rests, workVars, queueVars
  <2>3. ASSUME NEW p \in Proposals, NEW selective \in BOOLEAN,
               Propose(p, selective) \/ EnqueueMissing(p, selective)
        PROVE  Rests \/ Queues(p)
    <3>1. Enqueue(p, selective) /\ UNCHANGED <<clock, grant, actor>>
      BY <2>3 DEF Propose, EnqueueMissing
    <3>2. QED
      BY <2>1, <3>1
  <2>4. QED
    BY <1>1, <2>2, <2>3 DEF Queueing
<1>2. CASE ColonyStep
  BY <1>2
  DEF ColonyStep, Tick, QuarantineCell, ClearQuarantine, Rests, workVars,
      queueVars
<1>3. ASSUME NEW a \in Actors, Decisions(a) PROVE Known
  <2>1. ASSUME cmd_approve(a) \/ cmd_reject(a) \/ cmd_approve_batch(a)
        PROVE  Starts(a)
    <3>1. UNCHANGED sent /\ {"approve", "reject", "batch"} \subseteq QueueOps
      BY DEF workVars, QueueOps
    <3>2. ASSUME NEW p \in Proposals, NEW op \in {"approve", "reject"},
                 BeginDecision(a, p, op)
          PROVE  Starts(a)
      <4>1. Begin(a, op, {p}) /\ op # "batch"
        BY <3>2 DEF BeginDecision
      <4>2. QED
        BY <3>1, <4>1, BeginStarts
    <3>3. ASSUME BeginBatch(a) PROVE Starts(a)
      <4>1. {p \in Pending : Batchable(p)} \in SUBSET Proposals
        BY DEF Pending
      <4>2. QED
        BY <3>1, <3>3, <4>1, BeginStarts DEF BeginBatch
    <3>4. QED
      BY <2>1, <3>2, <3>3 DEF cmd_approve, cmd_reject, cmd_approve_batch
  <2>2. ASSUME NEW p \in Proposals, Approve(a, p) PROVE Decides(a, p)
    BY <2>2
    DEF Approve, MayDecide, Decides, Approves, Doing, QueueOps, workVars
  <2>3. ASSUME NEW p \in Proposals, Reject(a, p) PROVE Decides(a, p)
    BY <2>3
    DEF Reject, MayDecide, Decides, Refuses, Doing, QueueOps, workVars
  <2>4. ASSUME NEW p \in Proposals, DecisionRefused(a, p) PROVE Stops(a)
    BY <2>4 DEF DecisionRefused, Stops, workVars, queueVars
  <2>5. QED
    BY <1>3, <2>1, <2>2, <2>3, <2>4 DEF Decisions
<1>4. ASSUME NEW a \in Actors, Expiries(a) PROVE Known
  <2>1. ASSUME cmd_expire_approvals(a) PROVE Starts(a)
    <3>1. UNCHANGED sent /\ {"expire", "expire grants"} \subseteq QueueOps
      BY DEF workVars, QueueOps
    <3>2. ASSUME BeginExpiry(a) PROVE Starts(a)
      <4>1. {p \in Pending : request[p].expires <= clock} \in SUBSET Proposals
        BY DEF Pending
      <4>2. QED
        BY <3>1, <3>2, <4>1, BeginStarts DEF BeginExpiry
    <3>3. ASSUME BeginGrantExpiry(a) PROVE Starts(a)
      BY <3>1, <3>3, BeginStarts DEF BeginGrantExpiry
    <3>4. QED
      BY <2>1, <3>2, <3>3 DEF cmd_expire_approvals
  <2>2. ASSUME NEW p \in Proposals, ExpireRequest(a, p) PROVE Decides(a, p)
    BY <2>2 DEF ExpireRequest, Decides, Refuses, Doing, QueueOps, workVars
  <2>3. ASSUME NEW p \in Proposals, ExpireGrant(a, p) PROVE Decides(a, p)
    BY <2>3 DEF ExpireGrant, Decides, Lapses, Doing, QueueOps, workVars
  <2>4. QED
    BY <1>4, <2>1, <2>2, <2>3 DEF Expiries
<1>5. ASSUME NEW a \in Actors, Crash(a) PROVE Stops(a)
  BY <1>5 DEF Crash, Stops, workVars, queueVars
<1>6. QED
  BY <1>1, <1>2, <1>3, <1>4, <1>5 DEF ApprovalNext

\* and of the whole.
LEMMA StepKinds ==
  ASSUME [Next]_vars
  PROVE  \/ Rests
         \/ \E p \in Proposals : Queues(p)
         \/ \E a \in Actors : Starts(a) \/ Stops(a)
         \/ \E a \in Actors, p \in Proposals : ActorStep(a, p)
<1> DEFINE Known == \/ Rests
                    \/ \E p \in Proposals : Queues(p)
                    \/ \E a \in Actors : Starts(a) \/ Stops(a)
                    \/ \E a \in Actors, p \in Proposals : ActorStep(a, p)
<1> USE DEF ActorStep
<1>1. CASE ApprovalNext /\ UNCHANGED workVars
  BY <1>1, QueueKinds
<1>2. ASSUME NEW a \in Actors, NEW p \in Proposals, ToolStep(a, p) PROVE Known
  <2>1. ASSUME ClaimCall(a, p) PROVE ClaimsCall(a, p)
    BY <2>1 DEF ClaimCall, MayFetch, MayUse, ClaimsCall
  <2>2. ASSUME CallRefused(a, p) PROVE Stops(a)
    BY <2>2 DEF CallRefused, Stops, workVars, queueVars
  <2>3. ASSUME ReserveCall(a, p) PROVE Reserves(a, p) \/ Stops(a)
    BY <2>3 DEF ReserveCall, Reserves, Stops, queueVars
  <2>4. ASSUME FetchRefused(a, p) PROVE Stops(a)
    BY <2>4 DEF FetchRefused, Stops, queueVars
  <2>5. ASSUME FetchUnclear(a, p) \/ FetchAnswered(a, p) \/ CrashInFetch(a, p)
        PROVE  Sends(a, p)
    BY <2>5 DEF FetchUnclear, FetchAnswered, CrashInFetch, Sends, queueVars
  <2>6. QED
    BY <1>2, <2>1, <2>2, <2>3, <2>4, <2>5 DEF ToolStep
<1>3. ASSUME NEW a \in Actors, NEW p \in Proposals, NEW target \in Targets,
             ClaimAction(a, p, target) \/ ClaimRefused(a, p, target)
      PROVE  Takes(a, p) \/ Stops(a)
  BY <1>3
  DEF ClaimAction, ClaimRefused, MayClaim, MayUse, Takes, Stops, queueVars,
      workVars
<1>4. ASSUME NEW a \in Actors, cmd_run_tool(a) \/ cmd_claim_external_action(a)
      PROVE  \E p \in Proposals : Begins(a, p)
  BY <1>4
  DEF cmd_run_tool, cmd_claim_external_action, BeginWork, Begin, Begins,
      workVars, queueVars
<1>5. CASE Verbs
  BY <1>5
  DEF Verbs, cmd_complete_external_action, cmd_abandon_external_action,
      cmd_record_external_action, cmd_unfreeze_channel, cmd_set_autonomy,
      cmd_allow_domain, cmd_set_rights, cmd_export_artifact, CompleteAction,
      AbandonAction, RecordPerformed, AcknowledgeChannel, SetAutonomy,
      AllowDomain, DenyDomain, Attest, Export, approvalVars, Rests
<1>6. ASSUME NEW p \in Proposals, SweepHold(p) PROVE Rests
  BY <1>6 DEF SweepHold, approvalVars, Rests
<1>7. ASSUME NEW c \in Mortal, Kill(c) PROVE Rests
  BY <1>7 DEF Kill, KillCell, queueVars, Rests
<1>8. CASE UNCHANGED vars
  BY <1>8 DEF vars, approvalVars, workVars, Rests
<1>9. QED
  BY <1>1, <1>2, <1>3, <1>4, <1>5, <1>6, <1>7, <1>8 DEF Next

-----------------------------------------------------------------------------
(* Grants and the processes that use them. *)

\* The tables that permits, and the processes that use them, are kept in.
PermitsTyped ==
  /\ request \in RequestTable /\ grant \in GrantTable /\ actor \in ActorTable
  /\ sent \in [Proposals -> Nat]

\* What writing one process leaves of the others, and of it.
LEMMA ActorWrites ==
  ASSUME actor \in ActorTable, NEW a \in Actors
  PROVE  /\ \A row : actor' = [actor EXCEPT ![a] = row] =>
              actor'[a] = row /\ \A b \in Actors \ {a} : actor'[b] = actor[b]
         /\ \A op : GoTo(a, op) =>
              /\ actor'[a].op = op /\ actor'[a].todo = actor[a].todo
              /\ \A b \in Actors \ {a} : actor'[b] = actor[b]
         /\ \A p : NextItem(a, p) =>
              /\ actor'[a].op \in {"idle", actor[a].op}
              /\ actor'[a].todo \subseteq actor[a].todo
              /\ \A b \in Actors \ {a} : actor'[b] = actor[b]
         /\ Raise(a) =>
              /\ actor'[a].op = "idle" /\ actor'[a].todo = {}
              /\ \A b \in Actors \ {a} : actor'[b] = actor[b]
<1>1. /\ DOMAIN actor = Actors
      /\ \A b \in Actors : DOMAIN actor[b] = {"op", "now", "todo"}
  BY DEF ActorTable
<1>2. ASSUME NEW row, actor' = [actor EXCEPT ![a] = row]
      PROVE  actor'[a] = row /\ \A b \in Actors \ {a} : actor'[b] = actor[b]
  BY <1>1, <1>2
<1>3. ASSUME NEW op, GoTo(a, op)
      PROVE  /\ actor'[a].op = op /\ actor'[a].todo = actor[a].todo
             /\ \A b \in Actors \ {a} : actor'[b] = actor[b]
  BY <1>1, <1>3 DEF GoTo
<1>4. ASSUME NEW p, NextItem(a, p)
      PROVE  /\ actor'[a].op \in {"idle", actor[a].op}
             /\ actor'[a].todo \subseteq actor[a].todo
             /\ \A b \in Actors \ {a} : actor'[b] = actor[b]
  <2>1. CASE actor[a].todo = {p}
    BY <1>1, <1>4, <2>1 DEF NextItem, Idle
  <2>2. CASE actor[a].todo # {p}
    BY <1>1, <1>4, <2>2 DEF NextItem
  <2>3. QED
    BY <2>1, <2>2
<1>5. ASSUME Raise(a)
      PROVE  /\ actor'[a].op = "idle" /\ actor'[a].todo = {}
             /\ \A b \in Actors \ {a} : actor'[b] = actor[b]
  BY <1>2, <1>5 DEF Raise, Idle
<1>6. QED
  BY <1>2, <1>3, <1>4, <1>5

\* What may become of one request and its grant in a step.
GrantStays(q) == request'[q].status = request[q].status /\ grant'[q] = grant[q]
GrantQueued(q) ==
  /\ request[q].status = "absent" /\ request'[q].status = "pending"
  /\ grant'[q] = grant[q]
GrantIssued(q) ==
  /\ request[q].status = "pending" /\ request'[q].status = "approved"
  /\ grant'[q] = {"issued"}
GrantRefused(q) ==
  /\ request[q].status = "pending" /\ request'[q].status \in {"rejected", "expired"}
  /\ grant'[q] = grant[q]
GrantLapsed(q) ==
  /\ request'[q].status = request[q].status
  /\ grant[q] = {"issued"} /\ grant'[q] = {"issued", "lapsed"}
GrantConsumed(q) ==
  /\ request'[q].status = request[q].status
  /\ "issued" \in grant[q] /\ "consumed" \notin grant[q]
  /\ grant'[q] = grant[q] \cup {"consumed"}
GrantMoves(q) ==
  \/ GrantStays(q) \/ GrantQueued(q) \/ GrantIssued(q) \/ GrantRefused(q)
  \/ GrantLapsed(q) \/ GrantConsumed(q)

\* A step moves at most one grant, and sends nothing on any when it does.
LEMMA OneGrantMoves ==
  ASSUME PermitsTyped, GrantsKnown, [Next]_vars
  PROVE  \/ \A q \in Proposals : GrantStays(q)
         \/ /\ \E p \in Proposals : /\ GrantMoves(p)
                                    /\ \A q \in Proposals \ {p} : GrantStays(q)
            /\ UNCHANGED sent
<1> DEFINE Moves(p) == /\ GrantMoves(p)
                       /\ \A q \in Proposals \ {p} : GrantStays(q)
                       /\ UNCHANGED sent
           None == \A q \in Proposals : GrantStays(q)
<1>1. /\ DOMAIN request = Proposals /\ DOMAIN grant = Proposals
      /\ \A q \in Proposals :
           DOMAIN request[q] =
             {"status", "tier", "flagged", "created", "expires", "batched"}
  BY DEF PermitsTyped, RequestTable, Requests, GrantTable
<1>2. ASSUME Rests \/ (\E a \in Actors : Starts(a) \/ Stops(a)) PROVE None
  BY <1>2 DEF Rests, Starts, Stops, GrantStays
<1>3. ASSUME NEW p \in Proposals, Queues(p) PROVE Moves(p)
  <2>1. PICK selective \in BOOLEAN :
          request' = [request EXCEPT ![p] = NewRequest(p, selective)]
    BY <1>3 DEF Queues
  <2>2. NewRequest(p, selective).status = "pending"
    BY DEF NewRequest
  <2>3. QED
    BY <1>1, <1>3, <2>1, <2>2 DEF Queues, GrantMoves, GrantStays, GrantQueued
<1>4. ASSUME NEW a \in Actors, NEW p \in Proposals, Decides(a, p)
      PROVE  Moves(p)
  <2>1. CASE UNCHANGED <<request, grant>>
    BY <1>4, <2>1 DEF Decides, GrantMoves, GrantStays
  <2>2. CASE Approves(a, p)
    <3>1. request'[p].status = "approved" /\ grant'[p] = {"issued"}
          /\ request[p].status = "pending"
      BY <1>1, <2>2 DEF Approves
    <3>2. \A q \in Proposals \ {p} : GrantStays(q)
      BY <1>1, <2>2 DEF Approves, GrantStays
    <3>3. QED
      BY <1>4, <3>1, <3>2 DEF GrantMoves, GrantIssued, Decides
  <2>3. CASE Refuses(p)
    <3>1. PICK s \in {"rejected", "expired"} :
            request' = [request EXCEPT ![p].status = s]
      BY <2>3 DEF Refuses
    <3>2. request'[p].status = s /\ \A q \in Proposals \ {p} : request'[q] = request[q]
      BY <1>1, <3>1
    <3>3. QED
      BY <1>4, <2>3, <3>2
      DEF GrantMoves, GrantStays, GrantRefused, Refuses, Decides
  <2>4. CASE Lapses(p)
    <3>1. grant'[p] = grant[p] \cup {"lapsed"}
          /\ \A q \in Proposals \ {p} : grant'[q] = grant[q]
      BY <1>1, <2>4 DEF Lapses
    <3>2. QED
      BY <1>4, <2>4, <3>1 DEF GrantMoves, GrantStays, GrantLapsed, Lapses, Decides
  <2>5. QED
    BY <1>4, <2>1, <2>2, <2>3, <2>4 DEF Decides
<1>5. ASSUME NEW a \in Actors, NEW p \in Proposals, ClaimsCall(a, p) \/ Takes(a, p)
      PROVE  Moves(p)
  <2>1. /\ grant'[p] = grant[p] \cup {"consumed"} /\ "consumed" \notin grant[p]
        /\ \A q \in Proposals \ {p} : grant'[q] = grant[q]
        /\ UNCHANGED <<request, sent>>
    BY <1>1, <1>5 DEF ClaimsCall, Takes, Consume
  <2>2. Doing(a, WorkOps, p)
    BY <1>5 DEF ClaimsCall, Takes, Doing, WorkOps
  <2>3. "issued" \in grant[p]
    BY <2>2 DEF GrantsKnown
  <2>4. QED
    BY <2>1, <2>3 DEF GrantMoves, GrantStays, GrantConsumed
<1>6. ASSUME NEW a \in Actors, NEW p \in Proposals,
             Begins(a, p) \/ Reserves(a, p) \/ Sends(a, p)
      PROVE  None
  BY <1>6 DEF Begins, Reserves, Sends, GrantStays
<1>7. None \/ \E p \in Proposals : Moves(p)
  BY <1>2, <1>3, <1>4, <1>5, <1>6, StepKinds DEF ActorStep
<1>8. QED
  BY <1>7

\* What is issued and what is consumed stays so.
LEMMA GrantsStand ==
  ASSUME PermitsTyped, GrantsKnown, [Next]_vars, NEW q \in Proposals
  PROVE  /\ "issued" \in grant[q] => "issued" \in grant'[q]
         /\ "consumed" \in grant[q] => "consumed" \in grant'[q]
         /\ "issued" \in grant'[q] => request'[q].status = "approved"
         /\ "consumed" \in grant'[q] => "issued" \in grant'[q]
<1>1. GrantMoves(q)
  BY OneGrantMoves DEF GrantMoves
<1>2. /\ "issued" \in grant[q] => request[q].status = "approved"
      /\ "consumed" \in grant[q] => "issued" \in grant[q]
  BY DEF GrantsKnown
<1>3. QED
  BY <1>1, <1>2
  DEF GrantMoves, GrantStays, GrantQueued, GrantIssued, GrantRefused,
      GrantLapsed, GrantConsumed

\* A process at work after a step was at the same work before it, has just taken
\* it up, or has gone on with it.
LEMMA WorkGoesOn ==
  ASSUME PermitsTyped, [Next]_vars, NEW a \in Actors, actor'[a].op \in WorkOps
  PROVE  \/ actor'[a] = actor[a]
         \/ \E p \in Proposals :
              \/ Begins(a, p) /\ actor'[a].todo = {p}
                   /\ Kind[p] = (IF actor'[a].op = "claim" THEN "external_action"
                                 ELSE "tool_request")
                   /\ actor'[a].op \in {"execute", "claim"}
              \/ /\ ClaimsCall(a, p) /\ actor'[a].op = "reserve"
                 /\ actor'[a].todo = actor[a].todo
              \/ /\ Reserves(a, p) /\ actor'[a].op = "fetch"
                 /\ actor'[a].todo = actor[a].todo
<1>1. actor \in ActorTable
  BY DEF PermitsTyped
<1>2. ASSUME actor'[a] # actor[a]
      PROVE  Starts(a) \/ Stops(a) \/ \E p \in Proposals : ActorStep(a, p)
  <2>1. ASSUME Rests \/ \E p \in Proposals : Queues(p) PROVE FALSE
    BY <1>2, <2>1 DEF Rests, Queues
  <2>2. ASSUME NEW b \in Actors, NEW p, b # a,
               Starts(b) \/ Stops(b) \/ ActorStep(b, p)
        PROVE  FALSE
    <3>1. \/ \E row : actor' = [actor EXCEPT ![b] = row]
          \/ \E op : GoTo(b, op)
          \/ NextItem(b, p)
      BY <2>2
      DEF Starts, Stops, ActorStep, Decides, Begins, ClaimsCall, Takes, Reserves,
          Sends, Raise
    <3>2. QED
      BY <1>1, <1>2, <2>2, <3>1, ActorWrites
  <2>3. QED
    BY <2>1, <2>2, StepKinds
<1>3. ASSUME Starts(a) \/ Stops(a) PROVE FALSE
  <2>1. ASSUME Starts(a) PROVE actor'[a].op \in QueueOps
    <3>1. PICK op \in QueueOps, todo \in SUBSET Proposals :
            actor' = [actor EXCEPT ![a] = [op |-> op, now |-> clock, todo |-> todo]]
      BY <2>1 DEF Starts
    <3>2. actor'[a] = [op |-> op, now |-> clock, todo |-> todo]
      BY <1>1, <3>1, ActorWrites
    <3>3. QED
      BY <3>2
  <2>2. ASSUME Stops(a) PROVE actor'[a].op = "idle"
    BY <1>1, <2>2, ActorWrites DEF Stops
  <2>3. QED
    BY <1>3, <2>1, <2>2 DEF WorkOps, QueueOps
<1>4. ASSUME NEW p \in Proposals, Decides(a, p) \/ Takes(a, p) \/ Sends(a, p)
      PROVE  FALSE
  <2>1. ASSUME Decides(a, p) PROVE actor'[a].op \in QueueOps \cup {"idle"}
    BY <1>1, <2>1, ActorWrites DEF Decides, Doing
  <2>2. ASSUME Takes(a, p) \/ Sends(a, p) PROVE actor'[a].op = "idle"
    BY <1>1, <2>2, ActorWrites DEF Takes, Sends
  <2>3. QED
    BY <1>4, <2>1, <2>2 DEF WorkOps, QueueOps
<1>5. ASSUME NEW p \in Proposals, Begins(a, p)
      PROVE  /\ actor'[a].todo = {p} /\ actor'[a].op \in {"execute", "claim"}
             /\ Kind[p] = (IF actor'[a].op = "claim" THEN "external_action"
                           ELSE "tool_request")
  <2>1. PICK op \in {"execute", "claim"} :
          /\ Kind[p] = (IF op = "claim" THEN "external_action" ELSE "tool_request")
          /\ actor' = [actor EXCEPT ![a] = [op |-> op, now |-> clock, todo |-> {p}]]
    BY <1>5 DEF Begins
  <2>2. actor'[a] = [op |-> op, now |-> clock, todo |-> {p}]
    BY <1>1, <2>1, ActorWrites
  <2>3. QED
    BY <2>1, <2>2
<1>6. ASSUME NEW p \in Proposals, ClaimsCall(a, p)
      PROVE  actor'[a].op = "reserve" /\ actor'[a].todo = actor[a].todo
  BY <1>1, <1>6, ActorWrites DEF ClaimsCall
<1>7. ASSUME NEW p \in Proposals, Reserves(a, p)
      PROVE  actor'[a].op = "fetch" /\ actor'[a].todo = actor[a].todo
  BY <1>1, <1>7, ActorWrites DEF Reserves
<1>8. QED
  BY <1>2, <1>3, <1>4, <1>5, <1>6, <1>7 DEF ActorStep

\* A process past the claim was past it before, or has just made it.
LEMMA RunGoesOn ==
  ASSUME PermitsTyped, GrantsKnown, [Next]_vars, NEW a \in Actors,
         NEW p \in Proposals, Doing(a, RunOps, p)'
  PROVE  \/ actor'[a] = actor[a] /\ Doing(a, RunOps, p)
         \/ Reserves(a, p) /\ actor'[a].op = "fetch"
         \/ ClaimsCall(a, p) /\ actor'[a].op = "reserve"
<1>1. actor'[a].op \in RunOps /\ p \in actor'[a].todo
  BY DEF Doing
<1>2. actor'[a].op \in WorkOps
  BY <1>1 DEF RunOps, WorkOps
<1>3. CASE actor'[a] = actor[a]
  BY <1>1, <1>3 DEF Doing
<1>4. ASSUME NEW q \in Proposals, Begins(a, q), actor'[a].op \in {"execute", "claim"}
      PROVE  FALSE
  BY <1>1, <1>4 DEF RunOps
<1>5. ASSUME NEW q \in Proposals, ClaimsCall(a, q) \/ Reserves(a, q),
             actor'[a].todo = actor[a].todo
      PROVE  p = q
  <2>1. actor[a].op \in WorkOps /\ q \in actor[a].todo
    BY <1>5 DEF ClaimsCall, Reserves, Doing, WorkOps
  <2>2. QED
    BY <1>1, <1>5, <2>1 DEF GrantsKnown
<1>6. QED
  BY <1>2, <1>3, <1>4, <1>5, WorkGoesOn

\* Only a process that is past the claim of p, and leaves it, sends on p.
LEMMA SendingEnds ==
  ASSUME PermitsTyped, [Next]_vars, NEW p \in Proposals, sent'[p] # sent[p]
  PROVE  \E a \in Actors : /\ Sends(a, p) /\ actor'[a].op = "idle"
                           /\ sent'[p] = sent[p] + 1
<1>1. ASSUME Rests \/ (\E q \in Proposals : Queues(q))
               \/ (\E a \in Actors : Starts(a) \/ Stops(a))
      PROVE  FALSE
  BY <1>1 DEF Rests, Queues, Starts, Stops
<1>2. PICK a \in Actors, q \in Proposals : ActorStep(a, q)
  BY <1>1, StepKinds
<1>3. Sends(a, q)
  BY <1>2 DEF ActorStep, Decides, Begins, ClaimsCall, Takes, Reserves
<1>4. sent' = [sent EXCEPT ![q] = sent[q] + 1]
  BY <1>3 DEF Sends, Send
<1>5. q = p /\ sent'[p] = sent[p] + 1
  BY <1>4 DEF PermitsTyped
<1>6. actor'[a].op = "idle"
  BY <1>3, ActorWrites DEF Sends, PermitsTyped
<1>7. QED
  BY <1>3, <1>5, <1>6

\* What is known of grants, and of the processes that use them, stays known.
LEMMA GrantsStayKnown ==
  ASSUME PermitsTyped, GrantsKnown, [Next]_vars
  PROVE  GrantsKnown'
<1>1. ASSUME NEW p \in Proposals
      PROVE  /\ "issued" \in grant'[p] => request'[p].status = "approved"
             /\ "consumed" \in grant'[p] => "issued" \in grant'[p]
  BY GrantsStand
<1>2. ASSUME NEW a \in Actors, actor'[a].op \in WorkOps,
             NEW p \in actor'[a].todo, NEW q \in actor'[a].todo
      PROVE  p = q
  <2>1. CASE actor'[a] = actor[a]
    BY <1>2, <2>1 DEF GrantsKnown
  <2>2. ASSUME NEW r \in Proposals, ClaimsCall(a, r) \/ Reserves(a, r),
               actor'[a].todo = actor[a].todo
        PROVE  p = q
    <3>1. actor[a].op \in WorkOps
      BY <2>2 DEF ClaimsCall, Reserves, Doing, WorkOps
    <3>2. QED
      BY <1>2, <2>2, <3>1 DEF GrantsKnown
  <2>3. QED
    BY <1>2, <2>1, <2>2, WorkGoesOn
<1>3. ASSUME NEW a \in Actors, NEW p \in Proposals, actor'[a].op \in WorkOps,
             p \in actor'[a].todo
      PROVE  /\ "issued" \in grant'[p]
             /\ Kind[p] = IF actor'[a].op = "claim" THEN "external_action"
                          ELSE "tool_request"
  <2>1. CASE actor'[a] = actor[a]
    <3>1. Doing(a, WorkOps, p)
      BY <1>3, <2>1 DEF Doing
    <3>2. /\ "issued" \in grant[p]
          /\ Kind[p] = IF actor[a].op = "claim" THEN "external_action"
                       ELSE "tool_request"
      BY <3>1 DEF GrantsKnown
    <3>3. QED
      BY <2>1, <3>2, GrantsStand
  <2>2. ASSUME NEW r \in Proposals, Begins(a, r), actor'[a].todo = {r},
               Kind[r] = (IF actor'[a].op = "claim" THEN "external_action"
                          ELSE "tool_request")
        PROVE  /\ "issued" \in grant'[p]
               /\ Kind[p] = IF actor'[a].op = "claim" THEN "external_action"
                            ELSE "tool_request"
    <3>1. "issued" \in grant[r] /\ p = r
      BY <1>3, <2>2 DEF Begins
    <3>2. QED
      BY <2>2, <3>1, GrantsStand
  <2>3. ASSUME NEW r \in Proposals, ClaimsCall(a, r) \/ Reserves(a, r),
               actor'[a].todo = actor[a].todo, actor'[a].op \in RunOps
        PROVE  /\ "issued" \in grant'[p]
               /\ Kind[p] = IF actor'[a].op = "claim" THEN "external_action"
                            ELSE "tool_request"
    <3>1. Doing(a, WorkOps, p) /\ actor[a].op # "claim"
      BY <1>3, <2>3 DEF ClaimsCall, Reserves, Doing, WorkOps
    <3>2. "issued" \in grant[p] /\ Kind[p] = "tool_request"
      BY <3>1 DEF GrantsKnown
    <3>3. QED
      BY <2>3, <3>2, GrantsStand DEF RunOps
  <2>4. QED
    BY <1>3, <2>1, <2>2, <2>3, WorkGoesOn DEF RunOps
<1>4. QED
  BY <1>1, <1>2, <1>3 DEF GrantsKnown, Doing

\* No step lets a second process past a claim, or sends on an unclaimed grant.
LEMMA RunsStayKnown ==
  ASSUME PermitsTyped, GrantsKnown, RunsKnown, [Next]_vars
  PROVE  RunsKnown'
<1>1. ASSUME NEW a \in Actors, NEW p \in Proposals, Doing(a, RunOps, p)'
      PROVE  "consumed" \in grant'[p] /\ sent'[p] = 0
  <2>1. CASE Doing(a, RunOps, p)
    <3>1. "consumed" \in grant[p] /\ sent[p] = 0
      BY <2>1 DEF RunsKnown
    <3>2. ASSUME sent'[p] # sent[p] PROVE FALSE
      <4>1. PICK b \in Actors : Sends(b, p) /\ actor'[b].op = "idle"
        BY <3>2, SendingEnds
      <4>2. Doing(b, RunOps, p)
        BY <4>1 DEF Sends, Doing, RunOps
      <4>3. a = b
        BY <2>1, <4>2 DEF RunsKnown
      <4>4. QED
        BY <1>1, <4>1, <4>3 DEF Doing, RunOps
    <3>3. QED
      BY <3>1, <3>2, GrantsStand
  <2>2. CASE ClaimsCall(a, p)
    <3>1. sent[p] = 0 /\ sent' = sent
      BY <2>2 DEF ClaimsCall, RunsKnown
    <3>2. "consumed" \in grant'[p]
      BY <2>2 DEF ClaimsCall, Consume, PermitsTyped, GrantTable
    <3>3. QED
      BY <3>1, <3>2
  <2>3. CASE Reserves(a, p)
    <3>1. Doing(a, RunOps, p)
      BY <2>3 DEF Reserves, Doing, RunOps
    <3>2. QED
      BY <2>1, <3>1
  <2>4. QED
    BY <1>1, <2>1, <2>2, <2>3, RunGoesOn
<1>2. ASSUME NEW a \in Actors, NEW b \in Actors, NEW p \in Proposals,
             Doing(a, RunOps, p)', Doing(b, RunOps, p)'
      PROVE  a = b
  <2>1. ASSUME NEW c \in Actors, Doing(c, RunOps, p)'
        PROVE  Doing(c, RunOps, p) \/ ClaimsCall(c, p)
    <3>1. ASSUME Reserves(c, p) PROVE Doing(c, RunOps, p)
      BY <3>1 DEF Reserves, Doing, RunOps
    <3>2. QED
      BY <2>1, <3>1, RunGoesOn
  <2>2. ASSUME NEW c \in Actors, NEW e \in Actors, ClaimsCall(c, p)
        PROVE  ~Doing(e, RunOps, p)
    BY <2>2 DEF ClaimsCall, RunsKnown
  <2>3. ASSUME ClaimsCall(a, p), ClaimsCall(b, p), a # b PROVE FALSE
    <3>1. actor'[b] = actor[b]
      BY <2>3, ActorWrites DEF ClaimsCall, PermitsTyped
    <3>2. actor'[b].op = "reserve"
      BY <2>3, ActorWrites DEF ClaimsCall, PermitsTyped
    <3>3. QED
      BY <2>3, <3>1, <3>2 DEF ClaimsCall, Doing
  <2>4. QED
    BY <1>2, <2>1, <2>2, <2>3 DEF RunsKnown
<1>3. ASSUME NEW p \in Proposals, sent'[p] # 0 PROVE "consumed" \in grant'[p]
  <2>1. CASE sent'[p] = sent[p]
    BY <1>3, <2>1, GrantsStand DEF RunsKnown
  <2>2. CASE sent'[p] # sent[p]
    <3>1. PICK a \in Actors : Sends(a, p)
      BY <2>2, SendingEnds
    <3>2. Doing(a, RunOps, p)
      BY <3>1 DEF Sends, Doing, RunOps
    <3>3. QED
      BY <3>2, GrantsStand DEF RunsKnown
  <2>3. QED
    BY <2>1, <2>2
<1>4. QED
  BY <1>1, <1>2, <1>3 DEF RunsKnown

\* The permit of one proposal.
LEMMA PermitIs ==
  ASSUME NEW p \in Proposals
  PROVE  /\ request[p].status = "absent" => Permit[p] = "unasked"
         /\ request[p].status = "pending" => Permit[p] = "asked"
         /\ request[p].status \in {"rejected", "expired"} => Permit[p] = "refused"
         /\ request[p].status = "approved" /\ "consumed" \notin grant[p] =>
              Permit[p] = "granted"
         /\ request[p].status = "approved" /\ "consumed" \in grant[p] =>
              Permit[p] = "used"
  BY DEF Permit

\* A backlog was asked for and granted; nothing else was.
LEMMA PermitsBegin == Init => Permits!Init
<1> SUFFICES ASSUME Init PROVE Permits!Init
  OBVIOUS
<1>1. /\ request = [p \in Proposals |-> IF p \in proposed THEN FirstRequest(p)
                                        ELSE NoRequest]
      /\ grant = [p \in Proposals |-> IF p \in proposed THEN {"issued"} ELSE {}]
      /\ sent = [p \in Proposals |-> 0]
  BY DEF Init, ApprovalInit
<1>2. ASSUME NEW p \in Proposals PROVE Permit[p] \in {"unasked", "granted"}
  <2>1. p \in proposed => request[p].status = "approved" /\ grant[p] = {"issued"}
    BY <1>1 DEF FirstRequest, NoRequest
  <2>2. p \notin proposed => request[p].status = "absent"
    BY <1>1 DEF NoRequest
  <2>3. QED
    BY <2>1, <2>2, PermitIs
<1>3. Permit \in [Proposals -> {"unasked", "granted"}]
  BY <1>2 DEF Permit
<1>4. QED
  BY <1>1, <1>3 DEF Permits!Init

\* What the move of a grant does to its permit.
LEMMA PermitMoves ==
  ASSUME PermitsTyped, GrantsKnown, NEW p \in Proposals, GrantMoves(p)
  PROVE  \/ Permit'[p] = Permit[p]
         \/ Permit[p] = "unasked" /\ Permit'[p] = "asked"
         \/ Permit[p] = "asked" /\ Permit'[p] \in {"granted", "refused"}
         \/ Permit[p] = "granted" /\ Permit'[p] = "used"
<1>1. /\ Permit[p] = CASE request[p].status = "absent" -> "unasked"
       [] request[p].status = "pending" -> "asked"
       [] request[p].status \in {"rejected", "expired"} -> "refused"
       [] request[p].status = "approved" /\ "consumed" \notin grant[p] -> "granted"
       [] OTHER -> "used"
      /\ Permit'[p] = CASE request'[p].status = "absent" -> "unasked"
       [] request'[p].status = "pending" -> "asked"
       [] request'[p].status \in {"rejected", "expired"} -> "refused"
       [] request'[p].status = "approved" /\ "consumed" \notin grant'[p] -> "granted"
       [] OTHER -> "used"
  BY DEF Permit
<1>2. CASE GrantStays(p)
  BY <1>1, <1>2 DEF GrantStays
<1>3. CASE GrantQueued(p)
  BY <1>1, <1>3 DEF GrantQueued
<1>4. CASE GrantIssued(p)
  BY <1>1, <1>4 DEF GrantIssued
<1>5. CASE GrantRefused(p)
  BY <1>1, <1>5 DEF GrantRefused
<1>6. CASE GrantLapsed(p)
  <2>1. "consumed" \notin grant[p] /\ "consumed" \notin grant'[p]
        /\ request'[p].status = request[p].status
    BY <1>6 DEF GrantLapsed
  <2>2. QED
    BY <1>1, <2>1
<1>7. CASE GrantConsumed(p)
  <2>1. /\ request[p].status = "approved" /\ request'[p].status = "approved"
        /\ "consumed" \notin grant[p] /\ "consumed" \in grant'[p]
    BY <1>7 DEF GrantConsumed, GrantsKnown
  <2>2. QED
    BY <1>1, <2>1
<1>8. QED
  BY <1>2, <1>3, <1>4, <1>5, <1>6, <1>7 DEF GrantMoves

\* Every step is a step of the permits, or none of them.
LEMMA PermitsStep ==
  ASSUME PermitsTyped, GrantsKnown, RunsKnown, [Next]_vars
  PROVE  [Permits!Next]_<<Permit, sent>>
<1>1. ASSUME NEW q \in Proposals, GrantStays(q) PROVE Permit'[q] = Permit[q]
  BY <1>1 DEF Permit, GrantStays
<1>2. DOMAIN Permit = Proposals /\ DOMAIN Permit' = Proposals
      /\ Permit = [q \in Proposals |-> Permit[q]]
      /\ Permit' = [q \in Proposals |-> Permit'[q]]
  BY DEF Permit
<1>3. CASE \A q \in Proposals : GrantStays(q)
  <2>1. Permit' = Permit
    <3>1. \A q \in Proposals : Permit'[q] = Permit[q]
      BY <1>1, <1>3
    <3> HIDE DEF Permit
    <3>2. QED
      BY <1>2, <3>1
  <2>2. ASSUME sent' # sent PROVE \E p \in Proposals : Permits!Act(p)
    <3>1. PICK a \in Actors, p \in Proposals : Sends(a, p)
      <4>1. ASSUME Rests \/ (\E q \in Proposals : Queues(q))
                   \/ (\E a \in Actors : Starts(a) \/ Stops(a))
            PROVE  FALSE
        BY <2>2, <4>1 DEF Rests, Queues, Starts, Stops
      <4>2. PICK a \in Actors, q \in Proposals : ActorStep(a, q)
        BY <4>1, StepKinds
      <4>3. QED
        BY <2>2, <4>2 DEF ActorStep, Decides, Begins, ClaimsCall, Takes, Reserves
    <3>2. sent[p] = 0 /\ "consumed" \in grant[p]
      BY <3>1 DEF Sends, Doing, RunOps, RunsKnown
    <3>3. request[p].status = "approved"
      BY <3>2 DEF GrantsKnown
    <3>4. Permit[p] = "used"
      BY <3>2, <3>3, PermitIs
    <3>5. sent' = [sent EXCEPT ![p] = 1]
      BY <3>1, <3>2 DEF Sends, Send
    <3>6. QED
      BY <2>1, <3>2, <3>4, <3>5 DEF Permits!Act
  <2>3. QED
    BY <2>1, <2>2 DEF Permits!Next
<1>4. ASSUME NEW p \in Proposals, GrantMoves(p), UNCHANGED sent,
             \A q \in Proposals \ {p} : GrantStays(q)
      PROVE  [Permits!Next]_<<Permit, sent>>
  <2>1. Permit' = [Permit EXCEPT ![p] = Permit'[p]]
    <3>1. \A q \in Proposals \ {p} : Permit'[q] = Permit[q]
      BY <1>1, <1>4
    <3> HIDE DEF Permit
    <3>2. QED
      BY <1>2, <3>1
  <2>2. CASE Permit'[p] = Permit[p]
    <3>1. Permit' = Permit
      <4> HIDE DEF Permit
      <4>1. QED
        BY <1>2, <2>1, <2>2
    <3>2. QED
      BY <1>4, <3>1
  <2>3. ASSUME NEW to, Permit'[p] = to
        PROVE  Permits!Move(p, Permit[p], to)
    BY <1>4, <2>1, <2>3 DEF Permits!Move
  <2>4. CASE Permit'[p] # Permit[p]
    <3>1. Permits!Ask(p) \/ Permits!Grant(p) \/ Permits!Refuse(p) \/ Permits!Use(p)
      BY <1>4, <2>3, <2>4, PermitMoves
      DEF Permits!Ask, Permits!Grant, Permits!Refuse, Permits!Use
    <3>2. QED
      BY <3>1 DEF Permits!Next
  <2>5. QED
    BY <2>2, <2>4
<1>5. QED
  BY <1>3, <1>4, OneGrantMoves

-----------------------------------------------------------------------------
(* The work done on a grant, and its account. *)

\* No process gets past the claim of p, or further, in this step.
NoNewRuns(p) ==
  \A b \in Actors : Doing(b, RunOps, p)' => actor'[b] = actor[b]

\* A process that leaves takes up nothing,
LEMMA LeavingRuns ==
  ASSUME PermitsTyped, NEW a \in Actors, Raise(a), NEW p PROVE NoNewRuns(p)
<1>1. actor'[a].op = "idle" /\ \A b \in Actors \ {a} : actor'[b] = actor[b]
  BY ActorWrites DEF PermitsTyped
<1>2. QED
  BY <1>1 DEF NoNewRuns, Doing, RunOps

\* nor does the queue,
LEMMA QueueRuns ==
  ASSUME PermitsTyped, ApprovalNext, UNCHANGED workVars, NEW p
  PROVE  NoNewRuns(p)
<1>1. ASSUME Rests \/ \E q \in Proposals : Queues(q) PROVE NoNewRuns(p)
  BY <1>1 DEF Rests, Queues, NoNewRuns
<1>2. ASSUME NEW a \in Actors, Starts(a) PROVE NoNewRuns(p)
  <2>1. PICK op \in QueueOps, todo \in SUBSET Proposals :
          actor' = [actor EXCEPT ![a] = [op |-> op, now |-> clock, todo |-> todo]]
    BY <1>2 DEF Starts
  <2>2. /\ actor'[a] = [op |-> op, now |-> clock, todo |-> todo]
        /\ \A b \in Actors \ {a} : actor'[b] = actor[b]
    BY <2>1, ActorWrites DEF PermitsTyped
  <2>3. actor'[a].op \in QueueOps
    BY <2>2
  <2>4. QED
    BY <2>2, <2>3 DEF NoNewRuns, Doing, RunOps, QueueOps
<1>3. ASSUME NEW a \in Actors, Stops(a) PROVE NoNewRuns(p)
  BY <1>3, LeavingRuns DEF Stops
<1>4. ASSUME NEW a \in Actors, NEW q \in Proposals, Decides(a, q)
      PROVE  NoNewRuns(p)
  <2>1. /\ actor'[a].op \in QueueOps \cup {"idle"}
        /\ \A b \in Actors \ {a} : actor'[b] = actor[b]
    BY <1>4, ActorWrites DEF Decides, Doing, PermitsTyped
  <2>2. QED
    BY <2>1 DEF NoNewRuns, Doing, RunOps, QueueOps
<1>5. QED
  BY <1>1, <1>2, <1>3, <1>4, QueueKinds

\* nor a process that has yet to claim;
LEMMA BeginningRuns ==
  ASSUME PermitsTyped, NEW a \in Actors, NEW op \in {"execute", "claim"},
         NEW todo, Begin(a, op, todo), NEW p
  PROVE  NoNewRuns(p)
<1>1. /\ actor'[a] = [op |-> op, now |-> clock, todo |-> todo]
      /\ \A b \in Actors \ {a} : actor'[b] = actor[b]
  BY ActorWrites DEF Begin, PermitsTyped
<1>2. actor'[a].op = op
  BY <1>1
<1>3. QED
  BY <1>1, <1>2 DEF NoNewRuns, Doing, RunOps

\* and one that goes on does so with one proposal.
LEMMA GoingRuns ==
  ASSUME PermitsTyped, GrantsKnown, NEW a \in Actors, NEW p \in Proposals,
         Doing(a, WorkOps, p), NEW op, GoTo(a, op)
  PROVE  /\ \A q \in Proposals \ {p} : NoNewRuns(q)
         /\ actor'[a].op = op
         /\ \A b \in Actors \ {a} : actor'[b] = actor[b]
<1>1. /\ actor'[a].op = op /\ actor'[a].todo = actor[a].todo
      /\ \A b \in Actors \ {a} : actor'[b] = actor[b]
  BY ActorWrites DEF PermitsTyped
<1>2. \A q \in Proposals \ {p} : q \notin actor'[a].todo
  BY <1>1 DEF GrantsKnown, Doing
<1>3. QED
  BY <1>1, <1>2 DEF NoNewRuns, Doing

\* When the process that is past the claim of p leaves, none is past it.
LEMMA LeavingAlone ==
  ASSUME PermitsTyped, RunsKnown, NEW a \in Actors, NEW p \in Proposals,
         Doing(a, RunOps, p), Raise(a)
  PROVE  \A b \in Actors : ~Doing(b, RunOps, p)'
<1>1. actor'[a].op = "idle" /\ \A b \in Actors \ {a} : actor'[b] = actor[b]
  BY ActorWrites DEF PermitsTyped
<1>2. ASSUME NEW b \in Actors, Doing(b, RunOps, p)' PROVE FALSE
  <2>1. b # a
    BY <1>1, <1>2 DEF Doing, RunOps
  <2>2. Doing(b, RunOps, p)
    BY <1>1, <1>2, <2>1 DEF Doing
  <2>3. QED
    BY <2>1, <2>2 DEF RunsKnown
<1>3. QED
  BY <1>2

\* A step that touches neither the work on p nor its account.
LEMMA WorkStays ==
  ASSUME NEW p \in Proposals, WorkKnown(p), SameRow(db, db', p),
         call'[p] = call[p], action'[p] = action[p], sent'[p] = sent[p],
         "consumed" \in grant[p] => "consumed" \in grant'[p],
         NoNewRuns(p)
  PROVE  WorkKnown(p)'
<1>1. \A n : HoldsAll(db, p, n) = HoldsAll(db', p, n)
  BY DEF SameRow, HoldsAll
<1>2. \A n : ClosedAt(db, p, n) = ClosedAt(db', p, n)
  BY DEF SameRow, ClosedAt
<1>3. db'.status[p] = db.status[p] /\ db'.paid[p] = db.paid[p]
  BY DEF SameRow
<1>4. ASSUME NEW a \in Actors
      PROVE  /\ Doing(a, {"reserve"}, p)' => Doing(a, {"reserve"}, p)
             /\ Doing(a, {"fetch"}, p)' => Doing(a, {"fetch"}, p)
  BY DEF NoNewRuns, Doing, RunOps
<1>5. QED
  BY <1>1, <1>2, <1>3, <1>4 DEF WorkKnown

\* The invariant of the work and its account.
WorkInv ==
  /\ PermitsTyped /\ Kernel!Sound(db)
  /\ call \in CallTable /\ action \in ActionTable
  /\ GrantsKnown /\ RunsKnown
  /\ \A p \in Proposals : WorkKnown(p)

AccountsKept == Kernel!Sound(db)' /\ \A q \in Proposals : WorkKnown(q)'

\* A call on p, or its reservation, is at most the business of p.
LEMMA OthersStay ==
  ASSUME WorkInv, [Next]_vars, NEW p \in Proposals, OthersKept(db, db', p),
         \A q \in Proposals \ {p} : /\ call'[q] = call[q] /\ sent'[q] = sent[q]
                                    /\ action'[q] = action[q] /\ NoNewRuns(q)
  PROVE  \A q \in Proposals \ {p} : WorkKnown(q)'
<1> SUFFICES ASSUME NEW q \in Proposals \ {p} PROVE WorkKnown(q)'
  OBVIOUS
<1>1. "consumed" \in grant[q] => "consumed" \in grant'[q]
  BY GrantsStand DEF WorkInv
<1>2. SameRow(db, db', q)
  BY DEF OthersKept
<1>3. QED
  BY <1>1, <1>2, WorkStays DEF WorkInv

\* A tool request is no action, an action no tool request.
LEMMA KindsApart ==
  ASSUME NEW p \in Proposals, WorkKnown(p)
  PROVE  /\ Kind[p] = "tool_request" => action[p].status = "none"
         /\ Kind[p] = "external_action" => call[p] = "none"
  BY DEF WorkKnown

\* Claiming a call's grant leaves its account as it should be: nothing held yet.
LEMMA ClaimCallKnown ==
  ASSUME WorkInv, [Next]_vars, NEW a \in Actors, NEW p \in Proposals, ClaimCall(a, p)
  PROVE  AccountsKept
<1>1. /\ Doing(a, {"execute"}, p) /\ "consumed" \notin grant[p]
      /\ Consume(p) /\ GoTo(a, "reserve") /\ call' = [call EXCEPT ![p] = "requested"]
      /\ db' = db /\ sent' = sent /\ action' = action
  BY DEF ClaimCall, MayFetch, MayUse, world
<1>2. Doing(a, WorkOps, p) /\ Kind[p] = "tool_request"
  <2>1. Doing(a, WorkOps, p)
    BY <1>1 DEF Doing, WorkOps
  <2>2. QED
    BY <1>1, <2>1 DEF WorkInv, GrantsKnown, Doing
<1>3. call[p] = "none" /\ action[p].status = "none" /\ db.status[p] = "absent"
  BY <1>1, <1>2 DEF WorkInv, WorkKnown
<1>4. /\ \A q \in Proposals \ {p} : NoNewRuns(q)
      /\ actor'[a].op = "reserve"
      /\ \A b \in Actors \ {a} : actor'[b] = actor[b]
  BY <1>1, <1>2, GoingRuns DEF WorkInv
<1>5. OthersKept(db, db', p)
  BY <1>1 DEF OthersKept, SameRow
<1>6. \A q \in Proposals \ {p} : call'[q] = call[q]
  BY <1>1 DEF WorkInv, CallTable
<1>7. \A q \in Proposals \ {p} : WorkKnown(q)'
  BY <1>1, <1>4, <1>5, <1>6, OthersStay
<1>8. call'[p] = "requested" /\ "consumed" \in grant'[p]
  BY <1>1 DEF WorkInv, CallTable, PermitsTyped, GrantTable, Consume
<1>9. ASSUME NEW b \in Actors PROVE ~Doing(b, {"fetch"}, p)'
  <2>1. CASE b = a
    BY <1>4, <2>1 DEF Doing
  <2>2. CASE b # a
    <3>1. ASSUME Doing(b, RunOps, p) PROVE FALSE
      BY <1>1, <3>1 DEF WorkInv, RunsKnown
    <3>2. QED
      BY <1>4, <2>2, <3>1 DEF Doing, RunOps
  <2>3. QED
    BY <2>1, <2>2
<1>10. WorkKnown(p)'
  BY <1>1, <1>2, <1>3, <1>8, <1>9 DEF WorkKnown
<1>11. QED
  BY <1>1, <1>7, <1>10 DEF WorkInv, AccountsKept

\* So does the reservation, whether it is granted or not,
LEMMA ReserveCallKnown ==
  ASSUME WorkInv, [Next]_vars, NEW a \in Actors, NEW p \in Proposals, ReserveCall(a, p)
  PROVE  AccountsKept
<1>1. /\ Doing(a, {"reserve"}, p) /\ UNCHANGED <<grant, sent, action>>
  BY DEF ReserveCall, world, queueVars
<1>2. Doing(a, WorkOps, p) /\ Doing(a, RunOps, p)
  BY <1>1 DEF Doing, WorkOps, RunOps
<1>3. /\ call[p] = "requested" /\ db.status[p] = "absent"
      /\ Kind[p] = "tool_request" /\ action[p].status = "none"
      /\ "consumed" \in grant[p] /\ sent[p] = 0
  BY <1>1, <1>2 DEF WorkInv, WorkKnown, RunsKnown
<1>4. CASE Core!MayRequest(db, p, CallCost)
  <2>1. db' = Core!Request(db, p, CallCost) /\ GoTo(a, "fetch") /\ call' = call
    BY <1>4 DEF ReserveCall
  <2>2. CallCost \in Nat
    BY GrantedWorkAssumption
  <2>3. /\ Kernel!Sound(db') /\ OthersKept(db, db', p)
        /\ HoldsAll(db', p, CallCost)
    BY <1>4, <2>1, <2>2, RequestHolds DEF WorkInv
  <2>4. /\ \A q \in Proposals \ {p} : NoNewRuns(q)
        /\ actor'[a].op = "fetch"
        /\ \A b \in Actors \ {a} : actor'[b] = actor[b]
    BY <1>2, <2>1, GoingRuns DEF WorkInv
  <2>5. \A q \in Proposals \ {p} : WorkKnown(q)'
    BY <1>1, <2>1, <2>3, <2>4, OthersStay
  <2>6. ASSUME NEW b \in Actors PROVE ~Doing(b, {"reserve"}, p)'
    <3>1. CASE b = a
      BY <2>4, <3>1 DEF Doing
    <3>2. CASE b # a
      <4>1. ASSUME Doing(b, RunOps, p) PROVE FALSE
        BY <1>2, <3>2, <4>1 DEF WorkInv, RunsKnown
      <4>2. QED
        BY <2>4, <3>2, <4>1 DEF Doing, RunOps
    <3>3. QED
      BY <3>1, <3>2
  <2>7. WorkKnown(p)'
    BY <1>1, <1>3, <2>1, <2>3, <2>6 DEF WorkKnown
  <2>8. QED
    BY <2>3, <2>5, <2>7 DEF AccountsKept
<1>5. CASE ~Core!MayRequest(db, p, CallCost)
  <2>1. db' = db /\ Raise(a) /\ call' = [call EXCEPT ![p] = "failed"]
    BY <1>5 DEF ReserveCall
  <2>2. db.paid[p] = 0
    BY <1>3, SoundColumns, SoundBalances DEF WorkInv
  <2>3. \A q : NoNewRuns(q)
    BY <2>1, LeavingRuns DEF WorkInv
  <2>4. OthersKept(db, db', p) /\ \A q \in Proposals \ {p} : call'[q] = call[q]
    BY <2>1 DEF OthersKept, SameRow, WorkInv, CallTable
  <2>5. \A q \in Proposals \ {p} : WorkKnown(q)'
    BY <1>1, <2>3, <2>4, OthersStay
  <2>6. \A b \in Actors : ~Doing(b, {"reserve"}, p)' /\ ~Doing(b, {"fetch"}, p)'
    BY <1>2, <2>1, LeavingAlone DEF WorkInv, Doing, RunOps
  <2>7. call'[p] = "failed"
    BY <2>1 DEF WorkInv, CallTable
  <2>8. WorkKnown(p)'
    BY <1>1, <1>3, <2>1, <2>2, <2>6, <2>7 DEF WorkKnown
  <2>9. QED
    BY <2>1, <2>5, <2>8 DEF WorkInv, AccountsKept
<1>6. QED
  BY <1>4, <1>5

\* the refusal of a host, which closes the hold,
LEMMA FetchRefusedKnown ==
  ASSUME WorkInv, [Next]_vars, NEW a \in Actors, NEW p \in Proposals,
         FetchRefused(a, p)
  PROVE  AccountsKept
<1>1. /\ Doing(a, {"fetch"}, p) /\ Core!MayRelease(db, p)
      /\ db' = Core!Release(db, p) /\ Raise(a)
      /\ call' = [call EXCEPT ![p] = "failed"]
      /\ UNCHANGED <<grant, sent, action>>
  BY DEF FetchRefused, world, queueVars
<1>2. Doing(a, RunOps, p)
  BY <1>1 DEF Doing, RunOps
<1>3. /\ call[p] = "requested" /\ HoldsAll(db, p, CallCost)
      /\ Kind[p] = "tool_request" /\ action[p].status = "none"
      /\ "consumed" \in grant[p] /\ sent[p] = 0
  BY <1>1, <1>2 DEF WorkInv, WorkKnown, RunsKnown
<1>4. /\ Kernel!Sound(db') /\ OthersKept(db, db', p)
      /\ db'.status[p] = "released" /\ db'.paid[p] = 0
  BY <1>1, <1>3, ReleaseCloses DEF WorkInv
<1>5. \A q : NoNewRuns(q)
  BY <1>1, LeavingRuns DEF WorkInv
<1>6. call'[p] = "failed" /\ \A q \in Proposals \ {p} : call'[q] = call[q]
  BY <1>1 DEF WorkInv, CallTable
<1>7. \A q \in Proposals \ {p} : WorkKnown(q)'
  BY <1>1, <1>4, <1>5, <1>6, OthersStay
<1>8. \A b \in Actors : ~Doing(b, {"reserve"}, p)' /\ ~Doing(b, {"fetch"}, p)'
  BY <1>1, <1>2, LeavingAlone DEF WorkInv, Doing, RunOps
<1>9. WorkKnown(p)'
  BY <1>1, <1>3, <1>4, <1>6, <1>8 DEF WorkKnown
<1>10. QED
  BY <1>4, <1>7, <1>9 DEF AccountsKept

\* and the fetch itself, answered, unclear or cut short.
LEMMA FetchSendsKnown ==
  ASSUME WorkInv, [Next]_vars, NEW a \in Actors, NEW p \in Proposals,
         FetchUnclear(a, p) \/ FetchAnswered(a, p) \/ CrashInFetch(a, p)
  PROVE  AccountsKept
<1>1. /\ Doing(a, {"fetch"}, p) /\ Raise(a) /\ Send(p)
      /\ UNCHANGED <<grant, action>>
  BY DEF FetchUnclear, FetchAnswered, CrashInFetch, world, queueVars
<1>2. Doing(a, RunOps, p)
  BY <1>1 DEF Doing, RunOps
<1>3. /\ call[p] = "requested" /\ HoldsAll(db, p, CallCost)
      /\ Kind[p] = "tool_request" /\ action[p].status = "none"
      /\ "consumed" \in grant[p] /\ sent[p] = 0
  BY <1>1, <1>2 DEF WorkInv, WorkKnown, RunsKnown
<1>4. sent'[p] = 1 /\ \A q \in Proposals \ {p} : sent'[q] = sent[q]
  BY <1>1, <1>3 DEF Send, WorkInv, PermitsTyped
<1>5. \A q : NoNewRuns(q)
  BY <1>1, LeavingRuns DEF WorkInv
<1>6. \A b \in Actors : ~Doing(b, {"reserve"}, p)' /\ ~Doing(b, {"fetch"}, p)'
  BY <1>1, <1>2, LeavingAlone DEF WorkInv, Doing, RunOps
<1>7. \/ /\ call' = [call EXCEPT ![p] = "succeeded"]
         /\ Core!MayRecordUsage(db, p, CallCost)
         /\ db' = Core!Settle(Core!RecordUsage(db, p, CallCost), p, CallCost)
      \/ call' \in {call, [call EXCEPT ![p] = "unknown"]} /\ db' = db
  BY DEF FetchUnclear, FetchAnswered, CrashInFetch, MayFinish
<1>8. \A q \in Proposals \ {p} : call'[q] = call[q]
  BY <1>7 DEF WorkInv, CallTable
<1>9. /\ Kernel!Sound(db') /\ OthersKept(db, db', p)
      /\ \/ /\ call'[p] = "succeeded"
            /\ db'.status[p] = "settled" /\ db'.paid[p] = CallCost
         \/ call'[p] \in {"requested", "unknown"} /\ HoldsAll(db', p, CallCost)
  <2>1. CASE db' = db
    <3>1. OthersKept(db, db', p) /\ HoldsAll(db', p, CallCost)
      BY <1>3, <2>1 DEF OthersKept, SameRow
    <3>2. CASE call' = [call EXCEPT ![p] = "succeeded"]
               /\ db' = Core!Settle(Core!RecordUsage(db, p, CallCost), p, CallCost)
               /\ Core!MayRecordUsage(db, p, CallCost)
      <4>1. call'[p] = "succeeded"
        BY <3>2 DEF WorkInv, CallTable
      <4>2. LET e == Core!Settle(Core!RecordUsage(db, p, CallCost), p, CallCost)
            IN  /\ Kernel!Sound(e) /\ OthersKept(db, e, p)
                /\ e.status[p] = "settled" /\ e.paid[p] = CallCost
        BY <1>3, <3>2, CallIsPaid DEF WorkInv
      <4>3. QED
        BY <3>2, <4>1, <4>2
    <3>3. CASE call' \in {call, [call EXCEPT ![p] = "unknown"]}
      <4>1. call'[p] \in {"requested", "unknown"}
        BY <1>3, <3>3 DEF WorkInv, CallTable
      <4>2. QED
        BY <2>1, <3>1, <4>1 DEF WorkInv
    <3>4. QED
      BY <1>7, <3>2, <3>3
  <2>2. CASE db' # db
    <3>1. /\ call' = [call EXCEPT ![p] = "succeeded"]
          /\ Core!MayRecordUsage(db, p, CallCost)
          /\ db' = Core!Settle(Core!RecordUsage(db, p, CallCost), p, CallCost)
      BY <1>7, <2>2
    <3>2. call'[p] = "succeeded"
      BY <3>1 DEF WorkInv, CallTable
    <3>3. LET e == Core!Settle(Core!RecordUsage(db, p, CallCost), p, CallCost)
          IN  /\ Kernel!Sound(e) /\ OthersKept(db, e, p)
              /\ e.status[p] = "settled" /\ e.paid[p] = CallCost
      BY <1>3, <3>1, CallIsPaid DEF WorkInv
    <3>4. QED
      BY <3>1, <3>2, <3>3
  <2>3. QED
    BY <2>1, <2>2
<1>10. \A q \in Proposals \ {p} : WorkKnown(q)'
  BY <1>1, <1>4, <1>5, <1>8, <1>9, OthersStay
<1>11. WorkKnown(p)'
  BY <1>1, <1>3, <1>4, <1>6, <1>9 DEF WorkKnown
<1>12. QED
  BY <1>9, <1>10, <1>11 DEF AccountsKept

\* The hours an action may be billed.
LEMMA BillableIs ==
  ASSUME NEW p \in Proposals, Kind[p] = "external_action"
  PROVE  /\ Channel[p] \in Channels /\ Billable[Channel[p]] \in Nat
         /\ \A m \in Minutes : BilledMinutes(p, m) \in Nat
  BY ApprovalsAssumption, GrantedWorkAssumption DEF BilledMinutes

\* Writing one action leaves the others.
LEMMA ActionWrites ==
  ASSUME action \in ActionTable, NEW x \in Acts, NEW row,
         action' = [action EXCEPT ![x] = row]
  PROVE  action'[x] = row /\ \A y \in Acts \ {x} : action'[y] = action[y]
  BY DEF ActionTable

\* A claimed action holds what it may be billed.
LEMMA ClaimActionKnown ==
  ASSUME WorkInv, [Next]_vars, NEW a \in Actors, NEW p \in Proposals,
         NEW target \in Targets, ClaimAction(a, p, target)
  PROVE  AccountsKept
<1> DEFINE n == Billable[Channel[p]]
           row == [status |-> "claimed", at |-> Now(a), target |-> target,
                   minutes |-> 0]
<1>1. /\ Doing(a, {"claim"}, p) /\ "consumed" \notin grant[p] /\ Raise(a)
      /\ Core!MayRequest(db, p, n) /\ db' = Core!Request(db, p, n)
      /\ action' = [action EXCEPT ![p] = row]
      /\ UNCHANGED <<call, sent>>
  BY DEF ClaimAction, MayClaim, MayUse
<1>2. Kind[p] = "external_action"
  <2>1. Doing(a, WorkOps, p) /\ actor[a].op = "claim"
    BY <1>1 DEF Doing, WorkOps
  <2>2. QED
    BY <2>1 DEF WorkInv, GrantsKnown
<1>3. n \in Nat
  BY <1>2, BillableIs
<1> HIDE DEF n
<1>4. Kernel!Sound(db') /\ OthersKept(db, db', p) /\ HoldsAll(db', p, n)
  BY <1>1, <1>3, RequestHolds DEF WorkInv
<1>5. call[p] = "none"
  BY <1>2, KindsApart DEF WorkInv
<1>6. action'[p] = row /\ \A q \in Proposals \ {p} : action'[q] = action[q]
  <2> HIDE DEF row
  <2>1. QED
    BY <1>1, ActionWrites DEF WorkInv, Acts
<1>7. \A q : NoNewRuns(q)
  BY <1>1, LeavingRuns DEF WorkInv
<1>8. \A q \in Proposals \ {p} : WorkKnown(q)'
  BY <1>1, <1>4, <1>6, <1>7, OthersStay
<1>9. ASSUME NEW b \in Actors, Doing(b, {"reserve"}, p)' \/ Doing(b, {"fetch"}, p)'
      PROVE  FALSE
  <2>1. Doing(b, RunOps, p)
    BY <1>7, <1>9 DEF NoNewRuns, Doing, RunOps
  <2>2. QED
    BY <1>1, <2>1 DEF WorkInv, RunsKnown
<1>10. WorkKnown(p)'
  BY <1>1, <1>2, <1>4, <1>5, <1>6, <1>9 DEF WorkKnown, n
<1>11. QED
  BY <1>4, <1>8, <1>10 DEF AccountsKept

\* An action that is over has no process at it.
LEMMA ActionsRest ==
  ASSUME NEW p \in Proposals, WorkKnown(p), action[p].status # "none"
  PROVE  /\ Kind[p] = "external_action" /\ call[p] = "none"
         /\ \A b \in Actors : ~Doing(b, {"reserve"}, p) /\ ~Doing(b, {"fetch"}, p)
  BY DEF WorkKnown

\* A completed one has paid for its minutes,
LEMMA CompleteActionKnown ==
  ASSUME WorkInv, [Next]_vars, NEW p \in Proposals, NEW minutes \in Minutes,
         NEW isDamage \in BOOLEAN, CompleteAction(p, minutes, isDamage)
  PROVE  AccountsKept
<1> DEFINE billed == BilledMinutes(p, minutes)
           n == Billable[Channel[p]]
<1>1. /\ action[p].status = "claimed" /\ Core!MayRecordUsage(db, p, billed)
      /\ db' = Core!SettleAndReleaseRemainder(
                 Core!RecordUsage(db, p, billed), p, billed)
      /\ action' = [action EXCEPT ![p].status = "completed", ![p].minutes = minutes]
      /\ UNCHANGED <<grant, actor, call, sent>>
  BY DEF CompleteAction, PayAndRelease
<1>2. /\ Kind[p] = "external_action" /\ call[p] = "none"
      /\ \A b \in Actors : ~Doing(b, {"reserve"}, p) /\ ~Doing(b, {"fetch"}, p)
      /\ HoldsAll(db, p, n)
  BY <1>1, ActionsRest DEF WorkInv, WorkKnown
<1>3. n \in Nat /\ billed \in Nat
  BY <1>2, BillableIs
<1>4. /\ action'[p].status = "completed" /\ action'[p].minutes = minutes
      /\ \A q \in Proposals \ {p} : action'[q] = action[q]
  BY <1>1 DEF WorkInv, ActionTable, ActionRow, Acts
<1>5. billed = BilledMinutes(p, action'[p].minutes)
  BY <1>4
<1> HIDE DEF n, billed
<1>6. Kernel!Sound(db') /\ OthersKept(db, db', p) /\ ClosedAt(db', p, billed)
  BY <1>1, <1>2, <1>3, ActionIsPaid DEF WorkInv
<1>7. \A q : NoNewRuns(q)
  BY <1>1 DEF NoNewRuns
<1>8. \A q \in Proposals \ {p} : WorkKnown(q)'
  BY <1>1, <1>4, <1>6, <1>7, OthersStay
<1>9. \A b \in Actors : ~Doing(b, {"reserve"}, p)' /\ ~Doing(b, {"fetch"}, p)'
  BY <1>1, <1>2 DEF Doing
<1>10. WorkKnown(p)'
  BY <1>1, <1>2, <1>4, <1>5, <1>6, <1>9 DEF WorkKnown
<1>11. QED
  BY <1>6, <1>8, <1>10 DEF AccountsKept

\* and an abandoned one for none.
LEMMA AbandonActionKnown ==
  ASSUME WorkInv, [Next]_vars, NEW p \in Proposals, AbandonAction(p)
  PROVE  AccountsKept
<1>1. /\ action[p].status = "claimed" /\ Core!MayRelease(db, p)
      /\ db' = Core!Release(db, p)
      /\ action' = [action EXCEPT ![p].status = "abandoned"]
      /\ UNCHANGED <<grant, actor, call, sent>>
  BY DEF AbandonAction, approvalVars
<1>2. /\ Kind[p] = "external_action" /\ call[p] = "none"
      /\ \A b \in Actors : ~Doing(b, {"reserve"}, p) /\ ~Doing(b, {"fetch"}, p)
      /\ HoldsAll(db, p, Billable[Channel[p]])
  BY <1>1, ActionsRest DEF WorkInv, WorkKnown
<1>3. /\ action'[p].status = "abandoned"
      /\ \A q \in Proposals \ {p} : action'[q] = action[q]
  BY <1>1 DEF WorkInv, ActionTable, ActionRow, Acts
<1>4. /\ Kernel!Sound(db') /\ OthersKept(db, db', p)
      /\ db'.status[p] = "released" /\ db'.paid[p] = 0
  BY <1>1, <1>2, ReleaseCloses DEF WorkInv
<1>5. \A q : NoNewRuns(q)
  BY <1>1 DEF NoNewRuns
<1>6. \A q \in Proposals \ {p} : WorkKnown(q)'
  BY <1>1, <1>3, <1>4, <1>5, OthersStay
<1>7. \A b \in Actors : ~Doing(b, {"reserve"}, p)' /\ ~Doing(b, {"fetch"}, p)'
  BY <1>1, <1>2 DEF Doing
<1>8. ClosedAt(db', p, 0)
  BY <1>4 DEF ClosedAt
<1>9. WorkKnown(p)'
  BY <1>1, <1>2, <1>3, <1>7, <1>8 DEF WorkKnown
<1>10. QED
  BY <1>4, <1>6, <1>9 DEF AccountsKept

\* A sweep of an old hold leaves it held.
LEMMA SweepHoldKnown ==
  ASSUME WorkInv, [Next]_vars, NEW p \in Proposals, SweepHold(p)
  PROVE  AccountsKept
<1>1. /\ db.status[p] = "reserved" /\ db' = Core!Mark(db, p, "execution_unknown")
      /\ UNCHANGED <<grant, actor, call, sent, action>>
  BY DEF SweepHold, approvalVars, world
<1>2. /\ Kernel!Sound(db') /\ OthersKept(db, db', p)
      /\ \A n : HoldsAll(db, p, n) => HoldsAll(db', p, n)
  BY <1>1, SweepKeepsHold DEF WorkInv
<1>3. \A q : NoNewRuns(q)
  BY <1>1 DEF NoNewRuns
<1>4. \A q \in Proposals \ {p} : WorkKnown(q)'
  BY <1>1, <1>2, <1>3, OthersStay
<1>5. \A b \in Actors : /\ Doing(b, {"reserve"}, p)' = Doing(b, {"reserve"}, p)
                        /\ Doing(b, {"fetch"}, p)' = Doing(b, {"fetch"}, p)
  BY <1>1 DEF Doing
<1>6. WorkKnown(p)
  BY DEF WorkInv
<1>7. WorkKnown(p)'
  BY <1>1, <1>2, <1>5, <1>6 DEF WorkKnown, ClosedAt
<1>8. QED
  BY <1>2, <1>4, <1>7 DEF AccountsKept

\* A step that leaves calls, actions and holds alone.
LEMMA AllWorkStays ==
  ASSUME WorkInv, [Next]_vars, Kernel!Sound(db'),
         \A q \in Proposals : /\ SameRow(db, db', q) /\ NoNewRuns(q)
                              /\ call'[q] = call[q] /\ sent'[q] = sent[q]
                              /\ action'[q] = action[q]
  PROVE  AccountsKept
<1>1. ASSUME NEW q \in Proposals PROVE WorkKnown(q)'
  <2>1. "consumed" \in grant[q] => "consumed" \in grant'[q]
    BY GrantsStand DEF WorkInv
  <2>2. QED
    BY <2>1, WorkStays DEF WorkInv
<1>2. QED
  BY <1>1 DEF AccountsKept

\* A database is no different from itself.
LEMMA RowsSame == \A q \in Proposals : SameRow(db, db, q)
  BY DEF SameRow

\* A step that leaves the accounts alone leaves them agreeing with the work.
LEMMA QuietStepKnown ==
  ASSUME WorkInv, [Next]_vars, UNCHANGED <<db, call, sent, action>>,
         \A q \in Proposals : NoNewRuns(q)
  PROVE  AccountsKept
  BY AllWorkStays, RowsSame DEF WorkInv

\* A Cell's death leaves the holds of its work as they are.
LEMMA KillKnown ==
  ASSUME WorkInv, [Next]_vars, NEW c \in Mortal, Kill(c)
  PROVE  AccountsKept
<1>1. c \in Cells /\ db' = Core!Kill(db, c) /\ Kernel!Sound(db)
      /\ UNCHANGED <<actor, call, sent, action>>
  BY ApprovalsAssumption DEF Kill, KillCell, world, WorkInv
<1>2. Kernel!Sound(db')
  <2>1. db' = Kernel!Kill(db, c)
    BY <1>1, KillKeepsHolds
  <2>2. QED
    BY <1>1, <2>1, Kernel!KillSound, KernelAssumptionMet
<1>3. \A q \in Proposals : SameRow(db, db', q)
  BY <1>1, KillKeepsHolds DEF SameRow
<1>4. \A q \in Proposals : NoNewRuns(q)
  BY <1>1 DEF NoNewRuns
<1>5. QED
  BY <1>1, <1>2, <1>3, <1>4, AllWorkStays

\* So does the record of work done outside.
LEMMA RecordPerformedKnown ==
  ASSUME WorkInv, [Next]_vars, NEW r \in Records, NEW target, NEW performed,
         NEW isDamage, RecordPerformed(r, target, performed, isDamage)
  PROVE  AccountsKept
<1>1. UNCHANGED <<actor, db, call, sent>>
  BY DEF RecordPerformed, approvalVars
<1>2. \A q \in Proposals : action'[q] = action[q]
  <2>1. \A q \in Proposals : q # r
    BY GrantedWorkAssumption
  <2>2. QED
    BY <2>1 DEF RecordPerformed, WorkInv, ActionTable, Acts
<1>3. \A q \in Proposals : NoNewRuns(q)
  BY <1>1 DEF NoNewRuns
<1>4. QED
  BY <1>1, <1>2, <1>3, RowsSame, AllWorkStays DEF WorkInv

\* Whatever happens, the account goes on agreeing with the work.
LEMMA AccountsStayKnown ==
  ASSUME WorkInv, [Next]_vars
  PROVE  AccountsKept
<1>1. CASE ApprovalNext /\ UNCHANGED workVars
  BY <1>1, QueueRuns, QuietStepKnown DEF workVars, WorkInv
<1>2. ASSUME NEW a \in Actors, NEW p \in Proposals, ToolStep(a, p)
      PROVE  AccountsKept
  <2>1. ASSUME CallRefused(a, p) PROVE AccountsKept
    BY <2>1, LeavingRuns, QuietStepKnown DEF CallRefused, workVars, WorkInv
  <2>2. QED
    BY <1>2, <2>1, ClaimCallKnown, ReserveCallKnown, FetchRefusedKnown,
       FetchSendsKnown DEF ToolStep
<1>3. ASSUME NEW a \in Actors, NEW p \in Proposals, NEW target \in Targets,
             ClaimAction(a, p, target) \/ ClaimRefused(a, p, target)
      PROVE  AccountsKept
  <2>1. ASSUME ClaimRefused(a, p, target) PROVE AccountsKept
    BY <2>1, LeavingRuns, QuietStepKnown DEF ClaimRefused, workVars, WorkInv
  <2>2. QED
    BY <1>3, <2>1, ClaimActionKnown
<1>4. ASSUME NEW a \in Actors, cmd_run_tool(a) \/ cmd_claim_external_action(a)
      PROVE  AccountsKept
  <2>1. ASSUME NEW p \in Proposals, NEW kind, NEW op \in {"execute", "claim"},
               BeginWork(a, p, kind, op)
        PROVE  AccountsKept
    BY <2>1, BeginningRuns, QuietStepKnown DEF BeginWork, workVars, WorkInv
  <2>2. QED
    BY <1>4, <2>1 DEF cmd_run_tool, cmd_claim_external_action
<1>5. CASE Verbs
  <2>1. ASSUME UNCHANGED <<actor, db, call, sent, action>> PROVE AccountsKept
    BY <2>1, QuietStepKnown DEF NoNewRuns
  <2>2. ASSUME \/ cmd_unfreeze_channel \/ cmd_set_autonomy \/ cmd_allow_domain
               \/ cmd_set_rights \/ cmd_export_artifact
        PROVE  UNCHANGED <<actor, db, call, sent, action>>
    BY <2>2
    DEF cmd_unfreeze_channel, cmd_set_autonomy, cmd_allow_domain,
        cmd_set_rights, cmd_export_artifact, AcknowledgeChannel, SetAutonomy,
        AllowDomain, DenyDomain, Attest, Export, approvalVars, world
  <2>3. ASSUME cmd_complete_external_action PROVE AccountsKept
    BY <2>3, CompleteActionKnown DEF cmd_complete_external_action
  <2>4. ASSUME cmd_abandon_external_action PROVE AccountsKept
    BY <2>4, AbandonActionKnown DEF cmd_abandon_external_action
  <2>5. ASSUME cmd_record_external_action PROVE AccountsKept
    BY <2>5, RecordPerformedKnown DEF cmd_record_external_action
  <2>6. QED
    BY <1>5, <2>1, <2>2, <2>3, <2>4, <2>5 DEF Verbs
<1>6. ASSUME NEW p \in Proposals, SweepHold(p) PROVE AccountsKept
  BY <1>6, SweepHoldKnown
<1>7. ASSUME NEW c \in Mortal, Kill(c) PROVE AccountsKept
  BY <1>7, KillKnown
<1>8. CASE UNCHANGED vars
  BY <1>8, QuietStepKnown DEF vars, approvalVars, workVars, NoNewRuns
<1>9. QED
  BY <1>1, <1>2, <1>3, <1>4, <1>5, <1>6, <1>7, <1>8 DEF Next

-----------------------------------------------------------------------------
(* Types. *)

\* The highest of three tiers is one of them, and no lower than any.
LEMMA MaximumIs ==
  ASSUME NEW x \in Int, NEW y \in Int, NEW z \in Int
  PROVE  /\ Maximum({x, y, z}) \in {x, y, z}
         /\ x <= Maximum({x, y, z}) /\ y <= Maximum({x, y, z})
         /\ z <= Maximum({x, y, z})
<1>1. \E t \in {x, y, z} : \A u \in {x, y, z} : u <= t
  <2>1. CASE y <= x /\ z <= x
    BY <2>1
  <2>2. CASE x <= y /\ z <= y
    BY <2>2
  <2>3. CASE x <= z /\ y <= z
    BY <2>3
  <2>4. QED
    BY <2>1, <2>2, <2>3
<1>2. QED
  BY <1>1 DEF Maximum

\* A request is assessed at some tier.
LEMMA TiersAssessed ==
  ASSUME NEW p \in Proposals, NEW selective \in BOOLEAN
  PROVE  /\ KernelTier(p) \in Tiers /\ AssessedTier(p, selective) \in Tiers
         /\ ExposureTier(Exposure(p)) <= KernelTier(p)
         /\ KernelTier(p) <= AssessedTier(p, selective)
<1>1. Tiers = 0 .. 3 /\ \A c \in Claims : c \in Int /\ c <= 3
  BY DEF Tiers, Claims, Unclaimed, Low, Critical
<1>2. KindTier(p) \in Tiers
  BY DEF KindTier, Tiers, Low, Medium, High, Critical
<1>3. ExposureTier(Exposure(p)) \in Tiers
  BY DEF ExposureTier, Tiers, Low, Medium, High, Critical
<1>4. (IF cell[Proposer[p]] = "quarantined" THEN High ELSE Low) \in Tiers
  BY DEF Tiers, Low, High, Critical
<1>5. KernelTier(p) \in Tiers /\ ExposureTier(Exposure(p)) <= KernelTier(p)
  <2> DEFINE x == KindTier(p)
             y == ExposureTier(Exposure(p))
             z == IF cell[Proposer[p]] = "quarantined" THEN High ELSE Low
  <2>1. KernelTier(p) = Maximum({x, y, z})
    BY DEF KernelTier
  <2> HIDE DEF x, y, z
  <2>2. x \in Int /\ y \in Int /\ z \in Int /\ {x, y, z} \subseteq Tiers
    BY <1>1, <1>2, <1>3, <1>4 DEF x, y, z
  <2>3. Maximum({x, y, z}) \in {x, y, z} /\ y <= Maximum({x, y, z})
    BY <2>2, MaximumIs
  <2>4. KernelTier(p) \in Tiers /\ y <= KernelTier(p)
    BY <2>1, <2>2, <2>3
  <2>5. QED
    BY <2>4 DEF y
<1>6. Claim[p] \in Claims /\ GenomeClaim[Proposer[p]] \in Claims
  BY ApprovalsAssumption
<1> DEFINE tier == Maximum({KernelTier(p), Claim[p], GenomeClaim[Proposer[p]]})
<1>7. tier \in Tiers /\ KernelTier(p) <= tier
  <2> DEFINE x == KernelTier(p)
             y == Claim[p]
             z == GenomeClaim[Proposer[p]]
  <2> HIDE DEF x, y, z
  <2>1. x \in 0 .. 3 /\ y \in Int /\ y <= 3 /\ z \in Int /\ z <= 3
    <3>1. x \in 0 .. 3
      BY <1>1, <1>5 DEF x
    <3>2. y \in Claims /\ z \in Claims
      BY <1>6 DEF y, z
    <3>3. /\ y \in Int /\ y <= 3
          /\ z \in Int /\ z <= 3
      BY <1>1, <3>2
    <3>4. QED
      BY <3>1, <3>3
  <2>2. Maximum({x, y, z}) \in {x, y, z} /\ x <= Maximum({x, y, z})
    <3>1. x \in Int
      BY <2>1
    <3>2. QED
      BY <2>1, <3>1, MaximumIs
  <2>3. Maximum({x, y, z}) \in 0 .. 3
    BY <2>1, <2>2
  <2>4. tier = Maximum({x, y, z})
    BY DEF x, y, z
  <2>5. QED
    BY <1>1, <2>2, <2>3, <2>4 DEF x
<1>8. AssessedTier(p, selective) =
        IF Escalates(p, selective) THEN Escalated(tier) ELSE tier
  BY DEF AssessedTier
<1> HIDE DEF tier
<1>9. Escalated(tier) \in Tiers /\ tier <= Escalated(tier)
  BY <1>1, <1>7 DEF Escalated, Critical
<1>10. QED
  BY <1>1, <1>5, <1>7, <1>8, <1>9

\* A new request has its columns' types.
LEMMA NewRequestTyped ==
  ASSUME clock \in Nat, NEW p \in Proposals, NEW selective \in BOOLEAN
  PROVE  NewRequest(p, selective) \in Requests
<1>1. AssessedTier(p, selective) \in Tiers
  BY TiersAssessed
<1>2. clock + Life[AssessedTier(p, selective)] \in Nat
  BY <1>1, ApprovalsAssumption
<1>3. (Escalates(p, selective) \/ IsUnderstated(p)) \in BOOLEAN
  OBVIOUS
<1> HIDE DEF AssessedTier
<1>4. QED
  BY <1>1, <1>2, <1>3 DEF NewRequest, Requests

\* What the tables of permits, and the processes, are like after a step.
LEMMA PermitsStayTyped ==
  ASSUME clock \in 0 .. MaxClock, PermitsTyped, GrantsKnown, [Next]_vars
  PROVE  clock' \in 0 .. MaxClock /\ PermitsTyped'
<1> DEFINE Rows == [op : Ops, now : 0 .. MaxClock, todo : SUBSET Proposals]
<1>1. MaxClock \in Nat /\ clock \in Nat /\ Idle \in Rows
  <2>1. MaxClock \in Nat
    BY ApprovalsAssumption
  <2>2. QED
    BY <2>1 DEF Idle, Ops
<1>2. ASSUME NEW a \in Actors, NEW row \in Rows, actor' = [actor EXCEPT ![a] = row]
      PROVE  actor' \in ActorTable
  BY <1>2 DEF PermitsTyped, ActorTable
<1>3. ASSUME NEW a \in Actors, NEW op \in Ops, NEW todo \in SUBSET Proposals,
             actor' = [actor EXCEPT ![a] = [op |-> op, now |-> clock, todo |-> todo]]
      PROVE  actor' \in ActorTable
  <2>1. [op |-> op, now |-> clock, todo |-> todo] \in Rows
    OBVIOUS
  <2> HIDE DEF Rows
  <2>2. QED
    BY <1>2, <1>3, <2>1
<1>4. ASSUME NEW a \in Actors, Raise(a) PROVE actor' \in ActorTable
  BY <1>1, <1>2, <1>4 DEF Raise
<1>5. ASSUME NEW a \in Actors, NEW op \in Ops, GoTo(a, op) PROVE actor' \in ActorTable
  BY <1>5 DEF GoTo, PermitsTyped, ActorTable
<1>6. CASE Rests
  BY <1>1, <1>6 DEF Rests, PermitsTyped
<1>7. ASSUME NEW p \in Proposals, Queues(p)
      PROVE  clock' \in 0 .. MaxClock /\ PermitsTyped'
  <2>1. PICK selective \in BOOLEAN :
          request' = [request EXCEPT ![p] = NewRequest(p, selective)]
    BY <1>7 DEF Queues
  <2>2. NewRequest(p, selective) \in Requests
    BY <1>1, NewRequestTyped
  <2>3. request' \in RequestTable
    BY <2>1, <2>2 DEF PermitsTyped, RequestTable
  <2>4. QED
    BY <1>7, <2>3 DEF Queues, PermitsTyped
<1>8. ASSUME NEW a \in Actors, Starts(a) \/ Stops(a)
      PROVE  clock' \in 0 .. MaxClock /\ PermitsTyped'
  <2>1. ASSUME Starts(a) PROVE actor' \in ActorTable
    <3>1. PICK op \in QueueOps, todo \in SUBSET Proposals :
            actor' = [actor EXCEPT ![a] = [op |-> op, now |-> clock, todo |-> todo]]
      BY <2>1 DEF Starts
    <3>2. op \in Ops
      BY <3>1 DEF Ops
    <3>3. QED
      BY <1>3, <3>1, <3>2
  <2>2. actor' \in ActorTable
    BY <1>4, <1>8, <2>1 DEF Stops
  <2>3. QED
    BY <1>8, <2>2 DEF Starts, Stops, PermitsTyped
<1>9. ASSUME NEW a \in Actors, NEW p \in Proposals, Decides(a, p)
      PROVE  clock' \in 0 .. MaxClock /\ PermitsTyped'
  <2>1. actor' \in ActorTable
    <3>1. CASE actor[a].todo = {p}
      BY <1>1, <1>2, <1>9, <3>1 DEF Decides, NextItem
    <3>2. CASE actor[a].todo # {p}
      BY <1>9, <3>2 DEF Decides, NextItem, PermitsTyped, ActorTable
    <3>3. QED
      BY <3>1, <3>2
  <2>2. request' \in RequestTable /\ grant' \in GrantTable
    <3>1. CASE Approves(a, p)
      <4> DEFINE batched == actor[a].op = "batch"
      <4>1. request' = [request EXCEPT ![p] = [request[p] EXCEPT
                          !.status = "approved", !.batched = batched]]
        BY <3>1 DEF Approves, PermitsTyped, RequestTable, Requests
      <4>2. batched \in BOOLEAN
        OBVIOUS
      <4> HIDE DEF batched
      <4>3. [request[p] EXCEPT !.status = "approved", !.batched = batched]
              \in Requests
        BY <4>2 DEF PermitsTyped, RequestTable, Requests, Decided
      <4>4. request' \in RequestTable
        BY <4>1, <4>3 DEF PermitsTyped, RequestTable
      <4>5. grant' \in GrantTable
        BY <3>1 DEF Approves, PermitsTyped, GrantTable
      <4>6. QED
        BY <4>4, <4>5
    <3>2. CASE Refuses(p)
      <4>1. PICK s \in {"rejected", "expired"} :
              request' = [request EXCEPT ![p].status = s]
        BY <3>2 DEF Refuses
      <4>2. request' \in RequestTable
        BY <4>1 DEF PermitsTyped, RequestTable, Requests, Decided
      <4>3. QED
        BY <3>2, <4>2 DEF Refuses, PermitsTyped
    <3>3. CASE Lapses(p)
      BY <3>3 DEF Lapses, PermitsTyped, GrantTable
    <3>4. QED
      BY <1>9, <3>1, <3>2, <3>3 DEF Decides, PermitsTyped
  <2>3. QED
    BY <1>9, <2>1, <2>2 DEF Decides, PermitsTyped
<1>10. ASSUME NEW a \in Actors, NEW p \in Proposals, Begins(a, p)
      PROVE  clock' \in 0 .. MaxClock /\ PermitsTyped'
  <2>1. PICK op \in {"execute", "claim"} :
          actor' = [actor EXCEPT ![a] = [op |-> op, now |-> clock, todo |-> {p}]]
    BY <1>10 DEF Begins
  <2>2. op \in Ops /\ {p} \in SUBSET Proposals
    BY <2>1 DEF Ops, WorkOps
  <2>3. actor' \in ActorTable
    <3> HIDE DEF Rows
    <3>1. QED
      BY <1>3, <2>1, <2>2
  <2>4. QED
    BY <1>10, <2>3 DEF Begins, PermitsTyped
<1>11. ASSUME NEW a \in Actors, NEW p \in Proposals, ClaimsCall(a, p) \/ Takes(a, p)
      PROVE  clock' \in 0 .. MaxClock /\ PermitsTyped'
  <2>1. actor' \in ActorTable
    <3>1. "reserve" \in Ops
      BY DEF Ops, WorkOps
    <3>2. QED
      BY <1>4, <1>5, <1>11, <3>1 DEF ClaimsCall, Takes
  <2>2. grant' \in GrantTable
    BY <1>11 DEF ClaimsCall, Takes, Consume, PermitsTyped, GrantTable
  <2>3. QED
    BY <1>11, <2>1, <2>2 DEF ClaimsCall, Takes, PermitsTyped
<1>12. ASSUME NEW a \in Actors, NEW p \in Proposals, Reserves(a, p)
      PROVE  clock' \in 0 .. MaxClock /\ PermitsTyped'
  <2>1. "fetch" \in Ops
    BY DEF Ops, WorkOps
  <2>2. QED
    BY <1>5, <1>12, <2>1 DEF Reserves, PermitsTyped
<1>13. ASSUME NEW a \in Actors, NEW p \in Proposals, Sends(a, p)
      PROVE  clock' \in 0 .. MaxClock /\ PermitsTyped'
  BY <1>4, <1>13 DEF Sends, Send, PermitsTyped
<1>14. QED
  BY <1>6, <1>7, <1>8, <1>9, <1>10, <1>11, <1>12, <1>13, StepKinds DEF ActorStep

\* The other tables.
RestTyped ==
  /\ cell \in CellTable /\ proposed \subseteq Proposals
  /\ flags \subseteq Flags /\ allowed \subseteq Hosts
  /\ cleared \subseteq Subjects /\ sold \subseteq Artifacts
  /\ exported \in ExportTable
  /\ call \in CallTable /\ action \in ActionTable
  /\ frozen \subseteq Channels /\ blocked \subseteq Targets

\* What is known when nothing more is asked of deliveries and batches.
Sane == Typed /\ GrantsKnown /\ RunsKnown /\ \A p \in Proposals : WorkKnown(p)

\* The parts of what is known, by the names the lemmas use.
LEMMA SaneIs == Sane => WorkInv /\ RestTyped /\ clock \in 0 .. MaxClock
  BY DEF Sane, Typed, WorkInv, PermitsTyped, RestTyped

\* A complaint is about a channel, and a target on it.
LEMMA DamageTyped ==
  ASSUME RestTyped, NEW x, NEW target \in Targets, NEW isDamage \in BOOLEAN,
         ChannelOf(x) \in Channels, Damage(x, target, isDamage)
  PROVE  frozen' \subseteq Channels /\ blocked' \subseteq Targets
  BY DEF RestTyped, Damage

\* A row written by a claim or a record.
LEMMA ActionRowTyped ==
  ASSUME RestTyped, NEW x \in Acts, NEW s \in {"claimed", "completed"},
         NEW at \in 0 .. MaxClock, NEW target \in Targets,
         action' = [action EXCEPT ![x] = [status |-> s, at |-> at,
                                          target |-> target, minutes |-> 0]]
  PROVE  action' \in ActionTable
<1> DEFINE row == [status |-> s, at |-> at, target |-> target, minutes |-> 0]
<1>1. row \in ActionRow
  BY DEF ActionRow
<1> HIDE DEF row
<1>2. action' = [action EXCEPT ![x] = row]
  BY DEF row
<1>3. QED
  BY <1>1, <1>2 DEF RestTyped, ActionTable

\* No step writes a table a value its column does not have.
LEMMA RestStaysTyped ==
  ASSUME Sane, [Next]_vars PROVE RestTyped'
<1>1. RestTyped /\ clock \in 0 .. MaxClock /\ actor \in ActorTable
      /\ MaxClock \in Nat
  BY SaneIs, ApprovalsAssumption DEF Sane, Typed
<1>2. CASE ApprovalNext /\ UNCHANGED workVars
  <2>1. cell' \in CellTable /\ proposed' \subseteq Proposals
    <3>1. CASE Queueing
      BY <1>1, <3>1
      DEF Queueing, ProposeUnqueued, Propose, EnqueueMissing, RestTyped
    <3>2. CASE ColonyStep
      BY <1>1, <3>2
      DEF ColonyStep, Tick, QuarantineCell, ClearQuarantine, RestTyped,
          CellTable, CellStatuses
    <3>3. ASSUME NEW a \in Actors, Decisions(a) PROVE UNCHANGED <<cell, proposed>>
      BY <3>3
      DEF Decisions, cmd_approve, cmd_reject, cmd_approve_batch, BeginDecision,
          BeginBatch, Begin, Approve, Reject, DecisionRefused
    <3>4. ASSUME NEW a \in Actors, Expiries(a) PROVE UNCHANGED <<cell, proposed>>
      BY <3>4
      DEF Expiries, cmd_expire_approvals, BeginExpiry, BeginGrantExpiry, Begin,
          ExpireRequest, ExpireGrant
    <3>5. ASSUME NEW a \in Actors, Crash(a) PROVE UNCHANGED <<cell, proposed>>
      BY <3>5 DEF Crash
    <3>6. QED
      BY <1>1, <1>2, <3>1, <3>2, <3>3, <3>4, <3>5 DEF ApprovalNext, RestTyped
  <2>2. QED
    BY <1>1, <1>2, <2>1 DEF workVars, RestTyped
<1>3. ASSUME NEW a \in Actors, NEW p \in Proposals, ToolStep(a, p) PROVE RestTyped'
  <2>1. UNCHANGED <<cell, proposed, gates, world>>
    BY <1>3
    DEF ToolStep, ClaimCall, CallRefused, ReserveCall, FetchRefused,
        FetchUnclear, FetchAnswered, CrashInFetch, workVars, gates, world
  <2>2. call' = call \/ \E s \in {"requested", "succeeded", "failed", "unknown"} :
                           call' = [call EXCEPT ![p] = s]
    BY <1>3
    DEF ToolStep, ClaimCall, CallRefused, ReserveCall, FetchRefused,
        FetchUnclear, FetchAnswered, CrashInFetch, workVars
  <2>3. call' \in CallTable
    BY <1>1, <2>2 DEF RestTyped, CallTable
  <2>4. QED
    BY <1>1, <2>1, <2>3 DEF RestTyped, gates, world
<1>4. ASSUME NEW a \in Actors, NEW p \in Proposals, NEW target \in Targets,
             ClaimAction(a, p, target)
      PROVE  RestTyped'
  <2>1. UNCHANGED <<cell, proposed, gates, call, frozen, blocked>>
    BY <1>4 DEF ClaimAction
  <2>2. Now(a) \in 0 .. MaxClock /\ p \in Acts
    BY <1>1 DEF Now, ActorTable, Acts
  <2>3. action' \in ActionTable
    BY <1>1, <1>4, <2>2, ActionRowTyped DEF ClaimAction
  <2>4. QED
    BY <1>1, <2>1, <2>3 DEF RestTyped, gates
<1>5. ASSUME NEW a \in Actors, NEW p \in Proposals, NEW target,
             ClaimRefused(a, p, target)
      PROVE  RestTyped'
  BY <1>1, <1>5 DEF ClaimRefused, workVars, RestTyped
<1>6. ASSUME NEW a \in Actors, cmd_run_tool(a) \/ cmd_claim_external_action(a)
      PROVE  RestTyped'
  BY <1>1, <1>6
  DEF cmd_run_tool, cmd_claim_external_action, BeginWork, Begin, workVars,
      RestTyped
<1>7. ASSUME NEW p \in Proposals, NEW minutes \in Minutes, NEW isDamage \in BOOLEAN,
             CompleteAction(p, minutes, isDamage)
      PROVE  RestTyped'
  <2>1. /\ action[p].status = "claimed" /\ UNCHANGED <<cell, proposed, gates, call>>
        /\ action' = [action EXCEPT ![p].status = "completed", ![p].minutes = minutes]
        /\ Damage(p, action[p].target, isDamage)
    BY <1>7 DEF CompleteAction
  <2>2. action[p].target \in Targets /\ Kind[p] = "external_action"
    BY <2>1 DEF Sane, WorkKnown
  <2>3. ChannelOf(p) \in Channels
    <3>1. ChannelOf(p) = Channel[p]
      BY GrantedWorkAssumption DEF ChannelOf
    <3>2. QED
      BY <2>2, <3>1, BillableIs
  <2>4. frozen' \subseteq Channels /\ blocked' \subseteq Targets
    BY <1>1, <2>1, <2>2, <2>3, DamageTyped
  <2>5. action' \in ActionTable
    BY <1>1, <2>1 DEF RestTyped, ActionTable, ActionRow, Acts
  <2>6. QED
    BY <1>1, <2>1, <2>4, <2>5 DEF RestTyped, gates
<1>8. ASSUME NEW p \in Proposals, AbandonAction(p) PROVE RestTyped'
  <2>1. /\ UNCHANGED <<cell, proposed, gates, call, frozen, blocked>>
        /\ action' = [action EXCEPT ![p].status = "abandoned"]
    BY <1>8 DEF AbandonAction, approvalVars
  <2>2. action' \in ActionTable
    BY <1>1, <2>1 DEF RestTyped, ActionTable, ActionRow, Acts
  <2>3. QED
    BY <1>1, <2>1, <2>2 DEF RestTyped, gates
<1>9. ASSUME NEW r \in Records, NEW target \in Targets, NEW performed \in 0 .. clock,
             NEW isDamage \in BOOLEAN, RecordPerformed(r, target, performed, isDamage)
      PROVE  RestTyped'
  <2>1. /\ UNCHANGED <<cell, proposed, gates, call>>
        /\ action' = [action EXCEPT ![r] = [status |-> "completed", at |-> performed,
                                            target |-> target, minutes |-> 0]]
        /\ Damage(r, target, isDamage)
    BY <1>9 DEF RecordPerformed, approvalVars
  <2>2. ChannelOf(r) \in Channels
    BY GrantedWorkAssumption DEF ChannelOf
  <2>3. frozen' \subseteq Channels /\ blocked' \subseteq Targets
    BY <1>1, <2>1, <2>2, DamageTyped
  <2>4. performed \in 0 .. MaxClock /\ r \in Acts
    BY <1>1 DEF Acts
  <2>5. action' \in ActionTable
    BY <1>1, <2>1, <2>4, ActionRowTyped
  <2>6. QED
    BY <1>1, <2>1, <2>3, <2>5 DEF RestTyped, gates
<1>10. ASSUME \/ cmd_unfreeze_channel \/ cmd_set_autonomy \/ cmd_allow_domain
              \/ cmd_set_rights
       PROVE  RestTyped'
  BY <1>1, <1>10
  DEF cmd_unfreeze_channel, cmd_set_autonomy, cmd_allow_domain, cmd_set_rights,
      AcknowledgeChannel, SetAutonomy, AllowDomain, DenyDomain, Attest,
      approvalVars, gates, world, RestTyped
<1>11. CASE cmd_export_artifact
  <2>1. PICK x \in Artifacts, commercial \in BOOLEAN, now \in 0 .. clock :
          Export(x, commercial, now)
    BY <1>11 DEF cmd_export_artifact
  <2>2. now \in 0 .. MaxClock
    BY <1>1, <2>1
  <2>3. exported' \in ExportTable /\ sold' \subseteq Artifacts
    BY <1>1, <2>1, <2>2 DEF Export, RestTyped, ExportTable
  <2>4. QED
    BY <1>1, <2>1, <2>3 DEF Export, approvalVars, world, RestTyped
<1>12. ASSUME NEW p \in Proposals, SweepHold(p) PROVE RestTyped'
  BY <1>1, <1>12 DEF SweepHold, approvalVars, gates, world, RestTyped
<1>13. ASSUME NEW c \in Mortal, Kill(c) PROVE RestTyped'
  BY <1>1, <1>13
  DEF Kill, KillCell, gates, world, RestTyped, CellTable, CellStatuses
<1>14. CASE UNCHANGED vars
  BY <1>1, <1>14 DEF vars, approvalVars, workVars, RestTyped
<1>15. CASE Verbs
  BY <1>7, <1>8, <1>9, <1>10, <1>11, <1>15
  DEF Verbs, cmd_complete_external_action, cmd_abandon_external_action,
      cmd_record_external_action
<1>16. QED
  BY <1>2, <1>3, <1>4, <1>5, <1>6, <1>12, <1>13, <1>14, <1>15 DEF Next

\* A step keeps everything known of types, grants, processes and accounts.
LEMMA SaneStays == Sane /\ [Next]_vars => Sane'
<1> SUFFICES ASSUME Sane, [Next]_vars PROVE Sane'
  OBVIOUS
<1>1. WorkInv /\ clock \in 0 .. MaxClock
  BY SaneIs
<1>2. clock' \in 0 .. MaxClock /\ PermitsTyped'
  BY <1>1, PermitsStayTyped DEF WorkInv
<1>3. GrantsKnown' /\ RunsKnown'
  BY <1>1, GrantsStayKnown, RunsStayKnown DEF WorkInv
<1>4. AccountsKept
  BY <1>1, AccountsStayKnown
<1>5. RestTyped'
  BY RestStaysTyped
<1>6. QED
  BY <1>2, <1>3, <1>4, <1>5
  DEF Sane, Typed, PermitsTyped, RestTyped, AccountsKept

\* A request that was approved beforehand has its columns' types.
LEMMA FirstRequestTyped ==
  ASSUME NEW p \in Proposals
  PROVE  /\ FirstRequest(p) \in Requests
         /\ FirstRequest(p).status = "approved" /\ FirstRequest(p).created = 0
         /\ FirstRequest(p).batched = FALSE
<1> DEFINE x == KindTier(p)
           y == ExposureTier(Cost[p])
           z == Claim[p]
           w == GenomeClaim[Proposer[p]]
           tier == Maximum({x, y, z, w})
<1>1. FirstRequest(p) = [NoRequest EXCEPT !.status = "approved", !.tier = tier,
                                          !.expires = Life[tier]]
  BY DEF FirstRequest
<1>2. Tiers = 0 .. 3 /\ \A c \in Claims : c \in Int /\ c <= 3
  BY DEF Tiers, Claims, Unclaimed, Low, Critical
<1>3. x \in Tiers /\ y \in Tiers
  BY DEF KindTier, ExposureTier, Tiers, Low, Medium, High, Critical
<1>4. z \in Claims /\ w \in Claims
  BY ApprovalsAssumption
<1> HIDE DEF x, y, z, w
<1>5. x \in Int /\ x >= 0 /\ y \in Int /\ y >= 0 /\ z \in Int /\ w \in Int
      /\ x <= 3 /\ y <= 3 /\ z <= 3 /\ w <= 3
  BY <1>2, <1>3, <1>4
<1>6. \E t \in {x, y, z, w} : \A u \in {x, y, z, w} : u <= t
  <2>1. PICK s \in {x, y, z} : x <= s /\ y <= s /\ z <= s
    BY <1>5, MaximumIs
  <2>2. CASE w <= s
    BY <1>5, <2>1, <2>2
  <2>3. CASE s <= w
    BY <1>5, <2>1, <2>3
  <2>4. QED
    BY <1>5, <2>1, <2>2, <2>3
<1>7. tier \in {x, y, z, w} /\ \A u \in {x, y, z, w} : u <= tier
  BY <1>6 DEF Maximum
<1> HIDE DEF tier
<1>8. tier \in Tiers
  BY <1>2, <1>5, <1>7
<1>9. Life[tier] \in Nat
  BY <1>8, ApprovalsAssumption
<1>10. FirstRequest(p) = [status |-> "approved", tier |-> tier, flagged |-> FALSE,
                          created |-> 0, expires |-> Life[tier], batched |-> FALSE]
  BY <1>1 DEF NoRequest
<1>11. QED
  BY <1>8, <1>9, <1>10 DEF Requests, Decided

\* What is known holds to begin with.
LEMMA SaneBegins == Init => Sane
<1> SUFFICES ASSUME Init PROVE Sane
  OBVIOUS
<1>1. /\ clock = 0 /\ proposed \in Backlogs
      /\ cell = [c \in Cells |-> "alive"]
      /\ request = [p \in Proposals |-> IF p \in proposed THEN FirstRequest(p)
                                        ELSE NoRequest]
      /\ grant = [p \in Proposals |-> IF p \in proposed THEN {"issued"} ELSE {}]
      /\ actor = [a \in Actors |-> Idle]
      /\ db = Core!EmptyDatabase /\ flags = Flags /\ allowed = Hosts
      /\ cleared = {} /\ exported = [x \in Artifacts |-> Unexported] /\ sold = {}
      /\ call = [p \in Proposals |-> "none"] /\ sent = [p \in Proposals |-> 0]
      /\ action = [x \in Acts |-> NoAction] /\ frozen = {} /\ blocked = {}
  BY DEF Init, ApprovalInit
<1>2. MaxClock \in Nat /\ proposed \subseteq Proposals
  BY <1>1, ApprovalsAssumption
<1>3. request \in RequestTable
  <2>1. NoRequest \in Requests
    BY DEF NoRequest, Requests, Tiers, Low, Critical
  <2>2. QED
    BY <1>1, <2>1, FirstRequestTyped DEF RequestTable
<1>4. grant \in GrantTable
  BY <1>1 DEF GrantTable
<1>5. actor \in ActorTable
  <2>1. Idle \in [op : Ops, now : 0 .. MaxClock, todo : SUBSET Proposals]
    BY <1>2 DEF Idle, Ops
  <2> HIDE DEF Idle
  <2>2. QED
    BY <1>1, <2>1 DEF ActorTable
<1>6. Kernel!Sound(db)
  BY <1>1, SameDatabases, Kernel!EmptySound, KernelAssumptionMet
<1>7. action \in ActionTable
  <2>1. NoAction \in ActionRow
    BY <1>2 DEF NoAction, ActionRow
  <2> HIDE DEF NoAction
  <2>2. QED
    BY <1>1, <2>1 DEF ActionTable
<1>8. Typed
  BY <1>1, <1>2, <1>3, <1>4, <1>5, <1>6, <1>7
  DEF Typed, CellTable, CellStatuses, ExportTable, CallTable
<1>9. \A a \in Actors : actor[a].op = "idle" /\ actor[a].todo = {}
  BY <1>1 DEF Idle
<1>10. GrantsKnown
  <2>1. \A p \in Proposals : "issued" \in grant[p] => request[p].status = "approved"
    BY <1>1, FirstRequestTyped
  <2>2. \A p \in Proposals : "consumed" \notin grant[p]
    BY <1>1
  <2>3. QED
    BY <1>9, <2>1, <2>2 DEF GrantsKnown, Doing
<1>11. RunsKnown
  BY <1>1, <1>9 DEF RunsKnown, Doing
<1>12. ASSUME NEW p \in Proposals PROVE WorkKnown(p)
  <2>1. db.status[p] = "absent"
    BY <1>1 DEF Core!EmptyDatabase
  <2>2. call[p] = "none" /\ action[p].status = "none"
    BY <1>1 DEF NoAction, Acts
  <2>3. QED
    BY <1>9, <2>1, <2>2 DEF WorkKnown, Doing
<1>13. QED
  BY <1>8, <1>10, <1>11, <1>12 DEF Sane

-----------------------------------------------------------------------------
(* Theorems. *)

\* What is known holds in every state the program can reach.
LEMMA AlwaysSane == Spec => []Sane
<1>1. Sane /\ UNCHANGED vars => Sane'
  BY SaneStays
<1>2. QED
  BY SaneBegins, SaneStays, PTL DEF Spec

(***************************************************************************)
(* Every table of the queue and of its consumers keeps its columns' types, *)
(* and the reservations of approved work balance (approval.py, tools.py    *)
(* and external_actions.py, with reservations.py underneath).              *)
(***************************************************************************)
THEOREM TypeCorrect == Spec => []TypeOK
<1>1. Sane => TypeOK
  <2> SUFFICES ASSUME Sane PROVE TypeOK
    OBVIOUS
  <2>1. Core!HoldsBalanced(db)
    BY SameDatabases DEF Sane, Typed, Kernel!Sound
  <2>2. ApprovalTypeOK
    BY DEF Sane, Typed, ApprovalTypeOK, CellTable, RequestTable, GrantTable, ActorTable
  <2>3. QED
    BY <2>1, <2>2
    DEF Sane, Typed, TypeOK, ExportTable, CallTable, ActionTable, ActionRow
<1>2. QED
  BY <1>1, AlwaysSane, PTL

(***************************************************************************)
(* The account agrees with the work, whatever sweeps, crashes and deaths   *)
(* come between (tools.py:519, external_actions.py:416, 623).              *)
(***************************************************************************)
THEOREM WorkAlwaysPaidFor == Spec => []WorkIsPaidFor
<1>1. Sane => WorkIsPaidFor
  <2> SUFFICES ASSUME Sane PROVE WorkIsPaidFor
    OBVIOUS
  <2>1. ASSUME NEW p \in Proposals
        PROVE  /\ db.status[p] \in {"absent", "settled", "released"} =>
                    Core!Held(db, p) = 0
               /\ \A n \in Nat \ {0} : HoldsAll(db, p, n) =>
                    Core!Held(db, p) = db.maximum[p] /\ db.maximum[p] > 0
    BY SoundColumns DEF Sane, Typed, Core!Held, Core!OpenStatuses, HoldsAll
  <2>2. ASSUME NEW p \in Proposals, action[p].status # "none"
        PROVE  Billable[Channel[p]] \in Nat \ {0}
    BY <2>2, GrantedWorkAssumption DEF Sane, WorkKnown
  <2>3. CallCost \in Nat \ {0}
    BY GrantedWorkAssumption
  <2>4. ASSUME NEW p \in Proposals
        PROVE  /\ call[p] = "succeeded" => db.status[p] = "settled"
                                            /\ db.paid[p] = CallCost /\ sent[p] = 1
               /\ call[p] = "failed" => Core!Held(db, p) = 0 /\ db.paid[p] = 0
                                         /\ sent[p] = 0
               /\ call[p] = "unknown" \/ action[p].status = "claimed" =>
                    Core!Held(db, p) = db.maximum[p] /\ db.maximum[p] > 0
    BY <2>1, <2>2, <2>3 DEF Sane, WorkKnown
  <2>5. ASSUME NEW p \in Proposals
        PROVE  /\ action[p].status = "completed" =>
                    Core!Held(db, p) = 0 /\ db.paid[p] = BilledMinutes(p, action[p].minutes)
               /\ action[p].status = "abandoned" =>
                    Core!Held(db, p) = 0 /\ db.paid[p] = 0
    BY <2>1 DEF Sane, WorkKnown, ClosedAt
  <2>6. QED
    BY <2>4, <2>5 DEF WorkIsPaidFor
<1>2. QED
  BY <1>1, AlwaysSane, PTL

(***************************************************************************)
(* A permit is used at most once and only after a person granted it, and   *)
(* at most one request leaves the machine on it, however many executions   *)
(* race for it (tools.py:235, execute_grant): the queue and its consumers  *)
(* implement Permits.                                                      *)
(***************************************************************************)
THEOREM PermitsImplemented == Spec => ImplementsPermits
<1>1. Sane /\ [Next]_vars => [Permits!Next]_<<Permit, sent>>
  BY PermitsStep, SaneIs DEF WorkInv
<1>2. QED
  BY <1>1, PermitsBegin, AlwaysSane, PTL DEF Spec, ImplementsPermits, Permits!Spec

-----------------------------------------------------------------------------
(* One business. *)

\* What a step does to actions and exports, if it does anything.
LEMMA BusinessSteps ==
  ASSUME [Next]_vars
  PROVE  \/ UNCHANGED <<action, exported>>
         \/ \E a \in Actors, p \in Proposals, target \in Targets :
              ClaimAction(a, p, target)
         \/ \E p \in Proposals, minutes \in Minutes, isDamage \in BOOLEAN :
              CompleteAction(p, minutes, isDamage)
         \/ \E p \in Proposals : AbandonAction(p)
         \/ \E r \in Records, target \in Targets, performed \in 0 .. clock,
               isDamage \in BOOLEAN : RecordPerformed(r, target, performed, isDamage)
         \/ \E x \in Artifacts, commercial \in BOOLEAN, now \in 0 .. clock :
              Export(x, commercial, now)
<1>1. CASE ApprovalNext /\ UNCHANGED workVars
  BY <1>1 DEF workVars
<1>2. ASSUME NEW a \in Actors, NEW p \in Proposals, ToolStep(a, p)
      PROVE  UNCHANGED <<action, exported>>
  BY <1>2
  DEF ToolStep, ClaimCall, CallRefused, ReserveCall, FetchRefused, FetchUnclear,
      FetchAnswered, CrashInFetch, workVars, gates, world
<1>3. ASSUME NEW a, NEW p, NEW target, ClaimRefused(a, p, target)
      PROVE  UNCHANGED <<action, exported>>
  BY <1>3 DEF ClaimRefused, workVars
<1>4. ASSUME NEW a \in Actors, cmd_run_tool(a) \/ cmd_claim_external_action(a)
      PROVE  UNCHANGED <<action, exported>>
  BY <1>4 DEF cmd_run_tool, cmd_claim_external_action, BeginWork, workVars
<1>5. ASSUME cmd_unfreeze_channel \/ cmd_set_autonomy \/ cmd_allow_domain \/ cmd_set_rights
      PROVE  UNCHANGED <<action, exported>>
  BY <1>5
  DEF cmd_unfreeze_channel, cmd_set_autonomy, cmd_allow_domain, cmd_set_rights,
      AcknowledgeChannel, SetAutonomy, AllowDomain, DenyDomain, Attest, gates, world
<1>6. ASSUME NEW p, SweepHold(p) PROVE UNCHANGED <<action, exported>>
  BY <1>6 DEF SweepHold, gates, world
<1>7. ASSUME NEW c, Kill(c) PROVE UNCHANGED <<action, exported>>
  BY <1>7 DEF Kill, gates, world
<1>8. CASE UNCHANGED vars
  BY <1>8 DEF vars, workVars
<1>9. QED
  BY <1>1, <1>2, <1>3, <1>4, <1>5, <1>6, <1>7, <1>8
  DEF Next, Verbs, cmd_complete_external_action, cmd_abandon_external_action,
      cmd_record_external_action, cmd_export_artifact

\* A claim that passed the checks is compatible with every other that stands.
LEMMA ClaimCompatible ==
  ASSUME action \in ActionTable, NEW p \in Proposals, NEW target, NEW now \in Nat,
         MayContact(p, target, now),
         NEW y \in Proposals \ {p}, Stands(y),
         KeyOf(y) = KeyOf(p), action[y].target = target,
         now - action[y].at <= Window
  PROVE  Compatible(p, y) /\ Compatible(y, p)
<1>1. action[y].at \in Int /\ Window \in Int /\ y \in Acts
  BY ApprovalsAssumption DEF ActionTable, ActionRow, Acts
<1>2. y \in Recent(now)
  BY <1>1 DEF Recent
<1>3. LineageOf(y) = LineageOf(p)
  BY <1>2 DEF MayContact, IsSiblingCollision
<1>4. ChannelOf(y) = ChannelOf(p) =>
        KeyOf(p) # "counterparty" /\ ~(Artifact[y] = Artifact[p] /\ Artifact[p] # "none")
  BY <1>2 DEF MayContact, IsDuplicate
<1>5. QED
  BY <1>3, <1>4 DEF Compatible

Business == DeliveriesKnown /\ ClaimsCompatible

\* An export is of an artifact that may leave, and is never undone.
LEMMA ExportsStand ==
  ASSUME RestTyped, NEW x \in Artifacts, NEW commercial, NEW now \in Nat,
         Export(x, commercial, now)
  PROVE  /\ x \notin Tainted /\ exported'[x] # Unexported
         /\ \A y \in Artifacts : exported[y] # Unexported => exported'[y] = exported[y]
         /\ \A y \in Artifacts \ {x} : exported'[y] = exported[y]
<1>1. x \notin Tainted /\ exported[x] = Unexported
      /\ exported' = [exported EXCEPT ![x] = now]
  BY DEF Export, MayExport
<1>2. now # Unexported
  BY DEF Unexported
<1>3. QED
  BY <1>1, <1>2 DEF RestTyped, ExportTable

\* A claim, or a record, of a delivery is of one that was let out.
LEMMA BusinessStays ==
  ASSUME Sane, Business, [Next]_vars
  PROVE  Business'
<1>1. action \in ActionTable /\ RestTyped /\ Proposals \subseteq Acts
      /\ Records \subseteq Acts /\ Records \cap Proposals = {}
  BY SaneIs, GrantedWorkAssumption DEF RestTyped, Acts
<1>2. \A x \in Acts : Artifact[x] # "none" => Artifact[x] \in Artifacts
  BY GrantedWorkAssumption
<1>3. ASSUME \A x \in Acts : Stands(x)' => /\ Stands(x) /\ action'[x].at = action[x].at
                                           /\ action'[x].target = action[x].target,
             \A r \in Records : action'[r].status \in {"none", "completed"},
             UNCHANGED exported
      PROVE  Business'
  <2>1. DeliveriesKnown'
    BY <1>3 DEF Business, DeliveriesKnown
  <2>2. ClaimsCompatible'
    BY <1>1, <1>3 DEF Business, ClaimsCompatible, Compatible
  <2>3. QED
    BY <2>1, <2>2 DEF Business
<1>4. CASE UNCHANGED <<action, exported>>
  <2>1. \A x \in Acts : Stands(x)' => Stands(x)
    BY <1>4 DEF Stands
  <2>2. QED
    BY <1>3, <1>4, <2>1 DEF Business, DeliveriesKnown
<1>5. ASSUME NEW a \in Actors, NEW p \in Proposals, NEW target \in Targets,
             ClaimAction(a, p, target)
      PROVE  Business'
  <2> DEFINE row == [status |-> "claimed", at |-> Now(a), target |-> target,
                     minutes |-> 0]
  <2>1. /\ IsDeliverable(p) /\ MayContact(p, target, Now(a))
        /\ action' = [action EXCEPT ![p] = row] /\ exported' = exported
    BY <1>5 DEF ClaimAction, MayClaim, gates
  <2>2. action'[p] = row /\ \A x \in Acts \ {p} : action'[x] = action[x]
    <3> HIDE DEF row
    <3>1. QED
      BY <1>1, <2>1, ActionWrites
  <2>3. Now(a) \in Nat /\ p \notin Records
    BY <1>1 DEF Now, Sane, Typed, ActorTable
  <2>4. \A x \in Acts \ {p} : Stands(x)' = Stands(x)
    BY <2>2 DEF Stands
  <2>5. DeliveriesKnown'
    <3>1. \A r \in Records : action'[r].status \in {"none", "completed"}
      BY <1>1, <2>2, <2>3 DEF Business, DeliveriesKnown
    <3>2. Artifact[p] # "none" => exported'[Artifact[p]] # Unexported
      BY <2>1 DEF IsDeliverable
    <3>3. QED
      BY <1>1, <2>1, <2>2, <2>3, <2>4, <3>1, <3>2 DEF Business, DeliveriesKnown
  <2>6. ASSUME NEW y \in Proposals \ {p}, Stands(y)', KeyOf(y) = KeyOf(p),
               action'[y].target = action'[p].target,
               action'[p].at - action'[y].at <= Window
        PROVE  Compatible(p, y) /\ Compatible(y, p)
    <3>1. /\ Stands(y) /\ action[y].target = target
          /\ Now(a) - action[y].at <= Window
      BY <1>1, <2>2, <2>4, <2>6
    <3>2. QED
      BY <1>1, <2>1, <2>3, <2>6, <3>1, ClaimCompatible
  <2>7. \A x \in Proposals : action'[x].at \in Nat
    BY <1>1, <2>2, <2>3 DEF ActionTable, ActionRow
  <2>8. ASSUME NEW x \in Proposals, NEW y \in Proposals, Stands(x)', Stands(y)', x # y,
               KeyOf(x) = KeyOf(y), action'[x].target = action'[y].target,
               action'[x].at - action'[y].at \in 0 .. Window
        PROVE  Compatible(x, y)
    <3>1. CASE x = p
      BY <2>6, <2>7, <2>8, <3>1
    <3>2. CASE y = p
      <4>1. action'[p].at - action'[x].at <= Window
        BY <2>7, <2>8, <3>2, ApprovalsAssumption
      <4>2. QED
        BY <2>6, <2>8, <3>2, <4>1
    <3>3. CASE x # p /\ y # p
      BY <1>1, <2>2, <2>4, <2>8, <3>3 DEF Business, ClaimsCompatible
    <3>4. QED
      BY <3>1, <3>2, <3>3
  <2>9. ClaimsCompatible'
    BY <2>8 DEF ClaimsCompatible, Compatible
  <2>10. QED
    BY <2>5, <2>9 DEF Business
<1>6. ASSUME NEW p \in Proposals, NEW minutes \in Minutes, NEW isDamage \in BOOLEAN,
             CompleteAction(p, minutes, isDamage)
      PROVE  Business'
  <2>1. /\ action[p].status = "claimed" /\ UNCHANGED exported
        /\ action' = [action EXCEPT ![p].status = "completed", ![p].minutes = minutes]
    BY <1>6 DEF CompleteAction, gates
  <2>2. /\ action'[p].status = "completed" /\ action'[p].at = action[p].at
        /\ action'[p].target = action[p].target
        /\ \A x \in Acts \ {p} : action'[x] = action[x]
    BY <1>1, <2>1 DEF ActionTable, ActionRow
  <2>3. \A x \in Acts : Stands(x)' => Stands(x)
    BY <2>1, <2>2 DEF Stands
  <2>4. \A r \in Records : action'[r].status \in {"none", "completed"}
    BY <1>1, <2>2 DEF Business, DeliveriesKnown
  <2>5. QED
    BY <1>3, <2>1, <2>2, <2>3, <2>4
<1>7. ASSUME NEW p \in Proposals, AbandonAction(p) PROVE Business'
  <2>1. /\ action[p].status = "claimed" /\ UNCHANGED exported
        /\ action' = [action EXCEPT ![p].status = "abandoned"]
    BY <1>7 DEF AbandonAction, gates
  <2>2. /\ action'[p].status = "abandoned"
        /\ \A x \in Acts \ {p} : action'[x] = action[x]
    BY <1>1, <2>1 DEF ActionTable, ActionRow
  <2>3. \A x \in Acts : Stands(x)' => Stands(x) /\ action'[x] = action[x]
    BY <2>2 DEF Stands
  <2>4. \A r \in Records : action'[r].status \in {"none", "completed"}
    BY <1>1, <2>2 DEF Business, DeliveriesKnown
  <2>5. QED
    BY <1>3, <2>1, <2>3, <2>4
<1>8. ASSUME NEW r \in Records, NEW target \in Targets, NEW performed \in 0 .. clock,
             NEW isDamage \in BOOLEAN, RecordPerformed(r, target, performed, isDamage)
      PROVE  Business'
  <2> DEFINE row == [status |-> "completed", at |-> performed, target |-> target,
                     minutes |-> 0]
  <2>1. /\ WasExportedBy(Artifact[r], performed) /\ UNCHANGED exported
        /\ action' = [action EXCEPT ![r] = row]
    BY <1>8 DEF RecordPerformed, gates
  <2>2. action'[r] = row /\ \A x \in Acts \ {r} : action'[x] = action[x]
    <3> HIDE DEF row
    <3>1. QED
      BY <1>1, <2>1, ActionWrites
  <2>3. \A x \in Acts \ {r} : Stands(x)' = Stands(x)
    BY <2>2 DEF Stands
  <2>4. DeliveriesKnown'
    <3>1. \A s \in Records : action'[s].status \in {"none", "completed"}
      BY <1>1, <2>2 DEF Business, DeliveriesKnown
    <3>2. exported'[Artifact[r]] # Unexported /\ exported'[Artifact[r]] <= action'[r].at
      BY <2>1, <2>2 DEF WasExportedBy
    <3>3. QED
      BY <1>1, <2>1, <2>2, <2>3, <3>1, <3>2 DEF Business, DeliveriesKnown
  <2>5. \A x \in Proposals : Stands(x)' = Stands(x) /\ action'[x] = action[x]
    BY <1>1, <2>2, <2>3
  <2>6. ClaimsCompatible'
    BY <2>5 DEF Business, ClaimsCompatible, Compatible
  <2>7. QED
    BY <2>4, <2>6 DEF Business
<1>9. ASSUME NEW x \in Artifacts, NEW commercial \in BOOLEAN, NEW now \in 0 .. clock,
             Export(x, commercial, now)
      PROVE  Business'
  <2>1. UNCHANGED action
    BY <1>9 DEF Export, world
  <2>2. now \in Nat
    BY SaneIs, ApprovalsAssumption
  <2>3. /\ x \notin Tainted /\ exported'[x] # Unexported
        /\ \A y \in Artifacts : exported[y] # Unexported => exported'[y] = exported[y]
        /\ \A y \in Artifacts \ {x} : exported'[y] = exported[y]
    BY <1>1, <1>9, <2>2, ExportsStand
  <2>4. \A y \in Acts : Stands(y)' = Stands(y)
    BY <2>1 DEF Stands
  <2>5. DeliveriesKnown'
    BY <1>2, <2>1, <2>3, <2>4 DEF Business, DeliveriesKnown
  <2>6. ClaimsCompatible'
    BY <1>1, <2>1, <2>4 DEF Business, ClaimsCompatible, Compatible
  <2>7. QED
    BY <2>5, <2>6 DEF Business
<1>10. QED
  BY <1>4, <1>5, <1>6, <1>7, <1>8, <1>9, BusinessSteps

(***************************************************************************)
(* The colony is one business outside, whatever the order in which claims  *)
(* read the clock and took the lock, and nothing is delivered that a       *)
(* person had not let out (channel_registry.py:559, artifacts.py:663).     *)
(***************************************************************************)
THEOREM AlwaysOneBusiness == Spec => []OneBusiness
<1>1. Init => Business
  <2> SUFFICES ASSUME Init PROVE Business
    OBVIOUS
  <2>1. /\ \A x \in Acts : action[x].status = "none"
        /\ \A x \in Artifacts : exported[x] = Unexported
    BY DEF Init, NoAction
  <2>2. QED
    BY <2>1 DEF Business, DeliveriesKnown, ClaimsCompatible, Stands, Acts
<1>2. Sane /\ Business /\ [Next]_vars => Business'
  BY BusinessStays
<1>3. Business => OneBusiness
  <2> SUFFICES ASSUME Business PROVE OneBusiness
    OBVIOUS
  <2>1. \A x \in Acts : Artifact[x] # "none" => Artifact[x] \in Artifacts
    BY GrantedWorkAssumption
  <2>2. \A x \in Acts : action[x].status = "completed" => Stands(x)
    BY DEF Stands
  <2>3. QED
    BY <2>1, <2>2 DEF Business, DeliveriesKnown, ClaimsCompatible, Compatible, OneBusiness
<1>4. QED
  BY <1>1, <1>2, <1>3, AlwaysSane, PTL DEF Spec

-----------------------------------------------------------------------------
(* Batches. *)

\* What is still no more than one unread request may be.
LEMMA ExposureLow ==
  ASSUME NEW x \in Nat
  PROVE  ExposureTier(x) = Low <=> 2 * x < Alarm
<1>1. Alarm \in Nat \ {0}
  BY ApprovalsAssumption
<1>2. CASE x >= 4 * Alarm
  BY <1>1, <1>2 DEF ExposureTier, Low, Critical
<1>3. CASE x < 4 * Alarm /\ x >= Alarm
  BY <1>1, <1>3 DEF ExposureTier, Low, High
<1>4. CASE x < Alarm /\ 2 * x >= Alarm
  BY <1>1, <1>4 DEF ExposureTier, Low, Medium
<1>5. CASE 2 * x < Alarm
  BY <1>1, <1>5 DEF ExposureTier, Low
<1>6. QED
  BY <1>1, <1>2, <1>3, <1>4, <1>5

\* The cost of a set of proposals, and of part of it.
LEMMA CostsGrow ==
  ASSUME NEW S \in SUBSET Proposals, NEW P \in SUBSET S
  PROVE  /\ TotalCost(S) \in Nat /\ TotalCost(P) \in Nat
         /\ TotalCost(P) <= TotalCost(S)
<1>1. /\ IsFiniteSet(S) /\ IsFiniteSet(P)
      /\ \A q \in S : Cost[q] \in Nat
  BY ApprovalsAssumption, FS_Subset
<1>2. SumFunctionOnSet(Cost, S) \in Nat /\ SumFunctionOnSet(Cost, P) \in Nat
  BY <1>1, SumInt
<1>3. SumFunctionOnSet(Cost, P) <= SumFunctionOnSet(Cost, S)
  BY <1>1, SumOfPart
<1>4. QED
  BY <1>2, <1>3 DEF TotalCost

\* What a smaller set of requests may add up to.
LEMMA PartStaysLow ==
  ASSUME NEW S \in SUBSET Proposals, NEW P \in SUBSET S,
         ExposureTier(TotalCost(S)) = Low
  PROVE  ExposureTier(TotalCost(P)) = Low
<1>1. /\ TotalCost(S) \in Nat /\ TotalCost(P) \in Nat
      /\ TotalCost(P) <= TotalCost(S)
  BY CostsGrow
<1>2. Alarm \in Nat
  BY ApprovalsAssumption
<1>3. 2 * TotalCost(S) < Alarm
  BY <1>1, ExposureLow
<1>4. 2 * TotalCost(P) < Alarm
  BY <1>1, <1>2, <1>3
<1>5. QED
  BY <1>1, <1>4, ExposureLow

\* A new request that a batch may approve was assessed together with all that a
\* batch has approved, or may approve, in any window that holds it.
LEMMA QueueingKeepsLow ==
  ASSUME Sane, BatchesKnown, NEW p \in Proposals, Queues(p),
         NEW s \in Nat, NEW r \in Proposals
  PROVE  ExposureTier(TotalCost(BatchMay(s, r)')) = Low
<1>1. request \in RequestTable /\ clock \in Nat /\ Window \in Nat
  BY ApprovalsAssumption DEF Sane, Typed
<1>2. PICK selective \in BOOLEAN :
        request' = [request EXCEPT ![p] = NewRequest(p, selective)]
  BY DEF Queues
<1>3. /\ request'[p] = NewRequest(p, selective)
      /\ \A q \in Proposals \ {p} : request'[q] = request[q]
      /\ request[p].status = "absent"
  BY <1>1, <1>2 DEF RequestTable, Queues
<1>4. /\ request'[p].tier = AssessedTier(p, selective)
      /\ request'[p].created = clock
  BY <1>3 DEF NewRequest
<1>5. ExposureTier(TotalCost(BatchMay(s, r))) = Low
      /\ BatchMay(s, r) \in SUBSET Proposals
  BY DEF BatchesKnown, BatchMay
<1>6. BatchMay(s, r)' \in SUBSET Proposals
      /\ BatchMay(s, r)' \ {p} \subseteq BatchMay(s, r)
  BY <1>3 DEF BatchMay
<1>7. CASE p \notin BatchMay(s, r)'
  <2>1. BatchMay(s, r)' \in SUBSET BatchMay(s, r)
    BY <1>6, <1>7
  <2>2. QED
    BY <1>5, <2>1, PartStaysLow
<1>8. CASE p \in BatchMay(s, r)'
  <2> DEFINE S == BatchMay(s, r)'
             R == S \ {p}
  <2>1. /\ AggregationKey(p) = AggregationKey(r)
        /\ AssessedTier(p, selective) = Low /\ clock \in s .. s + Window
    BY <1>4, <1>8 DEF BatchMay
  <2>2. R \in SUBSET Prior(p)
    <3> SUFFICES ASSUME NEW q \in R PROVE q \in Prior(p)
      OBVIOUS
    <3>1. q \in BatchMay(s, r) /\ q \in Proposals
      BY <1>6
    <3>2. /\ AggregationKey(q) = AggregationKey(p)
          /\ request[q].status = "pending" \/ request[q].batched
          /\ request[q].created \in s .. s + Window
      BY <2>1, <3>1 DEF BatchMay
    <3>3. request[q].status \in {"pending", "approved"}
      BY <3>1, <3>2 DEF BatchesKnown
    <3>4. request[q].created >= clock - Window
      BY <1>1, <2>1, <3>2
    <3>5. QED
      BY <3>1, <3>2, <3>3, <3>4 DEF Prior
  <2> HIDE DEF S
  <2>3. p \in S /\ S \in SUBSET Proposals
    BY <1>6, <1>8 DEF S
  <2>4. TotalCost(S) = Cost[p] + TotalCost(R)
    <3>1. IsFiniteSet(S) /\ \A q \in S : Cost[q] \in Int
      BY <2>3, ApprovalsAssumption, FS_Subset
    <3>2. QED
      BY <2>3, <3>1, SumTakesOut DEF TotalCost
  <2>5. /\ TotalCost(R) <= TotalCost(Prior(p)) /\ TotalCost(R) \in Nat
        /\ TotalCost(Prior(p)) \in Nat /\ Cost[p] \in Nat
    BY <2>2, CostsGrow, ApprovalsAssumption DEF Prior
  <2>6. TotalCost(S) <= Exposure(p) /\ Exposure(p) \in Nat /\ TotalCost(S) \in Nat
    BY <2>4, <2>5 DEF Exposure
  <2>7. ExposureTier(Exposure(p)) = Low
    <3>1. ExposureTier(Exposure(p)) \in Tiers
      BY DEF ExposureTier, Tiers, Low, Medium, High, Critical
    <3>2. ExposureTier(Exposure(p)) <= KernelTier(p) /\ KernelTier(p) <= Low
          /\ KernelTier(p) \in Tiers
      BY <2>1, TiersAssessed
    <3>3. QED
      BY <3>1, <3>2 DEF Tiers, Low, Critical
  <2>8. 2 * Exposure(p) < Alarm
    BY <2>6, <2>7, ExposureLow
  <2>9. 2 * TotalCost(S) < Alarm
    BY <2>6, <2>8, ApprovalsAssumption
  <2>10. QED
    BY <2>6, <2>9, ExposureLow DEF S
<1>9. QED
  BY <1>7, <1>8

\* What is known of batches stays known when nothing is queued: the requests a
\* batch may have approved only become fewer.
LEMMA BatchesShrink ==
  ASSUME Sane, BatchesKnown, clock' \in Nat, clock <= clock',
         \A q \in Proposals :
           \/ request'[q] = request[q]
           \/ /\ request'[q].tier = request[q].tier
              /\ request'[q].created = request[q].created
              /\ request[q].status = "pending"
              /\ request'[q].status \in {"approved", "rejected", "expired"}
              /\ request'[q].batched =>
                   request'[q].status = "approved" /\ request[q].tier = Low,
         \A a \in Actors, q \in Proposals : Doing(a, {"batch"}, q)' =>
           \/ Doing(a, {"batch"}, q)
           \/ request[q].tier = Low /\ request[q].status # "absent"
  PROVE  BatchesKnown'
<1>1. request \in RequestTable /\ clock \in Nat
  BY ApprovalsAssumption DEF Sane, Typed
<1>2. ASSUME NEW s \in Nat, NEW p \in Proposals
      PROVE  ExposureTier(TotalCost(BatchMay(s, p)')) = Low
  <2>1. BatchMay(s, p)' \in SUBSET BatchMay(s, p)
    BY DEF BatchMay
  <2>2. BatchMay(s, p) \in SUBSET Proposals /\ ExposureTier(TotalCost(BatchMay(s, p))) = Low
    BY DEF BatchMay, BatchesKnown
  <2>3. QED
    BY <2>1, <2>2, PartStaysLow
<1>3. ASSUME NEW p \in Proposals PROVE request'[p].created <= clock'
  BY <1>1 DEF BatchesKnown, RequestTable, Requests
<1>4. ASSUME NEW p \in Proposals, request'[p].batched
      PROVE  request'[p].tier = Low /\ request'[p].status = "approved"
  BY <1>4 DEF BatchesKnown
<1>5. ASSUME NEW a \in Actors, NEW p \in Proposals, Doing(a, {"batch"}, p)'
      PROVE  request'[p].tier = Low /\ request'[p].status # "absent"
  BY <1>5 DEF BatchesKnown
<1>6. ASSUME NEW s \in Nat, NEW p \in Proposals
      PROVE  TotalCost(BatchMay(s, p))' = TotalCost(BatchMay(s, p)')
  BY DEF TotalCost
<1>7. QED
  BY <1>2, <1>3, <1>4, <1>5, <1>6 DEF BatchesKnown

\* What a batch is about to decide it found LOW and pending, before or now.
LEMMA BatchIsLow ==
  ASSUME Sane, BatchesKnown, [Next]_vars, NEW a \in Actors, NEW q \in Proposals,
         Doing(a, {"batch"}, q)'
  PROVE  Doing(a, {"batch"}, q) \/ (request[q].tier = Low /\ request[q].status # "absent")
<1>1. actor \in ActorTable
  BY DEF Sane, Typed
<1>2. actor'[a].op = "batch" /\ q \in actor'[a].todo
  BY DEF Doing
<1>3. CASE actor'[a] = actor[a]
  BY <1>2, <1>3 DEF Doing
<1>4. ASSUME NEW b \in Actors, Starts(b), actor'[a] # actor[a]
      PROVE  request[q].tier = Low /\ request[q].status = "pending"
  <2>1. PICK op \in QueueOps, todo \in SUBSET Proposals :
          /\ actor' = [actor EXCEPT ![b] = [op |-> op, now |-> clock, todo |-> todo]]
          /\ op = "batch" => todo \subseteq {p \in Pending : Batchable(p)}
    BY <1>4 DEF Starts
  <2>2. a = b /\ actor'[a] = [op |-> op, now |-> clock, todo |-> todo]
    BY <1>1, <1>4, <2>1, ActorWrites
  <2>3. q \in Pending /\ Batchable(q)
    BY <1>2, <2>1, <2>2
  <2>4. QED
    BY <2>3 DEF Pending, Batchable
<1>5. ASSUME NEW b \in Actors, Stops(b), actor'[a] # actor[a] PROVE FALSE
  BY <1>1, <1>2, <1>5, ActorWrites DEF Stops
<1>6. ASSUME NEW b \in Actors, NEW p \in Proposals, Decides(b, p),
             actor'[a] # actor[a]
      PROVE  Doing(a, {"batch"}, q)
  BY <1>1, <1>2, <1>6, ActorWrites DEF Decides, Doing
<1>7. ASSUME NEW b \in Actors, NEW p \in Proposals,
             Begins(b, p) \/ ClaimsCall(b, p) \/ Takes(b, p) \/ Reserves(b, p)
               \/ Sends(b, p),
             actor'[a] # actor[a]
      PROVE  FALSE
  <2>1. CASE Begins(b, p)
    <3>1. PICK op \in {"execute", "claim"} :
            actor' = [actor EXCEPT ![b] = [op |-> op, now |-> clock, todo |-> {p}]]
      BY <2>1 DEF Begins
    <3>2. actor'[a] = [op |-> op, now |-> clock, todo |-> {p}]
      BY <1>1, <1>7, <3>1, ActorWrites
    <3>3. QED
      BY <1>2, <3>2
  <2>2. CASE ClaimsCall(b, p) \/ Reserves(b, p)
    BY <1>1, <1>2, <1>7, <2>2, ActorWrites DEF ClaimsCall, Reserves
  <2>3. CASE Takes(b, p) \/ Sends(b, p)
    BY <1>1, <1>2, <1>7, <2>3, ActorWrites DEF Takes, Sends
  <2>4. QED
    BY <1>7, <2>1, <2>2, <2>3
<1>8. Rests \/ (\E p \in Proposals : Queues(p)) => actor' = actor
  BY DEF Rests, Queues
<1>9. QED
  BY <1>3, <1>4, <1>5, <1>6, <1>7, <1>8, StepKinds DEF ActorStep

\* What a decision leaves of every request.
LEMMA DecisionWrites ==
  ASSUME Sane, BatchesKnown, NEW a \in Actors, NEW p \in Proposals, Decides(a, p),
         NEW q \in Proposals
  PROVE  \/ request'[q] = request[q]
         \/ /\ request'[q].tier = request[q].tier
            /\ request'[q].created = request[q].created
            /\ request[q].status = "pending"
            /\ request'[q].status \in {"approved", "rejected", "expired"}
            /\ request'[q].batched =>
                 request'[q].status = "approved" /\ request[q].tier = Low
<1>1. /\ DOMAIN request = Proposals
      /\ \A r \in Proposals : DOMAIN request[r] =
           {"status", "tier", "flagged", "created", "expires", "batched"}
  BY DEF Sane, Typed, RequestTable, Requests
<1>2. CASE q # p
  BY <1>1, <1>2 DEF Decides, Approves, Refuses, Lapses
<1>3. CASE q = p /\ Approves(a, p)
  <2>1. /\ request[p].status = "pending" /\ request'[p].status = "approved"
        /\ request'[p].tier = request[p].tier
        /\ request'[p].created = request[p].created
        /\ request'[p].batched <=> actor[a].op = "batch"
    BY <1>1, <1>3 DEF Approves
  <2>2. actor[a].op = "batch" => request[p].tier = Low
    <3>1. actor[a].op = "batch" => Doing(a, {"batch"}, p)
      BY DEF Decides, Doing
    <3>2. QED
      BY <3>1 DEF BatchesKnown
  <2>3. QED
    BY <1>3, <2>1, <2>2
<1>4. CASE q = p /\ Refuses(p)
  <2>1. PICK s \in {"rejected", "expired"} : request' = [request EXCEPT ![p].status = s]
    BY <1>4 DEF Refuses
  <2>2. /\ request[p].status = "pending" /\ request'[p].status = s
        /\ request'[p].tier = request[p].tier
        /\ request'[p].created = request[p].created
        /\ request'[p].batched = request[p].batched
    BY <1>1, <1>4, <2>1 DEF Refuses
  <2>3. ~request[p].batched
    BY <2>2 DEF BatchesKnown
  <2>4. QED
    BY <1>4, <2>2, <2>3
<1>5. CASE q = p /\ UNCHANGED request
  BY <1>5
<1>6. QED
  BY <1>2, <1>3, <1>4, <1>5 DEF Decides, Lapses

\* What is known of batches stays known.
LEMMA BatchesStay ==
  ASSUME Sane, BatchesKnown, [Next]_vars PROVE BatchesKnown'
<1>1. request \in RequestTable /\ clock \in Nat /\ MaxClock \in Nat
  BY ApprovalsAssumption DEF Sane, Typed
<1>2. ASSUME clock' \in Nat, clock <= clock', UNCHANGED request PROVE BatchesKnown'
  BY <1>2, BatchIsLow, BatchesShrink
<1>3. CASE Rests
  BY <1>1, <1>2, <1>3 DEF Rests
<1>4. ASSUME NEW a \in Actors, Starts(a) \/ Stops(a) PROVE BatchesKnown'
  BY <1>1, <1>2, <1>4 DEF Starts, Stops
<1>5. ASSUME NEW a \in Actors, NEW p \in Proposals,
             Begins(a, p) \/ ClaimsCall(a, p) \/ Takes(a, p) \/ Reserves(a, p)
               \/ Sends(a, p)
      PROVE  BatchesKnown'
  BY <1>1, <1>2, <1>5 DEF Begins, ClaimsCall, Takes, Reserves, Sends
<1>6. ASSUME NEW a \in Actors, NEW p \in Proposals, Decides(a, p) PROVE BatchesKnown'
  <2>1. clock' = clock
    BY <1>6 DEF Decides
  <2>2. QED
    BY <1>1, <1>6, <2>1, DecisionWrites, BatchIsLow, BatchesShrink
<1>7. ASSUME NEW p \in Proposals, Queues(p) PROVE BatchesKnown'
  <2>1. PICK selective \in BOOLEAN :
          request' = [request EXCEPT ![p] = NewRequest(p, selective)]
    BY <1>7 DEF Queues
  <2>2. /\ request'[p] = NewRequest(p, selective)
        /\ \A q \in Proposals \ {p} : request'[q] = request[q]
        /\ request[p].status = "absent" /\ clock' = clock /\ actor' = actor
    BY <1>1, <1>7, <2>1 DEF RequestTable, Queues
  <2>3. request'[p].created = clock /\ ~request'[p].batched
    BY <2>2 DEF NewRequest
  <2>4. ASSUME NEW s \in Nat, NEW r \in Proposals
        PROVE  ExposureTier(TotalCost(BatchMay(s, r)))' = Low
    <3>1. ExposureTier(TotalCost(BatchMay(s, r)')) = Low
      BY <1>7, QueueingKeepsLow
    <3>2. TotalCost(BatchMay(s, r))' = TotalCost(BatchMay(s, r)')
      BY DEF TotalCost
    <3>3. QED
      BY <3>1, <3>2
  <2>5. \A q \in Proposals : request'[q].created <= clock'
    BY <1>1, <2>2, <2>3 DEF BatchesKnown
  <2>6. \A q \in Proposals :
          request'[q].batched => request'[q].tier = Low /\ request'[q].status = "approved"
    BY <2>2, <2>3 DEF BatchesKnown
  <2>7. ASSUME NEW a \in Actors, NEW q \in Proposals, Doing(a, {"batch"}, q)'
        PROVE  request'[q].tier = Low /\ request'[q].status # "absent"
    <3>1. request[q].tier = Low /\ request[q].status # "absent"
      BY <2>2, <2>7 DEF BatchesKnown, Doing
    <3>2. QED
      BY <2>2, <3>1
  <2>8. QED
    BY <2>4, <2>5, <2>6, <2>7 DEF BatchesKnown
<1>8. QED
  BY <1>3, <1>4, <1>5, <1>6, <1>7, StepKinds DEF ActorStep

\* At first no batch has approved anything, nor may.
LEMMA BatchesBegin == Init => BatchesKnown
<1> SUFFICES ASSUME Init PROVE BatchesKnown
  OBVIOUS
<1>1. /\ clock = 0
      /\ \A p \in Proposals :
           request[p] = IF p \in proposed THEN FirstRequest(p) ELSE NoRequest
      /\ actor = [a \in Actors |-> Idle]
  BY DEF Init, ApprovalInit
<1>2. \A p \in Proposals : /\ request[p].status # "pending" /\ ~request[p].batched
                           /\ request[p].created = 0
  <2>1. /\ NoRequest.status = "absent" /\ NoRequest.batched = FALSE
        /\ NoRequest.created = 0
    BY DEF NoRequest
  <2>2. \A p \in Proposals : /\ FirstRequest(p).status = "approved"
                            /\ FirstRequest(p).batched = FALSE
                            /\ FirstRequest(p).created = 0
    BY FirstRequestTyped
  <2>3. QED
    BY <1>1, <2>1, <2>2
<1>3. ASSUME NEW s \in Nat, NEW p \in Proposals
      PROVE  ExposureTier(TotalCost(BatchMay(s, p))) = Low
  <2>1. BatchMay(s, p) = {}
    BY <1>2 DEF BatchMay
  <2>2. TotalCost({}) = 0
    BY SumEmpty DEF TotalCost
  <2>3. 0 \in Nat /\ 2 * 0 < Alarm
    BY ApprovalsAssumption
  <2>4. QED
    BY <2>1, <2>2, <2>3, ExposureLow
<1>4. \A a \in Actors, p \in Proposals : ~Doing(a, {"batch"}, p)
  BY <1>1 DEF Doing, Idle
<1>5. QED
  BY <1>1, <1>2, <1>3, <1>4 DEF BatchesKnown

(***************************************************************************)
(* Splitting does not buy a batch: what batches approve unread of one      *)
(* aggregation key, queued within one window, stays below what would make  *)
(* one request MEDIUM, whoever queues, decides and sweeps meanwhile and    *)
(* however many operators there are (approval.py:248, batchable).          *)
(***************************************************************************)
THEOREM BatchesStayLow == Spec => []BatchedExposureStaysLow
<1>1. Sane /\ BatchesKnown => BatchedExposureStaysLow
  <2> SUFFICES ASSUME Sane, BatchesKnown, NEW p \in Proposals
               PROVE  ExposureTier(TotalCost(
                 {q \in Proposals :
                    /\ request[q].batched
                    /\ AggregationKey(q) = AggregationKey(p)
                    /\ request[q].created \in
                         request[p].created .. request[p].created + Window})) = Low
    BY DEF BatchedExposureStaysLow
  <2> DEFINE s == request[p].created
             Batch == {q \in Proposals :
                         /\ request[q].batched
                         /\ AggregationKey(q) = AggregationKey(p)
                         /\ request[q].created \in s .. s + Window}
  <2>1. s \in Nat
    BY DEF Sane, Typed, RequestTable, Requests
  <2>2. /\ Batch \in SUBSET BatchMay(s, p) /\ BatchMay(s, p) \in SUBSET Proposals
        /\ ExposureTier(TotalCost(BatchMay(s, p))) = Low
    BY <2>1 DEF BatchesKnown, BatchMay
  <2>3. QED
    BY <2>2, PartStaysLow
<1>2. Sane /\ BatchesKnown /\ [Next]_vars => BatchesKnown'
  BY BatchesStay
<1>3. QED
  BY <1>1, <1>2, BatchesBegin, AlwaysSane, PTL DEF Spec
=============================================================================
