----------------------------- MODULE ModelCalls -----------------------------
(***************************************************************************)
(* The model gateway over the reservation kernel: callers running          *)
(* gateway.call_model, the provider they call, operators reconciling and   *)
(* disputing charges, the death of Cells, and `mitosis sweep`, each in a   *)
(* process of its own over one database.                                   *)
(*                                                                         *)
(* Every BEGIN IMMEDIATE .. COMMIT is one action; what a process read      *)
(* outside a transaction it keeps in its own state until it uses it.  A    *)
(* process may crash between any two of its steps.                         *)
(***************************************************************************)
EXTENDS ReservationCore

CONSTANTS
  Calls,             \* invocations of call_model, each with its own ids
  Keys, KeyOf,       \* the idempotency key each invocation was given
  NoCall, Prior,     \* the call whose reply this one follows up, or NoCall
  Estimates,         \* worst-case costs, also the RESOURCE budgets
  Costs,             \* what providers bill for a request that reaches them
  Invoices,          \* what they say they billed, when asked later
  MirrorMultiplier,
  Sweepers           \* processes running `mitosis sweep`

Real(a) == <<a, "real">>
Resource(a) == <<a, "resource">>

ASSUME CallsAssumption ==
  /\ Rids = {Real(a) : a \in Calls} \cup {Resource(a) : a \in Calls}
  /\ \A a \in Calls : /\ CellOf[Real(a)] = CellOf[Resource(a)]
                      /\ BookOf[Real(a)] = "USD_REAL"
                      /\ BookOf[Resource(a)] = "RESOURCE"
  /\ \A r \in Rids : OperationOf[r] = "model_call"
  /\ KeyOf \in [Calls -> Keys]
  /\ NoCall \notin Calls
  /\ Prior \in [Calls -> Calls \cup {NoCall}]
  /\ Estimates \subseteq Nat /\ Costs \subseteq Nat /\ Invoices \subseteq Nat
  /\ MirrorMultiplier \in Nat

VARIABLES
  db,        \* the kernel's tables
  row,       \* model_calls
  caller,    \* where each invocation is
  bill,      \* what the provider really billed for it
  expired,   \* calls whose reservations are past expires_at
  sweeper    \* what each sweep has read and still has to do

vars == <<db, row, caller, bill, expired, sweeper>>

RowStatuses == {"reserved", "succeeded", "failed", "execution_unknown"}
NoRow == [status |-> "absent", settled |-> 0, reconciled |-> FALSE,
          invoiced |-> 0]

Places == {"start", "checked", "one", "backout", "both", "calling",
           "replied", "refused", "unclear", "returned"}

Idle == [at |-> "idle", todo |-> {}]

Init ==
  /\ db = EmptyDatabase
  /\ row = [a \in Calls |-> NoRow]
  /\ caller = [a \in Calls |-> "start"]
  /\ bill = [a \in Calls |-> 0]
  /\ expired = {}
  /\ sweeper = [w \in Sweepers |-> Idle]

HasRow(a) == row[a].status # "absent"

\* Mutant: keys are not unique.
OwnRowOnly(a) == HasRow(a)

KeyTaken(a) == \E b \in Calls : KeyOf[b] = KeyOf[a] /\ HasRow(b)

Goto(a, place) == caller' = [caller EXCEPT ![a] = place]

-----------------------------------------------------------------------------
(* gateway.call_model. *)

\* The unlocked lookup of the key.  A first call follows deliberate's check that
\* the Cell is alive; a repair or workflow call follows a reply and no check.
MayBegin(a) ==
  IF Prior[a] = NoCall
  THEN db.alive[CellOf[Real(a)]]
  ELSE caller[Prior[a]] = "returned" /\ row[Prior[a]].status = "succeeded"

Begin(a) ==
  /\ caller[a] = "start"
  /\ MayBegin(a)
  /\ Goto(a, IF KeyTaken(a) THEN "returned" ELSE "checked")
  /\ UNCHANGED <<db, row, bill, expired, sweeper>>

ReserveReal(a, estimate) ==
  /\ caller[a] = "checked"
  /\ IF MayRequest(db, Real(a), estimate)
     THEN db' = Request(db, Real(a), estimate) /\ Goto(a, "one")
     ELSE Goto(a, "returned") /\ UNCHANGED db
  /\ UNCHANGED <<row, bill, expired, sweeper>>

ReserveResource(a, budget) ==
  /\ caller[a] = "one"
  /\ IF MayRequest(db, Resource(a), budget)
     THEN db' = Request(db, Resource(a), budget) /\ Goto(a, "both")
     ELSE Goto(a, "backout") /\ UNCHANGED db
  /\ UNCHANGED <<row, bill, expired, sweeper>>

\* No call will be made: the real money goes straight back.
Backout(a) ==
  /\ caller[a] = "backout"
  /\ db' = IF MayRelease(db, Real(a)) THEN Release(db, Real(a)) ELSE db
  /\ Goto(a, "returned")
  /\ UNCHANGED <<row, bill, expired, sweeper>>

\* model_calls.idempotency_key is UNIQUE; the loser's IntegrityError leaves
\* call_model with both of its reservations open.
InsertModelCall(a) ==
  /\ caller[a] = "both"
  /\ IF KeyTaken(a)
     THEN Goto(a, "returned") /\ UNCHANGED row
     ELSE /\ row' = [row EXCEPT ![a].status = "reserved"]
          /\ Goto(a, "calling")
  /\ UNCHANGED <<db, bill, expired, sweeper>>

\* The provider answers, refuses without billing, or fails so that nobody can
\* tell whether it billed.
ProviderReplies(a, cost) ==
  /\ caller[a] = "calling"
  /\ bill' = [bill EXCEPT ![a] = cost]
  /\ Goto(a, "replied")
  /\ UNCHANGED <<db, row, expired, sweeper>>

ProviderRefuses(a) ==
  /\ caller[a] = "calling"
  /\ Goto(a, "refused")
  /\ UNCHANGED <<db, row, bill, expired, sweeper>>

ProviderFailsUnclearly(a, cost) ==
  /\ caller[a] = "calling"
  /\ bill' = [bill EXCEPT ![a] = cost]
  /\ Goto(a, "unclear")
  /\ UNCHANGED <<db, row, expired, sweeper>>

\* The process dies; a request it had sent may still be billed.
CallerCrashes(a, cost) ==
  /\ caller[a] \notin {"start", "returned"}
  /\ Goto(a, "returned")
  /\ bill' = IF caller[a] = "calling" THEN [bill EXCEPT ![a] = cost] ELSE bill
  /\ UNCHANGED <<db, row, expired, sweeper>>

-----------------------------------------------------------------------------
(* Recording the outcome, one transaction each. *)

Smaller(x, y) == IF x < y THEN x ELSE y

\* What is beyond the reservation's cap is posted outside it.
PostDirect(d, r, amount) == [d EXCEPT !.direct[r] = @ + amount]

SettleReal(d, r, charge) ==
  PostDirect(SettleAndReleaseRemainder(d, r, Smaller(charge, d.maximum[r])),
             r, charge - Smaller(charge, d.maximum[r]))

MaySettleReal(d, r, charge) == MaySettle(d, r, Smaller(charge, d.maximum[r]))

MirrorToSim(d, a, cost) ==
  IF MirrorMultiplier * cost <= Cash(d, CellOf[Real(a)], "USD_SIM")
  THEN [d EXCEPT !.mirrored[Real(a)] = @ + MirrorMultiplier * cost]
  ELSE d

Meter(d, r, used) == IF used > 0 THEN RecordUsage(d, r, used) ELSE d

MayMeter(d, r, used) == used > 0 => MayRecordUsage(d, r, used)

\* used: shadow-priced tokens, cut off at what is left of the budget.
HandleSuccess(a, used) ==
  LET real == Real(a)
      resource == Resource(a)
      recordable ==
        /\ MaySettleReal(db, real, bill[a])
        /\ MayMeter(db, resource, used)
        /\ MaySettle(db, resource, used)
      charged == SettleReal(db, real, bill[a])
      metered == Meter(charged, resource, used)
      resolved == SettleAndReleaseRemainder(metered, resource, used)
  IN  /\ caller[a] = "replied"
      /\ used \in 0 .. db.maximum[resource]
      /\ IF recordable
         THEN /\ db' = MirrorToSim(resolved, a, bill[a])
              /\ row' = [row EXCEPT ![a].status = "succeeded",
                                    ![a].settled = bill[a]]
         ELSE UNCHANGED <<db, row>>
      /\ Goto(a, "returned")
      /\ UNCHANGED <<bill, expired, sweeper>>

HandleFailure(a) ==
  LET unknown == caller[a] = "unclear"
      recordable ==
        /\ MayTransition(db, Real(a),
                         IF unknown THEN "execution_unknown" ELSE "released")
        /\ MayRelease(db, Resource(a))
      decided == IF unknown THEN Mark(db, Real(a), "execution_unknown")
                 ELSE Release(db, Real(a))
  IN  /\ caller[a] \in {"refused", "unclear"}
      /\ IF recordable
         THEN /\ db' = Release(decided, Resource(a))
              /\ row' = [row EXCEPT ![a].status =
                           IF unknown THEN "execution_unknown" ELSE "failed"]
         ELSE UNCHANGED <<db, row>>
      /\ Goto(a, "returned")
      /\ UNCHANGED <<bill, expired, sweeper>>

-----------------------------------------------------------------------------
(* `mitosis sweep`: the reservation sweep, then stranded calls, then estates. *)

Expire(a) ==
  /\ a \notin expired
  /\ db.status[Real(a)] # "absent"
  /\ expired' = expired \cup {a}
  /\ UNCHANGED <<db, row, caller, bill, sweeper>>

Does(w, at, todo) == sweeper' = [sweeper EXCEPT ![w] = [at |-> at, todo |-> todo]]

ExpiredReserved ==
  {r \in Rids : r[1] \in expired /\ db.status[r] = "reserved"}

StartSweep(w) ==
  /\ sweeper[w].at = "idle"
  /\ Does(w, "holds", ExpiredReserved)
  /\ UNCHANGED <<db, row, caller, bill, expired>>

\* Mutant: an unmetered hold goes back, real or not.
VerdictByMetering(r) == IF db.metered[r] > 0 THEN "happened" ELSE "not_happened"

\* GatewayOperationChecker: a RESOURCE hold with nothing metered goes back, a
\* real one stays committed.  Usage is only ever metered by the transaction that
\* also closes the hold, so nothing this reads unlocked can change the verdict
\* of an open one; a hold that closed since the list was read makes the verb
\* raise, which ends the whole command.
Verdict(r) ==
  CASE BookOf[r] = "USD_REAL" -> "unknown"
    [] BookOf[r] # "USD_REAL" /\ db.metered[r] > 0 -> "happened"
    [] OTHER -> "not_happened"

MayResolveHold(r) ==
  CASE Verdict(r) = "unknown" -> MayTransition(db, r, "execution_unknown")
    [] Verdict(r) = "happened" -> MaySettle(db, r, db.metered[r])
    [] Verdict(r) = "not_happened" -> MayRelease(db, r)

ResolvedHold(r) ==
  CASE Verdict(r) = "unknown" -> Mark(db, r, "execution_unknown")
    [] Verdict(r) = "happened" -> Settle(db, r, db.metered[r])
    [] Verdict(r) = "not_happened" -> Release(db, r)

SweepHold(w, r) ==
  /\ sweeper[w].at = "holds" /\ r \in sweeper[w].todo
  /\ IF MayResolveHold(r)
     THEN db' = ResolvedHold(r) /\ Does(w, "holds", sweeper[w].todo \ {r})
     ELSE Does(w, "idle", {}) /\ UNCHANGED db
  /\ UNCHANGED <<row, caller, bill, expired>>

\* The status a stranded row is about to get, from its reservation's.
StrandedStatus(a) ==
  IF db.status[Real(a)] = "released" THEN "failed" ELSE "execution_unknown"

\* Mutant: only rows whose hold was released.
StrandedByRelease ==
  {a \in Calls : row[a].status = "reserved" /\ db.status[Real(a)] = "released"}

StrandedCalls ==
  {a \in Calls : row[a].status = "reserved" /\ db.status[Real(a)] # "reserved"}

SelectStranded(w) ==
  /\ sweeper[w] = [at |-> "holds", todo |-> {}]
  /\ Does(w, "calls", {<<a, StrandedStatus(a)>> : a \in StrandedCalls})
  /\ UNCHANGED <<db, row, caller, bill, expired>>

\* Mutant: the UPDATE trusts the list read before the lock.
ListedAsStranded(a) == TRUE

\* The UPDATE re-checks status = 'reserved' under the lock.
StillStranded(a) == row[a].status = "reserved"

ResolveStranded(w, a, status) ==
  /\ sweeper[w].at = "calls" /\ <<a, status>> \in sweeper[w].todo
  /\ row' = IF StillStranded(a)
            THEN [row EXCEPT ![a].status = status] ELSE row
  /\ Does(w, "calls", sweeper[w].todo \ {<<a, status>>})
  /\ UNCHANGED <<db, caller, bill, expired>>

SelectEstates(w) ==
  /\ sweeper[w] = [at |-> "calls", todo |-> {}]
  /\ Does(w, "estates", {c \in Cells : ~db.alive[c]})
  /\ UNCHANGED <<db, row, caller, bill, expired>>

SettleEstate(w, c) ==
  /\ sweeper[w].at = "estates" /\ c \in sweeper[w].todo
  /\ db' = IF HasEstate(db, c) THEN Reclaim(db, c) ELSE db
  /\ Does(w, "estates", sweeper[w].todo \ {c})
  /\ UNCHANGED <<row, caller, bill, expired>>

FinishSweep(w) ==
  /\ sweeper[w] = [at |-> "estates", todo |-> {}]
  /\ Does(w, "idle", {})
  /\ UNCHANGED <<db, row, caller, bill, expired>>

SweeperCrashes(w) ==
  /\ sweeper[w].at # "idle"
  /\ Does(w, "idle", {})
  /\ UNCHANGED <<db, row, caller, bill, expired>>

-----------------------------------------------------------------------------
(* Operators. *)

InvoiceableStatuses == {"reserved", "execution_unknown", "disputed"}

\* reconciliation._resolve_open_reservation.  A disputed hold comes off and the
\* agreed figure is charged beside it.
ResolveOpen(d, r, invoiced) ==
  CASE invoiced = 0 -> Release(d, r)
    [] invoiced > 0 /\ d.status[r] = "disputed" ->
         PostDirect(Release(d, r), r, invoiced)
    [] OTHER -> SettleReal(d, r, invoiced)

\* What an invoice changes of a charge already settled, either way.
PostAdjustment(d, r, delta) == PostDirect(d, r, delta)

\* Mutant: a call can be reconciled again.
MayReconcileAgain(a) == HasRow(a)

MayReconcile(a) == HasRow(a) /\ ~row[a].reconciled

Reconcile(a, invoiced) ==
  LET open == db.status[Real(a)] \in InvoiceableStatuses
  IN  /\ MayReconcile(a)
      /\ db' = IF open
               THEN ResolveOpen(db, Real(a), invoiced)
               ELSE PostAdjustment(db, Real(a), invoiced - row[a].settled)
      /\ row' = [row EXCEPT ![a].reconciled = TRUE,
                            ![a].invoiced = invoiced,
                            ![a].settled = IF open THEN invoiced ELSE @]
      /\ UNCHANGED <<caller, bill, expired, sweeper>>

Dispute(a) ==
  /\ HasRow(a)
  /\ MayTransition(db, Real(a), "disputed")
  /\ db' = Mark(db, Real(a), "disputed")
  /\ UNCHANGED <<row, caller, bill, expired, sweeper>>

cmd_reconcile == \E a \in Calls, invoiced \in Invoices : Reconcile(a, invoiced)

cmd_dispute == \E a \in Calls : Dispute(a)

KillCell(c) ==
  /\ db.alive[c]
  /\ db' = Kill(db, c)
  /\ UNCHANGED <<row, caller, bill, expired, sweeper>>

-----------------------------------------------------------------------------
CallStep(a) ==
  \/ Begin(a)
  \/ \E estimate \in Estimates :
       ReserveReal(a, estimate) \/ ReserveResource(a, estimate)
  \/ Backout(a)
  \/ InsertModelCall(a)
  \/ \E cost \in Costs : ProviderReplies(a, cost)
  \/ \E cost \in Costs \cup {0} : ProviderFailsUnclearly(a, cost)
  \/ ProviderRefuses(a)
  \/ \E used \in 0 .. db.maximum[Resource(a)] : HandleSuccess(a, used)
  \/ HandleFailure(a)

\* What `mitosis sweep` does when nothing stops it.
cmd_sweep(w) ==
  \/ StartSweep(w)
  \/ \E r \in Rids : SweepHold(w, r)
  \/ SelectStranded(w)
  \/ \E a \in Calls, s \in RowStatuses : ResolveStranded(w, a, s)
  \/ SelectEstates(w)
  \/ \E c \in Cells : SettleEstate(w, c)
  \/ FinishSweep(w)

Next ==
  \/ \E a \in Calls :
       \/ CallStep(a)
       \/ \E cost \in Costs \cup {0} : CallerCrashes(a, cost)
       \/ Expire(a)
  \/ cmd_reconcile
  \/ cmd_dispute
  \/ \E w \in Sweepers : cmd_sweep(w) \/ SweeperCrashes(w)
  \/ \E c \in Cells : KillCell(c)

\* Time passes, and one operator's sweeps are run again and again without always
\* crashing at the same step; other sweeps may stop anywhere.  Nothing is assumed
\* of callers, providers or reconciliation.
SweepsAreRerun(w) ==
  /\ SF_vars(StartSweep(w))
  /\ SF_vars(\E r \in Rids : SweepHold(w, r))
  /\ SF_vars(SelectStranded(w))
  /\ SF_vars(\E a \in Calls, s \in RowStatuses : ResolveStranded(w, a, s))
  /\ SF_vars(SelectEstates(w))
  /\ SF_vars(\E c \in Cells : SettleEstate(w, c))
  /\ SF_vars(FinishSweep(w))

Fairness ==
  /\ \A a \in Calls : WF_vars(Expire(a))
  /\ SweepsAreRerun(CHOOSE w \in Sweepers : TRUE)

Spec == Init /\ [][Next]_vars
FairSpec == Spec /\ Fairness

-----------------------------------------------------------------------------
(* Properties. *)

\* Every table and every process keeps its type.
TypeOK ==
  /\ db \in Databases
  /\ row \in [Calls -> [status : RowStatuses \cup {"absent"}, settled : Nat,
                       reconciled : BOOLEAN, invoiced : Nat]]
  /\ caller \in [Calls -> Places]
  /\ bill \in [Calls -> Nat]
  /\ expired \subseteq Calls
  /\ \A w \in Sweepers :
       /\ sweeper[w].at \in {"idle", "holds", "calls", "estates"}
       /\ sweeper[w].at = "idle" => sweeper[w].todo = {}

\* What the ledger charged a Cell for a call, inside and outside its hold.
Charged(a) == db.paid[Real(a)] + db.direct[Real(a)]

\* The ledger never says anything but what is known of a call's cost: the
\* invoice once it is reconciled, the reported cost once it succeeded, nothing
\* before; whatever crashed, swept, disputed or answered late in between.
ChargeIsTrue ==
  \A a \in Calls :
    Charged(a) = CASE row[a].reconciled -> row[a].invoiced
                   [] ~row[a].reconciled /\ row[a].status = "succeeded" -> bill[a]
                   [] OTHER -> 0

\* Charter C7: money a provider billed is never given back by guesswork.  Until
\* an invoice says otherwise its hold stays open, or the bill has been paid.
BilledIsNeverForgiven ==
  \A a \in Calls :
    bill[a] > 0 /\ ~row[a].reconciled =>
      \/ db.status[Real(a)] \in OpenStatuses
      \/ row[a].status = "succeeded" /\ Charged(a) = bill[a]

\* Replaying an idempotency key never pays a provider twice, even when both
\* invocations looked the key up before either had inserted its row.
KeyPaidOnce ==
  \A a, b \in Calls :
    a # b /\ KeyOf[a] = KeyOf[b] => bill[a] = 0 \/ bill[b] = 0

\* A recorded outcome is never rewritten: not by a handler that comes back
\* after a sweep has resolved its row, not by a sweep whose list is stale.
OutcomesStay ==
  [][\A a \in Calls : row[a].status \in {"succeeded", "failed"} =>
       row'[a].status = row[a].status]_vars

\* Whoever crashed, sweeping resolves in the end: no call stays in flight for
\* ever, and money that comes back to a dead Cell reaches the treasury.
SweepingResolves ==
  /\ \A a \in Calls : row[a].status = "reserved" ~> row[a].status # "reserved"
  /\ \A c \in Cells, b \in Books :
       ~db.alive[c] /\ Cash(db, c, b) > 0 ~> Cash(db, c, b) <= 0
=============================================================================
