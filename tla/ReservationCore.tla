--------------------------- MODULE ReservationCore ---------------------------
(***************************************************************************)
(* The money kernel of MITOSIS: the tables `reservations`,                 *)
(* `ledger_transactions`/`ledger_entries`, `resource_usage` and the part   *)
(* of `cells` they need, and the locked cores (the `_x_locked` functions)  *)
(* that src/mitosis/reservations.py, lifecycle.py, resource_metering.py    *)
(* and real_spend_breaker.py run inside one BEGIN IMMEDIATE transaction.   *)
(*                                                                         *)
(* The module has no variables.  A database is a record d; a locked core   *)
(* is an operator from a database to a database and its precondition (the  *)
(* exceptions it raises, which roll the transaction back) is a predicate   *)
(* named May....  A transaction that calls several cores is the            *)
(* composition of their operators, which is how ModelCalls builds the      *)
(* gateway's.                                                              *)
(*                                                                         *)
(* The ledger is append-only and every entry's idempotency key names the   *)
(* operation it belongs to, so it is kept as what has been posted for each *)
(* reservation; balances are derived from it and never stored, as in       *)
(* ledger.get_balance.                                                     *)
(***************************************************************************)
EXTENDS Integers, FiniteSets, Functions

CONSTANTS
  Cells,          \* cell ids
  Rids,           \* reservation ids (also stand for their idempotency keys)
  CellOf,         \* the Cell each reservation belongs to
  BookOf,         \* the book it is denominated in
  OperationOf,    \* its external_operation_type, "none" when there is none
  Funding,        \* cash a Cell was funded with, per book
  PerRequestCap,  \* real-spend limits (Charter C5), in minor units
  ConcurrentCap,
  WindowCap       \* the hour/day/month caps, as one window

Books == {"USD_REAL", "USD_SIM", "RESOURCE"}

ASSUME CoreAssumption ==
  /\ IsFiniteSet(Rids)
  /\ CellOf \in [Rids -> Cells]
  /\ BookOf \in [Rids -> Books]
  /\ OperationOf \in [Rids -> {"none", "model_call", "tool_call",
                             "external_action"}]
  /\ Funding \in [Cells -> [Books -> Nat]]
  /\ PerRequestCap \in Nat
  /\ ConcurrentCap \in Nat
  /\ WindowCap \in Nat

(***************************************************************************)
(* The reservation state machine.  "absent" is a row that does not exist.  *)
(***************************************************************************)
OpenStatuses ==
  {"reserved", "execution_unknown", "partially_settled", "disputed"}
Statuses == OpenStatuses \cup {"settled", "released"}

\* Mutant: a released reservation may still be settled.
ReleasedMaySettle(s) ==
  CASE s \in {"reserved", "execution_unknown"} ->
         {"settled", "partially_settled", "released", "execution_unknown"}
    [] s \in {"partially_settled", "disputed"} -> {"settled", "released"}
    [] s = "released" -> {"settled"}
    [] OTHER -> {}

AllowedTransitions(s) ==
  CASE s = "reserved" ->
         {"settled", "partially_settled", "released", "execution_unknown"}
    [] s = "execution_unknown" ->
         {"settled", "partially_settled", "released", "disputed"}
    [] s = "partially_settled" -> {"released"}
    [] s = "disputed" -> {"settled", "released"}
    [] OTHER -> {}

(***************************************************************************)
(* A database.  maximum is also what `reservation_reserve` posted, paid    *)
(* and returned what `reservation_settle` and `reservation_release`        *)
(* posted; direct is the signed external charge posted outside the         *)
(* reservation (cost overrun, reconciliation adjustment), mirrored its     *)
(* USD_SIM shadow, metered the `resource_usage` total, aged the real spend *)
(* that has left the breaker's window, estate the cash a dead Cell gave    *)
(* back to colony_treasury.                                                *)
(***************************************************************************)
Databases ==
  [status   : [Rids -> Statuses \cup {"absent"}],
   maximum  : [Rids -> Nat],
   settled  : [Rids -> Nat],
   paid     : [Rids -> Nat],
   returned : [Rids -> Nat],
   metered  : [Rids -> Nat],
   direct   : [Rids -> Int],
   mirrored : [Rids -> Nat],
   aged     : [Rids -> Int],
   estate   : [Cells -> [Books -> Nat]],
   alive    : [Cells -> BOOLEAN]]

EmptyDatabase ==
  [status   |-> [r \in Rids |-> "absent"],
   maximum  |-> [r \in Rids |-> 0],
   settled  |-> [r \in Rids |-> 0],
   paid     |-> [r \in Rids |-> 0],
   returned |-> [r \in Rids |-> 0],
   metered  |-> [r \in Rids |-> 0],
   direct   |-> [r \in Rids |-> 0],
   mirrored |-> [r \in Rids |-> 0],
   aged     |-> [r \in Rids |-> 0],
   estate   |-> [c \in Cells |-> [b \in Books |-> 0]],
   alive    |-> [c \in Cells |-> TRUE]]

-----------------------------------------------------------------------------
(* Balances, derived from the postings (Charter C3). *)

\* What operation r has taken out of its Cell's cash in book b.
TakenFromCash(d, r, b) ==
  (IF BookOf[r] = b THEN d.maximum[r] - d.returned[r] ELSE 0)
  + (IF b = "USD_REAL" THEN d.direct[r] ELSE 0)
  + (IF b = "USD_SIM" THEN d.mirrored[r] ELSE 0)

Cash(d, c, b) ==
  Funding[c][b] - d.estate[c][b]
  - SumFunctionOnSet([r \in Rids |-> TakenFromCash(d, r, b)],
                     {r \in Rids : CellOf[r] = c})

\* What the ledger holds in cell:{c}:committed for reservation r.
PostedToCommitted(d, r) == d.maximum[r] - d.paid[r] - d.returned[r]

Committed(d, c, b) ==
  SumFunctionOnSet([r \in Rids |-> PostedToCommitted(d, r)],
                   {r \in Rids : CellOf[r] = c /\ BookOf[r] = b})

\* What reservation r's own row says is still held.
Held(d, r) ==
  IF d.status[r] \in OpenStatuses THEN d.maximum[r] - d.settled[r] ELSE 0

(***************************************************************************)
(* The real-spend breaker: settled spend in the window plus everything     *)
(* still reserved, plus the new request, must stay under the cap.          *)
(***************************************************************************)
RealRids == {r \in Rids : BookOf[r] = "USD_REAL"}

\* Mutant: holds whose outcome is unknown do not count.
ReservedOnly(d) ==
  SumFunctionOnSet([r \in Rids |-> IF d.status[r] = "reserved"
                                   THEN d.maximum[r] ELSE 0], RealRids)

ConcurrentReserved(d) ==
  SumFunctionOnSet([r \in Rids |-> Held(d, r)], RealRids)

SettledSpendInWindow(d) ==
  SumFunctionOnSet([r \in Rids |-> d.paid[r] + d.direct[r] - d.aged[r]],
                   RealRids)

BreakerAllows(d, amount) ==
  /\ amount <= PerRequestCap
  /\ ConcurrentReserved(d) + amount <= ConcurrentCap
  /\ SettledSpendInWindow(d) + ConcurrentReserved(d) + amount <= WindowCap

-----------------------------------------------------------------------------
(* The locked cores of reservations.py. *)

MayTransition(d, r, s) == s \in AllowedTransitions(d.status[r])

MayRequest(d, r, amount) ==
  /\ d.status[r] = "absent"
  /\ amount > 0
  /\ BookOf[r] = "USD_REAL" => BreakerAllows(d, amount)
  /\ amount <= Cash(d, CellOf[r], BookOf[r])

Request(d, r, amount) ==
  [d EXCEPT !.status[r] = "reserved", !.maximum[r] = amount]

SettledStatus(d, r, amount) ==
  IF amount = d.maximum[r] THEN "settled" ELSE "partially_settled"

\* Mutant: a settlement may exceed what was reserved.
MaySettleUncapped(d, r, amount) ==
  MayTransition(d, r, SettledStatus(d, r, amount))

MaySettle(d, r, amount) ==
  /\ amount \in 0 .. d.maximum[r]
  /\ MayTransition(d, r, SettledStatus(d, r, amount))

Settle(d, r, amount) ==
  [d EXCEPT !.status[r] = SettledStatus(d, r, amount),
            !.settled[r] = amount,
            !.paid[r] = @ + amount]

MayRelease(d, r) == MayTransition(d, r, "released")

\* Mutant: gives back the whole maximum, also after a partial settlement.
ReleaseWhole(d, r) ==
  [d EXCEPT !.status[r] = "released", !.returned[r] = @ + d.maximum[r]]

Release(d, r) ==
  [d EXCEPT !.status[r] = "released",
            !.returned[r] = @ + (d.maximum[r] - d.settled[r])]

Mark(d, r, s) == [d EXCEPT !.status[r] = s]

SettleAndReleaseRemainder(d, r, amount) ==
  IF amount < d.maximum[r]
  THEN Release(Settle(d, r, amount), r)
  ELSE Settle(d, r, amount)

-----------------------------------------------------------------------------
(* The locked core of resource_metering.record_usage. *)

MayRecordUsage(d, r, amount) ==
  /\ amount > 0
  /\ BookOf[r] = "RESOURCE"
  /\ d.status[r] = "reserved"
  /\ d.metered[r] + amount <= d.maximum[r]

RecordUsage(d, r, amount) == [d EXCEPT !.metered[r] = @ + amount]

-----------------------------------------------------------------------------
(* Death and the estate (lifecycle.py). *)

\* Open reservations nothing outside the colony can still bill against.
ReleasableAtDeath(d, c) ==
  {r \in Rids : /\ CellOf[r] = c
                /\ d.status[r] \in OpenStatuses
                /\ OperationOf[r] = "none"}

ReleaseAll(d, S) ==
  [d EXCEPT
     !.status = [r \in Rids |-> IF r \in S THEN "released" ELSE d.status[r]],
     !.returned = [r \in Rids |->
                     IF r \in S THEN d.returned[r] + (d.maximum[r] - d.settled[r])
                     ELSE d.returned[r]]]

\* Mutant: a debt is "reclaimed" too.
ReturnCashAndDebt(d, c) ==
  [d EXCEPT !.estate[c] =
     [b \in Books |-> d.estate[c][b] + Cash(d, c, b)]]

\* A positive residue goes back to the treasury; a debt is left in place.
ReturnCash(d, c) ==
  [d EXCEPT !.estate[c] =
     [b \in Books |-> IF Cash(d, c, b) \in Nat
                      THEN d.estate[c][b] + Cash(d, c, b)
                      ELSE d.estate[c][b]]]

Reclaim(d, c) == ReturnCash(ReleaseAll(d, ReleasableAtDeath(d, c)), c)

Kill(d, c) == Reclaim([d EXCEPT !.alive[c] = FALSE], c)

\* Mutant: only open reservations make an estate worth visiting.
HasOpenHold(d, c) ==
  \E r \in Rids : CellOf[r] = c /\ d.status[r] \in OpenStatuses

HasEstate(d, c) ==
  \/ \E r \in Rids : CellOf[r] = c /\ d.status[r] \in OpenStatuses
  \/ \E b \in Books : Cash(d, c, b) > 0

-----------------------------------------------------------------------------
(***************************************************************************)
(* A reservation's postings agree with its status: what was reserved is    *)
(* what was paid out, plus what was given back, plus what is still held.   *)
(* What has been metered against it fits in it.                            *)
(***************************************************************************)
Balanced(status, maximum, settled, paid, returned, metered) ==
  /\ metered <= maximum
  /\ paid = settled
  /\ status = "absent" => maximum = 0
  /\ status # "absent" => maximum > 0
  /\ status \in {"absent", "reserved", "execution_unknown", "disputed"} =>
       settled = 0 /\ returned = 0
  /\ status = "partially_settled" => settled < maximum /\ returned = 0
  /\ status = "settled" => settled = maximum /\ returned = 0
  /\ status = "released" => settled + returned = maximum

HoldBalanced(d, r) ==
  Balanced(d.status[r], d.maximum[r], d.settled[r], d.paid[r], d.returned[r],
           d.metered[r])

HoldsBalanced(d) == \A r \in Rids : HoldBalanced(d, r)
=============================================================================
