---------------------------- MODULE Reservations ----------------------------
(***************************************************************************)
(* The reservation kernel as a component: every public verb of             *)
(* src/mitosis/reservations.py, the sweeper with the gateway's operation   *)
(* checker, direct metering, and the death of a Cell with the estate that  *)
(* follows it, called by any process in any order.  Each action is one     *)
(* committed transaction; a refused one rolls back and changes nothing.    *)
(***************************************************************************)
EXTENDS ReservationCore

CONSTANT Amounts   \* amounts callers ask to reserve, settle or meter

ASSUME AmountsAssumption == Amounts \subseteq Nat

VARIABLE db

vars == <<db>>

Init == db = EmptyDatabase

RequestReservation(r, amount) ==
  /\ MayRequest(db, r, amount)
  /\ db' = Request(db, r, amount)

SettleReservation(r, amount) ==
  /\ MaySettle(db, r, amount)
  /\ db' = Settle(db, r, amount)

ReleaseReservation(r) ==
  /\ MayRelease(db, r)
  /\ db' = Release(db, r)

MarkExecutionUnknown(r) ==
  /\ MayTransition(db, r, "execution_unknown")
  /\ db' = Mark(db, r, "execution_unknown")

MarkDisputed(r) ==
  /\ MayTransition(db, r, "disputed")
  /\ db' = Mark(db, r, "disputed")

MeterUsage(r, amount) ==
  /\ MayRecordUsage(db, r, amount)
  /\ db' = RecordUsage(db, r, amount)

-----------------------------------------------------------------------------
(* The sweeper's decision about an expired reservation. *)

\* sweeper.UnknownOperationChecker refined by gateway.GatewayOperationChecker.
OutcomeOf(r) ==
  CASE OperationOf[r] = "none" -> "not_happened"
    [] OperationOf[r] = "model_call" /\ BookOf[r] = "RESOURCE" ->
         IF db.metered[r] > 0 THEN "happened" ELSE "not_happened"
    [] OTHER -> "unknown"

\* `reserved` and past expires_at; any reservation may reach its deadline.
SweepExpired(r) ==
  /\ db.status[r] = "reserved"
  /\ db' = CASE OutcomeOf(r) = "not_happened" -> Release(db, r)
             [] OutcomeOf(r) = "happened" -> Settle(db, r, db.metered[r])
             [] OutcomeOf(r) = "unknown" -> Mark(db, r, "execution_unknown")

-----------------------------------------------------------------------------
KillCell(c) ==
  /\ db.alive[c]
  /\ db' = Kill(db, c)

ReclaimSettledEstate(c) ==
  /\ ~db.alive[c]
  /\ HasEstate(db, c)
  /\ db' = Reclaim(db, c)

\* Time passes: what reservation r has spent drops out of the sliding window.
SpendLeavesWindow(r) ==
  /\ db.aged[r] # db.paid[r] + db.direct[r]
  /\ db' = [db EXCEPT !.aged[r] = db.paid[r] + db.direct[r]]

Next ==
  \/ \E r \in Rids :
       \/ \E amount \in Amounts :
            \/ RequestReservation(r, amount)
            \/ SettleReservation(r, amount)
            \/ MeterUsage(r, amount)
       \/ ReleaseReservation(r)
       \/ MarkExecutionUnknown(r)
       \/ MarkDisputed(r)
       \/ SweepExpired(r)
       \/ SpendLeavesWindow(r)
  \/ \E c \in Cells : KillCell(c) \/ ReclaimSettledEstate(c)

Spec == Init /\ [][Next]_vars

-----------------------------------------------------------------------------
(* Properties. *)

\* Every table keeps its columns' types, estates and postings never negative.
TypeOK == db \in Databases

\* The balance the ledger derives for cell:{id}:committed is exactly what the
\* open reservation rows still hold, in every book: no path through the state
\* machine, the sweeper or an estate strands or double-frees committed money
\* (reservations.py, "either both happened or neither did", Charter C7).
CommittedIsHeld ==
  \A c \in Cells, b \in Books :
    Committed(db, c, b) =
      SumFunctionOnSet([r \in Rids |-> Held(db, r)],
                       {r \in Rids : CellOf[r] = c /\ BookOf[r] = b})

\* Charter C5: real spend in the window plus all the real money the ledger still
\* holds committed, in whatever status, never exceeds the caps, although what is
\* reserved in one window settles in another.
ExposureWithinCap ==
  LET committed == SumFunctionOnSet([r \in Rids |-> PostedToCommitted(db, r)],
                                    RealRids)
  IN  /\ committed <= ConcurrentCap
      /\ SettledSpendInWindow(db) + committed <= WindowCap

\* The abstract account a reservation row and its postings represent.
EscrowAccount(d, r) ==
  [phase    |-> IF d.status[r] = "absent" THEN "none"
                ELSE IF d.status[r] \in OpenStatuses THEN "open" ELSE "closed",
   held     |-> Held(d, r),
   paid     |-> d.paid[r],
   returned |-> d.returned[r]]

EscrowImpl ==
  INSTANCE Escrow WITH Holds <- Rids,
                       escrow <- [r \in Rids |-> EscrowAccount(db, r)]

\* The kernel implements an escrow: what is held is paid out or given back
\* exactly once, and a closed hold stays closed.
ImplementsEscrow == EscrowImpl!Spec
=============================================================================
