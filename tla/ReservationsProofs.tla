-------------------------- MODULE ReservationsProofs --------------------------
(***************************************************************************)
(* What every client of the reservation kernel may rely on, for any set of *)
(* Cells, reservations, amounts and limits.                                *)
(***************************************************************************)
EXTENDS Reservations, SumTheorems

-----------------------------------------------------------------------------
(* Each locked core turns a well-typed, balanced database into another.  A   *)
(* transaction composes cores, so it inherits the result from the lemmas of  *)
(* the cores it calls, whichever module composes it.                         *)

\* A database whose columns have their types and whose holds all balance.
Sound(d) == d \in Databases /\ HoldsBalanced(d)

\* Two databases with the same row and postings for reservation q.
SameHold(d, e, q) ==
  /\ e.status[q] = d.status[q]
  /\ e.maximum[q] = d.maximum[q]
  /\ e.settled[q] = d.settled[q]
  /\ e.paid[q] = d.paid[q]
  /\ e.returned[q] = d.returned[q]
  /\ e.metered[q] = d.metered[q]

\* The types of one reservation's columns.
LEMMA RowTypes ==
  ASSUME NEW d \in Databases, NEW r \in Rids
  PROVE  /\ d.status[r] \in Statuses \cup {"absent"}
         /\ d.maximum[r] \in Nat
         /\ d.settled[r] \in Nat
         /\ d.paid[r] \in Nat
         /\ d.returned[r] \in Nat
         /\ d.metered[r] \in Nat
  BY DEF Databases

\* An update that leaves every other reservation alone and balances the one it
\* touches keeps the database sound.
LEMMA RowUpdateSound ==
  ASSUME NEW d, NEW e \in Databases, NEW r \in Rids, Sound(d),
         \A q \in Rids \ {r} : SameHold(d, e, q),
         HoldBalanced(e, r)
  PROVE  Sound(e)
<1>1. ASSUME NEW q \in Rids, q # r PROVE HoldBalanced(e, q)
  BY <1>1 DEF Sound, HoldsBalanced, HoldBalanced, SameHold
<1>2. QED
  BY <1>1 DEF Sound, HoldsBalanced

\* The empty database is sound.
LEMMA EmptySound == Sound(EmptyDatabase)
<1>1. EmptyDatabase \in Databases
  BY DEF Databases, EmptyDatabase
<1>2. ASSUME NEW r \in Rids PROVE HoldBalanced(EmptyDatabase, r)
  BY DEF EmptyDatabase, HoldBalanced, Balanced
<1>3. QED
  BY <1>1, <1>2 DEF Sound, HoldsBalanced

\* Opening a reservation keeps a database sound (reservations._request_locked).
LEMMA RequestSound ==
  ASSUME NEW d, Sound(d), NEW r \in Rids, NEW amount \in Nat,
         MayRequest(d, r, amount)
  PROVE  Sound(Request(d, r, amount))
<1> DEFINE e == Request(d, r, amount)
<1>1. d \in Databases /\ HoldBalanced(d, r)
  BY DEF Sound, HoldsBalanced
<1>2. /\ e.status = [d.status EXCEPT ![r] = "reserved"]
      /\ e.maximum = [d.maximum EXCEPT ![r] = amount]
      /\ e.settled = d.settled /\ e.paid = d.paid /\ e.returned = d.returned
      /\ e.metered = d.metered
      /\ e = [d EXCEPT !.status = e.status, !.maximum = e.maximum]
  BY <1>1 DEF Databases, Request
<1>3. /\ e.status \in [Rids -> Statuses \cup {"absent"}]
      /\ e.maximum \in [Rids -> Nat]
  BY <1>1, <1>2 DEF Databases, Statuses, OpenStatuses
<1> HIDE DEF e
<1>4. e \in Databases
  BY <1>1, <1>2, <1>3 DEF Databases
<1>5. \A q \in Rids \ {r} : SameHold(d, e, q)
  BY <1>1, <1>2 DEF Databases, SameHold
<1>6. HoldBalanced(e, r)
  <2>1. /\ e.status[r] = "reserved" /\ e.maximum[r] = amount
        /\ e.settled[r] = d.settled[r] /\ e.paid[r] = d.paid[r]
        /\ e.returned[r] = d.returned[r] /\ e.metered[r] = d.metered[r]
    BY <1>1, <1>2 DEF Databases
  <2>2. amount > 0 /\ d.status[r] = "absent"
    BY DEF MayRequest
  <2>3. QED
    BY <1>1, <2>1, <2>2, RowTypes DEF HoldBalanced, Balanced
<1>7. QED
  BY <1>4, <1>5, <1>6, RowUpdateSound DEF e

\* So does settling one, in full or in part (reservations._settle_locked).
LEMMA SettleSound ==
  ASSUME NEW d, Sound(d), NEW r \in Rids, NEW amount \in Nat,
         MaySettle(d, r, amount)
  PROVE  Sound(Settle(d, r, amount))
<1> DEFINE e == Settle(d, r, amount)
           s == SettledStatus(d, r, amount)
<1>1. d \in Databases /\ HoldBalanced(d, r)
  BY DEF Sound, HoldsBalanced
<1>2. /\ e.status = [d.status EXCEPT ![r] = s]
      /\ e.settled = [d.settled EXCEPT ![r] = amount]
      /\ e.paid = [d.paid EXCEPT ![r] = d.paid[r] + amount]
      /\ e.maximum = d.maximum /\ e.returned = d.returned
      /\ e.metered = d.metered
      /\ e = [d EXCEPT !.status = e.status, !.settled = e.settled,
                       !.paid = e.paid]
  BY <1>1 DEF Databases, Settle
<1>3. s \in {"settled", "partially_settled"}
  BY DEF SettledStatus
<1>4. /\ e.status \in [Rids -> Statuses \cup {"absent"}]
      /\ e.settled \in [Rids -> Nat]
      /\ e.paid \in [Rids -> Nat]
  BY <1>1, <1>2, <1>3 DEF Databases, Statuses, OpenStatuses
<1>5. /\ e.status[r] = s /\ e.settled[r] = amount
      /\ e.paid[r] = d.paid[r] + amount
      /\ e.maximum[r] = d.maximum[r] /\ e.returned[r] = d.returned[r]
      /\ e.metered[r] = d.metered[r]
  BY <1>1, <1>2 DEF Databases
<1> HIDE DEF e
<1>6. e \in Databases
  BY <1>1, <1>2, <1>4 DEF Databases
<1>7. \A q \in Rids \ {r} : SameHold(d, e, q)
  BY <1>1, <1>2 DEF Databases, SameHold
<1>8. HoldBalanced(e, r)
  <2>1. d.status[r] \in {"reserved", "execution_unknown", "disputed"}
    BY <1>3 DEF MaySettle, MayTransition, AllowedTransitions
  <2>2. /\ amount <= d.maximum[r] /\ d.maximum[r] > 0
        /\ d.paid[r] = 0 /\ d.returned[r] = 0
    BY <1>1, <2>1, RowTypes DEF HoldBalanced, Balanced, MaySettle
  <2>3. QED
    BY <1>1, <1>5, <2>2, RowTypes DEF HoldBalanced, Balanced, SettledStatus
<1>9. QED
  BY <1>6, <1>7, <1>8, RowUpdateSound DEF e

\* So does giving back what is left of one (reservations._release_locked).
LEMMA ReleaseSound ==
  ASSUME NEW d, Sound(d), NEW r \in Rids, MayRelease(d, r)
  PROVE  Sound(Release(d, r))
<1> DEFINE e == Release(d, r)
           rest == d.maximum[r] - d.settled[r]
<1>1. d \in Databases /\ HoldBalanced(d, r)
  BY DEF Sound, HoldsBalanced
<1>2. d.status[r] \in OpenStatuses
  BY DEF MayRelease, MayTransition, AllowedTransitions, OpenStatuses
<1>3. /\ rest \in Nat /\ d.returned[r] = 0 /\ d.paid[r] = d.settled[r]
      /\ d.maximum[r] > 0
  BY <1>1, <1>2, RowTypes DEF HoldBalanced, Balanced, OpenStatuses
<1>4. /\ e.status = [d.status EXCEPT ![r] = "released"]
      /\ e.returned = [d.returned EXCEPT ![r] = d.returned[r] + rest]
      /\ e.maximum = d.maximum /\ e.settled = d.settled /\ e.paid = d.paid
      /\ e.metered = d.metered
      /\ e = [d EXCEPT !.status = e.status, !.returned = e.returned]
  BY <1>1 DEF Databases, Release
<1>5. /\ e.status \in [Rids -> Statuses \cup {"absent"}]
      /\ e.returned \in [Rids -> Nat]
  BY <1>1, <1>3, <1>4 DEF Databases, Statuses, OpenStatuses
<1>6. /\ e.status[r] = "released" /\ e.returned[r] = rest
      /\ e.maximum[r] = d.maximum[r] /\ e.settled[r] = d.settled[r]
      /\ e.paid[r] = d.paid[r] /\ e.metered[r] = d.metered[r]
  BY <1>1, <1>3, <1>4 DEF Databases
<1> HIDE DEF e
<1>7. e \in Databases
  BY <1>1, <1>4, <1>5 DEF Databases
<1>8. \A q \in Rids \ {r} : SameHold(d, e, q)
  BY <1>1, <1>4 DEF Databases, SameHold
<1>9. HoldBalanced(e, r)
  BY <1>1, <1>3, <1>6, RowTypes DEF HoldBalanced, Balanced
<1>10. QED
  BY <1>7, <1>8, <1>9, RowUpdateSound DEF e

\* So do the transitions that move no money
\* (reservations._bare_status_transition_locked).
LEMMA MarkSound ==
  ASSUME NEW d, Sound(d), NEW r \in Rids,
         NEW s \in {"execution_unknown", "disputed"}, MayTransition(d, r, s)
  PROVE  Sound(Mark(d, r, s))
<1> DEFINE e == Mark(d, r, s)
<1>1. d \in Databases /\ HoldBalanced(d, r)
  BY DEF Sound, HoldsBalanced
<1>2. d.status[r] \in {"reserved", "execution_unknown"}
  BY DEF MayTransition, AllowedTransitions
<1>3. /\ e.status = [d.status EXCEPT ![r] = s]
      /\ e.settled = d.settled /\ e.paid = d.paid
      /\ e.maximum = d.maximum /\ e.returned = d.returned
      /\ e.metered = d.metered
      /\ e = [d EXCEPT !.status = e.status]
  BY <1>1 DEF Databases, Mark
<1>4. e.status \in [Rids -> Statuses \cup {"absent"}]
  BY <1>1, <1>3 DEF Databases, Statuses, OpenStatuses
<1> HIDE DEF e
<1>5. e \in Databases
  BY <1>1, <1>3, <1>4 DEF Databases
<1>6. \A q \in Rids \ {r} : SameHold(d, e, q)
  BY <1>1, <1>3 DEF Databases, SameHold
<1>7. HoldBalanced(e, r)
  <2>1. e.status[r] = s
    BY <1>1, <1>3 DEF Databases
  <2>2. QED
    BY <1>1, <1>2, <1>3, <2>1, RowTypes DEF HoldBalanced, Balanced
<1>8. QED
  BY <1>5, <1>6, <1>7, RowUpdateSound DEF e

\* So does metering consumption (resource_metering._record_usage_locked).
LEMMA RecordUsageSound ==
  ASSUME NEW d, Sound(d), NEW r \in Rids, NEW amount \in Nat,
         MayRecordUsage(d, r, amount)
  PROVE  Sound(RecordUsage(d, r, amount))
<1> DEFINE e == RecordUsage(d, r, amount)
<1>1. d \in Databases /\ HoldBalanced(d, r)
  BY DEF Sound, HoldsBalanced
<1>2. /\ e.metered = [d.metered EXCEPT ![r] = d.metered[r] + amount]
      /\ e = [d EXCEPT !.metered = e.metered]
      /\ e.status = d.status /\ e.maximum = d.maximum
      /\ e.settled = d.settled /\ e.paid = d.paid /\ e.returned = d.returned
  BY <1>1 DEF Databases, RecordUsage
<1>3. e.metered \in [Rids -> Nat]
  BY <1>1, <1>2 DEF Databases
<1> HIDE DEF e
<1>4. e \in Databases
  BY <1>1, <1>2, <1>3 DEF Databases
<1>5. \A q \in Rids \ {r} : SameHold(d, e, q)
  BY <1>1, <1>2 DEF Databases, SameHold
<1>6. HoldBalanced(e, r)
  <2>1. e.metered[r] = d.metered[r] + amount
    BY <1>1, <1>2 DEF Databases
  <2>2. e.metered[r] <= d.maximum[r]
    BY <2>1 DEF MayRecordUsage
  <2>3. QED
    BY <1>1, <1>2, <2>2, RowTypes DEF HoldBalanced, Balanced
<1>7. QED
  BY <1>4, <1>5, <1>6, RowUpdateSound DEF e

\* Releasing a whole set of open reservations keeps a database sound (the loop
\* of lifecycle._reclaim_locked).
LEMMA ReleaseAllSound ==
  ASSUME NEW d, Sound(d), NEW S \in SUBSET Rids,
         \A r \in S : d.status[r] \in OpenStatuses
  PROVE  Sound(ReleaseAll(d, S))
<1> DEFINE e == ReleaseAll(d, S)
<1>1. d \in Databases /\ \A r \in Rids : HoldBalanced(d, r)
  BY DEF Sound, HoldsBalanced
<1>2. \A r \in S : /\ d.maximum[r] - d.settled[r] \in Nat
                    /\ d.returned[r] = 0 /\ d.maximum[r] > 0
  BY <1>1, RowTypes DEF HoldBalanced, Balanced, OpenStatuses
<1>3. /\ e.status = [r \in Rids |-> IF r \in S THEN "released" ELSE d.status[r]]
      /\ e.returned = [r \in Rids |->
                        IF r \in S
                        THEN d.returned[r] + (d.maximum[r] - d.settled[r])
                        ELSE d.returned[r]]
      /\ e.maximum = d.maximum /\ e.settled = d.settled /\ e.paid = d.paid
      /\ e.metered = d.metered
      /\ e = [d EXCEPT !.status = e.status, !.returned = e.returned]
  BY <1>1 DEF Databases, ReleaseAll
<1>4. /\ e.status \in [Rids -> Statuses \cup {"absent"}]
      /\ e.returned \in [Rids -> Nat]
  <2>1. ASSUME NEW r \in Rids
        PROVE  /\ e.status[r] \in Statuses \cup {"absent"}
               /\ e.returned[r] \in Nat
    BY <1>1, <1>2, <1>3, RowTypes DEF Statuses, OpenStatuses
  <2>2. QED
    BY <1>3, <2>1
<1> HIDE DEF e
<1>5. e \in Databases
  BY <1>1, <1>3, <1>4 DEF Databases
<1>6. ASSUME NEW r \in Rids PROVE HoldBalanced(e, r)
  <2>1. CASE r \in S
    BY <1>1, <1>2, <1>3, <2>1, RowTypes DEF HoldBalanced, Balanced
  <2>2. CASE r \notin S
    BY <1>1, <1>3, <2>2 DEF HoldBalanced
  <2>3. QED
    BY <2>1, <2>2
<1>7. QED
  BY <1>5, <1>6 DEF Sound, HoldsBalanced, e

\* Returning a dead Cell's cash to the treasury posts only natural amounts and
\* touches no hold.
LEMMA ReturnCashSound ==
  ASSUME NEW d, Sound(d), NEW c \in Cells
  PROVE  Sound(ReturnCash(d, c))
<1> DEFINE e == ReturnCash(d, c)
           new == [b \in Books |-> IF Cash(d, c, b) \in Nat
                                  THEN d.estate[c][b] + Cash(d, c, b)
                                  ELSE d.estate[c][b]]
<1>1. d \in Databases /\ \A r \in Rids : HoldBalanced(d, r)
  BY DEF Sound, HoldsBalanced
<1>2. /\ e.estate = [d.estate EXCEPT ![c] = new]
      /\ e = [d EXCEPT !.estate = e.estate]
      /\ e.status = d.status /\ e.maximum = d.maximum
      /\ e.settled = d.settled /\ e.paid = d.paid /\ e.returned = d.returned
      /\ e.metered = d.metered
  BY <1>1 DEF Databases, ReturnCash
<1>3. new \in [Books -> Nat]
  BY <1>1 DEF Databases
<1> HIDE DEF new
<1>4. e.estate \in [Cells -> [Books -> Nat]]
  BY <1>1, <1>2, <1>3 DEF Databases
<1> HIDE DEF e
<1>5. e \in Databases
  BY <1>1, <1>2, <1>4 DEF Databases
<1>6. \A r \in Rids : HoldBalanced(e, r)
  BY <1>1, <1>2 DEF HoldBalanced
<1>7. QED
  BY <1>5, <1>6 DEF Sound, HoldsBalanced, e

\* An estate pass, and so a death, keeps a database sound.
LEMMA ReclaimSound ==
  ASSUME NEW d, Sound(d), NEW c \in Cells
  PROVE  Sound(Reclaim(d, c))
<1>1. /\ ReleasableAtDeath(d, c) \in SUBSET Rids
      /\ \A r \in ReleasableAtDeath(d, c) : d.status[r] \in OpenStatuses
  BY DEF ReleasableAtDeath
<1>2. Sound(ReleaseAll(d, ReleasableAtDeath(d, c)))
  BY <1>1, ReleaseAllSound
<1>3. QED
  BY <1>2, ReturnCashSound DEF Reclaim

\* Killing a Cell marks it dead and runs its first estate pass in one
\* transaction (lifecycle._kill_locked); the result is sound.
LEMMA KillSound ==
  ASSUME NEW d, Sound(d), NEW c \in Cells
  PROVE  Sound(Kill(d, c))
<1> DEFINE e == [d EXCEPT !.alive[c] = FALSE]
<1>1. d \in Databases /\ \A r \in Rids : HoldBalanced(d, r)
  BY DEF Sound, HoldsBalanced
<1>2. /\ e.alive \in [Cells -> BOOLEAN]
      /\ e = [d EXCEPT !.alive = e.alive]
      /\ e.status = d.status /\ e.maximum = d.maximum
      /\ e.settled = d.settled /\ e.paid = d.paid /\ e.returned = d.returned
      /\ e.metered = d.metered
  BY <1>1 DEF Databases
<1>3. Sound(e)
  <2> HIDE DEF e
  <2>1. e \in Databases
    BY <1>1, <1>2 DEF Databases
  <2>2. QED
    BY <1>1, <1>2, <2>1 DEF Sound, HoldsBalanced, HoldBalanced
<1>4. QED
  BY <1>3, ReclaimSound DEF Kill

\* Spend that leaves the breaker's window is still an integer and moves no hold.
LEMMA AgedSound ==
  ASSUME NEW d, Sound(d), NEW r \in Rids
  PROVE  Sound([d EXCEPT !.aged[r] = d.paid[r] + d.direct[r]])
<1> DEFINE e == [d EXCEPT !.aged[r] = d.paid[r] + d.direct[r]]
<1>1. d \in Databases /\ \A q \in Rids : HoldBalanced(d, q)
  BY DEF Sound, HoldsBalanced
<1>2. /\ e.aged \in [Rids -> Int]
      /\ e = [d EXCEPT !.aged = e.aged]
      /\ e.status = d.status /\ e.maximum = d.maximum
      /\ e.settled = d.settled /\ e.paid = d.paid /\ e.returned = d.returned
      /\ e.metered = d.metered
  BY <1>1 DEF Databases
<1> HIDE DEF e
<1>3. e \in Databases
  BY <1>1, <1>2 DEF Databases
<1>4. QED
  BY <1>1, <1>2, <1>3 DEF Sound, HoldsBalanced, HoldBalanced, e

-----------------------------------------------------------------------------
(* The kernel as its clients call it. *)

\* The inductive invariant: the database is well typed and every hold's
\* postings agree with its status.
IndInv == Sound(db)

LEMMA InitIndInv == Init => IndInv
  BY EmptySound DEF Init, IndInv

\* The sweeper applies the core its checker's outcome selects.
LEMMA SweepSound ==
  ASSUME IndInv, NEW r \in Rids, SweepExpired(r)
  PROVE  IndInv'
<1>1. db.status[r] = "reserved" /\ Sound(db)
  BY DEF SweepExpired, IndInv
<1>2. CASE OutcomeOf(r) = "not_happened"
  <2>1. MayRelease(db, r)
    BY <1>1 DEF MayRelease, MayTransition, AllowedTransitions
  <2>2. db' = Release(db, r)
    BY <1>2 DEF SweepExpired
  <2>3. QED
    BY <1>1, <2>1, <2>2, ReleaseSound DEF IndInv
<1>3. CASE OutcomeOf(r) = "happened"
  <2>1. db.metered[r] \in 0 .. db.maximum[r]
    BY <1>1, RowTypes DEF Sound, HoldsBalanced, HoldBalanced, Balanced
  <2>2. MaySettle(db, r, db.metered[r])
    BY <1>1, <2>1 DEF MaySettle, MayTransition, AllowedTransitions, SettledStatus
  <2>3. db' = Settle(db, r, db.metered[r])
    BY <1>3 DEF SweepExpired
  <2>4. QED
    BY <1>1, <2>1, <2>2, <2>3, SettleSound DEF IndInv
<1>4. CASE OutcomeOf(r) = "unknown"
  <2>1. MayTransition(db, r, "execution_unknown")
    BY <1>1 DEF MayTransition, AllowedTransitions
  <2>2. db' = Mark(db, r, "execution_unknown")
    BY <1>4 DEF SweepExpired
  <2>3. QED
    BY <1>1, <2>1, <2>2, MarkSound DEF IndInv
<1>5. QED
  BY <1>2, <1>3, <1>4 DEF OutcomeOf

\* Every transaction of the component, and a stutter, keeps the invariant.
LEMMA NextIndInv == IndInv /\ [Next]_vars => IndInv'
<1> SUFFICES ASSUME IndInv, [Next]_vars PROVE IndInv'
  OBVIOUS
<1>1. ASSUME NEW r \in Rids, NEW amount \in Amounts,
             RequestReservation(r, amount)
      PROVE  IndInv'
  BY <1>1, RequestSound, AmountsAssumption DEF RequestReservation, IndInv
<1>2. ASSUME NEW r \in Rids, NEW amount \in Amounts,
             SettleReservation(r, amount)
      PROVE  IndInv'
  BY <1>2, SettleSound, AmountsAssumption DEF SettleReservation, IndInv
<1>3. ASSUME NEW r \in Rids, NEW amount \in Amounts, MeterUsage(r, amount)
      PROVE  IndInv'
  BY <1>3, RecordUsageSound, AmountsAssumption DEF MeterUsage, IndInv
<1>4. ASSUME NEW r \in Rids, ReleaseReservation(r) PROVE IndInv'
  BY <1>4, ReleaseSound DEF ReleaseReservation, IndInv
<1>5. ASSUME NEW r \in Rids, MarkExecutionUnknown(r) PROVE IndInv'
  BY <1>5, MarkSound DEF MarkExecutionUnknown, IndInv
<1>6. ASSUME NEW r \in Rids, MarkDisputed(r) PROVE IndInv'
  BY <1>6, MarkSound DEF MarkDisputed, IndInv
<1>7. ASSUME NEW r \in Rids, SweepExpired(r) PROVE IndInv'
  BY <1>7, SweepSound
<1>8. ASSUME NEW r \in Rids, SpendLeavesWindow(r) PROVE IndInv'
  BY <1>8, AgedSound DEF SpendLeavesWindow, IndInv
<1>9. ASSUME NEW c \in Cells, KillCell(c) PROVE IndInv'
  BY <1>9, KillSound DEF KillCell, IndInv
<1>10. ASSUME NEW c \in Cells, ReclaimSettledEstate(c) PROVE IndInv'
  BY <1>10, ReclaimSound DEF ReclaimSettledEstate, IndInv
<1>11. CASE UNCHANGED vars
  BY <1>11 DEF vars, IndInv
<1>12. QED
  BY <1>1, <1>2, <1>3, <1>4, <1>5, <1>6, <1>7, <1>8, <1>9, <1>10, <1>11
  DEF Next

\* In every reachable state every hold balances: what was reserved is what was
\* paid, plus what was returned, plus what the row still holds.
THEOREM HoldsStayBalanced == Spec => []IndInv
  BY InitIndInv, NextIndInv, PTL DEF Spec

\* Type correctness of the database.
THEOREM TypeCorrect == Spec => []TypeOK
<1>1. IndInv => TypeOK
  BY DEF IndInv, Sound, TypeOK
<1>2. QED
  BY <1>1, HoldsStayBalanced, PTL

\* A sound database's row holds exactly what its postings left committed.
LEMMA RowHoldsPosted ==
  ASSUME NEW d, Sound(d), NEW r \in Rids
  PROVE  PostedToCommitted(d, r) = Held(d, r)
<1>1. d \in Databases /\ HoldBalanced(d, r)
  BY DEF Sound, HoldsBalanced
<1>2. QED
  BY <1>1, RowTypes
  DEF HoldBalanced, Balanced, PostedToCommitted, Held, OpenStatuses, Statuses

\* The ledger's committed balance of every Cell, in every book, is what its
\* open reservations hold (Charter C7), for any number of Cells, reservations
\* and amounts.
THEOREM CommittedAlwaysHeld == Spec => []CommittedIsHeld
<1>1. ASSUME IndInv PROVE CommittedIsHeld
  <2>1. [r \in Rids |-> PostedToCommitted(db, r)] = [r \in Rids |-> Held(db, r)]
    BY <1>1, RowHoldsPosted DEF IndInv
  <2>2. QED
    BY <2>1 DEF CommittedIsHeld, Committed
<1>2. QED
  BY <1>1, HoldsStayBalanced, PTL

-----------------------------------------------------------------------------
(* The kernel implements an escrow. *)

\* What a transaction from d to e does to the account of one reservation.
AccountMoves(d, e, r) ==
  \/ EscrowAccount(e, r) = EscrowAccount(d, r)
  \/ EscrowImpl!Open(EscrowAccount(d, r), EscrowAccount(e, r))
  \/ EscrowImpl!Draw(EscrowAccount(d, r), EscrowAccount(e, r))

\* An untouched row keeps its account.
LEMMA SameRowSameAccount ==
  ASSUME NEW d, NEW e, NEW r \in Rids,
         d.status[r] = e.status[r], d.maximum[r] = e.maximum[r],
         d.settled[r] = e.settled[r], d.paid[r] = e.paid[r],
         d.returned[r] = e.returned[r]
  PROVE  AccountMoves(d, e, r)
  BY DEF AccountMoves, EscrowAccount, Held

\* Money leaves an open row only to be paid or returned, and the row is still
\* open exactly when something is left in it.
LEMMA OpenRowDraws ==
  ASSUME NEW d, NEW e, NEW r \in Rids, Sound(d), Sound(e),
         d.status[r] \in OpenStatuses, e.status[r] # "absent",
         e.maximum[r] = d.maximum[r], e.paid[r] >= d.paid[r],
         e.returned[r] >= d.returned[r]
  PROVE  AccountMoves(d, e, r)
<1> DEFINE a == EscrowAccount(d, r)
           b == EscrowAccount(e, r)
<1>1. /\ d \in Databases /\ e \in Databases
      /\ HoldBalanced(d, r) /\ HoldBalanced(e, r)
  BY DEF Sound, HoldsBalanced
<1>2. /\ Held(d, r) = d.maximum[r] - d.paid[r] - d.returned[r]
      /\ Held(e, r) = e.maximum[r] - e.paid[r] - e.returned[r]
  BY RowHoldsPosted DEF PostedToCommitted
<1>3. Held(e, r) = 0 <=> e.status[r] \notin OpenStatuses
  BY <1>1, RowTypes DEF HoldBalanced, Balanced, Held, OpenStatuses, Statuses
<1>4. /\ a.phase = "open"
      /\ b.phase = IF e.status[r] \in OpenStatuses THEN "open" ELSE "closed"
      /\ a.held = Held(d, r) /\ b.held = Held(e, r)
      /\ a.paid = d.paid[r] /\ b.paid = e.paid[r]
      /\ a.returned = d.returned[r] /\ b.returned = e.returned[r]
  BY DEF EscrowAccount, OpenStatuses
<1> HIDE DEF a, b
<1>5. EscrowImpl!Draw(a, b)
  <2>1. b.held + b.paid + b.returned = a.held + a.paid + a.returned
    BY <1>1, <1>2, <1>4, RowTypes
  <2>2. QED
    BY <1>3, <1>4, <2>1 DEF EscrowImpl!Draw
<1>6. QED
  BY <1>5 DEF AccountMoves, a, b

\* A granted request opens the row's account for its whole amount.
LEMMA RequestOpens ==
  ASSUME NEW d, NEW r \in Rids, NEW amount \in Nat, Sound(d),
         MayRequest(d, r, amount)
  PROVE  AccountMoves(d, Request(d, r, amount), r)
<1> DEFINE e == Request(d, r, amount)
<1>1. d \in Databases /\ HoldBalanced(d, r)
  BY DEF Sound, HoldsBalanced
<1>2. d.status[r] = "absent" /\ amount > 0
  BY DEF MayRequest
<1>3. /\ d.maximum[r] = 0 /\ d.settled[r] = 0
      /\ d.paid[r] = 0 /\ d.returned[r] = 0
  BY <1>1, <1>2, RowTypes DEF HoldBalanced, Balanced
<1>4. /\ e.status[r] = "reserved" /\ e.maximum[r] = amount
      /\ e.settled[r] = 0 /\ e.paid[r] = 0 /\ e.returned[r] = 0
  BY <1>1, <1>3 DEF Databases, Request
<1> HIDE DEF e
<1>5. EscrowAccount(d, r) = EscrowImpl!Unopened
  BY <1>2, <1>3
  DEF EscrowAccount, EscrowImpl!Unopened, Held, OpenStatuses
<1>6. EscrowAccount(e, r) = [phase |-> "open", held |-> amount - 0,
                             paid |-> 0, returned |-> 0]
  BY <1>4 DEF EscrowAccount, Held, OpenStatuses
<1>7. EscrowImpl!Open(EscrowAccount(d, r), EscrowAccount(e, r))
  BY <1>2, <1>5, <1>6 DEF EscrowImpl!Open
<1>8. QED
  BY <1>7 DEF AccountMoves, e

\* What a core does to every row, stated once so each action can cite it: row r
\* only, from an open status, keeping its maximum, never unpaying.
LEMMA DrawMoves ==
  ASSUME NEW d, NEW e, NEW r \in Rids, Sound(d), Sound(e),
         d.status[r] \in OpenStatuses, e.status[r] # "absent",
         e.maximum[r] = d.maximum[r], e.paid[r] >= d.paid[r],
         e.returned[r] >= d.returned[r],
         \A q \in Rids \ {r} : SameHold(d, e, q)
  PROVE  \A q \in Rids : AccountMoves(d, e, q)
<1>1. ASSUME NEW q \in Rids, q # r PROVE AccountMoves(d, e, q)
  BY <1>1, SameRowSameAccount DEF SameHold
<1>2. AccountMoves(d, e, r)
  BY OpenRowDraws
<1>3. QED
  BY <1>1, <1>2

\* Settling pays out of open rows only.
LEMMA SettleMoves ==
  ASSUME NEW d, NEW r \in Rids, NEW amount \in Nat, Sound(d),
         MaySettle(d, r, amount)
  PROVE  \A q \in Rids : AccountMoves(d, Settle(d, r, amount), q)
<1> DEFINE e == Settle(d, r, amount)
<1>1. d \in Databases /\ Sound(e)
  BY SettleSound DEF Sound
<1>2. /\ e.status = [d.status EXCEPT ![r] = SettledStatus(d, r, amount)]
      /\ e.settled = [d.settled EXCEPT ![r] = amount]
      /\ e.paid = [d.paid EXCEPT ![r] = d.paid[r] + amount]
      /\ e.maximum = d.maximum /\ e.returned = d.returned
      /\ e.metered = d.metered
  BY <1>1 DEF Databases, Settle
<1>3. d.status[r] \in OpenStatuses /\ SettledStatus(d, r, amount) # "absent"
  BY DEF MaySettle, MayTransition, AllowedTransitions, OpenStatuses,
         SettledStatus
<1> HIDE DEF e
<1>4. /\ e.status[r] # "absent" /\ e.maximum[r] = d.maximum[r]
      /\ e.paid[r] >= d.paid[r] /\ e.returned[r] >= d.returned[r]
  BY <1>1, <1>2, <1>3, RowTypes DEF Databases
<1>5. \A q \in Rids \ {r} : SameHold(d, e, q)
  BY <1>1, <1>2 DEF Databases, SameHold
<1>6. QED
  BY <1>1, <1>3, <1>4, <1>5, DrawMoves DEF e

\* Releasing returns the rest of open rows only.
LEMMA ReleaseMoves ==
  ASSUME NEW d, NEW r \in Rids, Sound(d), MayRelease(d, r)
  PROVE  \A q \in Rids : AccountMoves(d, Release(d, r), q)
<1> DEFINE e == Release(d, r)
<1>1. d \in Databases /\ Sound(e) /\ HoldBalanced(d, r)
  BY ReleaseSound DEF Sound, HoldsBalanced
<1>2. /\ e.status = [d.status EXCEPT ![r] = "released"]
      /\ e.returned = [d.returned EXCEPT
                         ![r] = d.returned[r] + (d.maximum[r] - d.settled[r])]
      /\ e.maximum = d.maximum /\ e.settled = d.settled /\ e.paid = d.paid
      /\ e.metered = d.metered
  BY <1>1 DEF Databases, Release
<1>3. d.status[r] \in OpenStatuses
  BY DEF MayRelease, MayTransition, AllowedTransitions, OpenStatuses
<1>4. d.maximum[r] - d.settled[r] \in Nat
  BY <1>1, <1>3, RowTypes DEF HoldBalanced, Balanced, OpenStatuses
<1> HIDE DEF e
<1>5. /\ e.status[r] # "absent" /\ e.maximum[r] = d.maximum[r]
      /\ e.paid[r] >= d.paid[r] /\ e.returned[r] >= d.returned[r]
  BY <1>1, <1>2, <1>4, RowTypes DEF Databases
<1>6. \A q \in Rids \ {r} : SameHold(d, e, q)
  BY <1>1, <1>2 DEF Databases, SameHold
<1>7. QED
  BY <1>1, <1>3, <1>5, <1>6, DrawMoves DEF e

\* A transition that moves no money leaves an open row open.
LEMMA MarkMoves ==
  ASSUME NEW d, NEW r \in Rids, Sound(d),
         NEW s \in {"execution_unknown", "disputed"}, MayTransition(d, r, s)
  PROVE  \A q \in Rids : AccountMoves(d, Mark(d, r, s), q)
<1> DEFINE e == Mark(d, r, s)
<1>1. d \in Databases /\ Sound(e)
  BY MarkSound DEF Sound
<1>2. /\ e.status = [d.status EXCEPT ![r] = s]
      /\ e.maximum = d.maximum /\ e.settled = d.settled /\ e.paid = d.paid
      /\ e.returned = d.returned /\ e.metered = d.metered
  BY <1>1 DEF Databases, Mark
<1>3. d.status[r] \in OpenStatuses
  BY DEF MayTransition, AllowedTransitions, OpenStatuses
<1> HIDE DEF e
<1>4. /\ e.status[r] # "absent" /\ e.maximum[r] = d.maximum[r]
      /\ e.paid[r] >= d.paid[r] /\ e.returned[r] >= d.returned[r]
  BY <1>1, <1>2, RowTypes DEF Databases
<1>5. \A q \in Rids \ {r} : SameHold(d, e, q)
  BY <1>1, <1>2 DEF Databases, SameHold
<1>6. QED
  BY <1>1, <1>3, <1>4, <1>5, DrawMoves DEF e

\* An estate pass, after or without marking the Cell dead, closes the rows it
\* may release and touches no other.
LEMMA ReclaimMoves ==
  ASSUME NEW d, NEW c \in Cells, Sound(d), NEW alive,
         Sound(Reclaim([d EXCEPT !.alive = alive], c))
  PROVE  \A q \in Rids :
           AccountMoves(d, Reclaim([d EXCEPT !.alive = alive], c), q)
<1> DEFINE e == Reclaim([d EXCEPT !.alive = alive], c)
           S == ReleasableAtDeath(d, c)
<1>1. d \in Databases /\ \A q \in Rids : HoldBalanced(d, q)
  BY DEF Sound, HoldsBalanced
<1>2. ReleasableAtDeath([d EXCEPT !.alive = alive], c) = S
  BY <1>1 DEF ReleasableAtDeath, Databases
<1>3. /\ e.status = [q \in Rids |-> IF q \in S THEN "released" ELSE d.status[q]]
      /\ e.returned = [q \in Rids |->
                         IF q \in S
                         THEN d.returned[q] + (d.maximum[q] - d.settled[q])
                         ELSE d.returned[q]]
      /\ e.maximum = d.maximum /\ e.settled = d.settled /\ e.paid = d.paid
  BY <1>1, <1>2 DEF Reclaim, ReturnCash, ReleaseAll, Databases
<1> HIDE DEF e
<1>4. ASSUME NEW q \in Rids, q \in S PROVE AccountMoves(d, e, q)
  <2>1. d.status[q] \in OpenStatuses
    BY <1>4 DEF ReleasableAtDeath
  <2>2. d.maximum[q] - d.settled[q] \in Nat
    BY <1>1, <2>1, RowTypes DEF HoldBalanced, Balanced, OpenStatuses
  <2>3. /\ e.status[q] # "absent" /\ e.maximum[q] = d.maximum[q]
        /\ e.paid[q] >= d.paid[q] /\ e.returned[q] >= d.returned[q]
    BY <1>1, <1>3, <1>4, <2>2, RowTypes
  <2>4. QED
    BY <2>1, <2>3, OpenRowDraws DEF e
<1>5. ASSUME NEW q \in Rids, q \notin S PROVE AccountMoves(d, e, q)
  BY <1>3, <1>5, SameRowSameAccount
<1>6. QED
  BY <1>4, <1>5 DEF e

\* The sweeper's decision moves only the expired row.
LEMMA SweepMoves ==
  ASSUME IndInv, NEW r \in Rids, SweepExpired(r)
  PROVE  \A q \in Rids : AccountMoves(db, db', q)
<1>1. db.status[r] = "reserved" /\ Sound(db)
  BY DEF SweepExpired, IndInv
<1>2. CASE OutcomeOf(r) = "not_happened"
  <2>1. MayRelease(db, r) /\ db' = Release(db, r)
    BY <1>1, <1>2
    DEF SweepExpired, MayRelease, MayTransition, AllowedTransitions
  <2>2. QED
    BY <1>1, <2>1, ReleaseMoves
<1>3. CASE OutcomeOf(r) = "happened"
  <2>1. db.metered[r] \in 0 .. db.maximum[r]
    BY <1>1, RowTypes DEF Sound, HoldsBalanced, HoldBalanced, Balanced
  <2>2. MaySettle(db, r, db.metered[r])
    BY <1>1, <2>1 DEF MaySettle, MayTransition, AllowedTransitions, SettledStatus
  <2>3. db' = Settle(db, r, db.metered[r])
    BY <1>3 DEF SweepExpired
  <2>4. QED
    BY <1>1, <2>1, <2>2, <2>3, SettleMoves
<1>4. CASE OutcomeOf(r) = "unknown"
  <2>1. /\ MayTransition(db, r, "execution_unknown")
        /\ db' = Mark(db, r, "execution_unknown")
    BY <1>1, <1>4 DEF SweepExpired, MayTransition, AllowedTransitions
  <2>2. QED
    BY <1>1, <2>1, MarkMoves
<1>5. QED
  BY <1>2, <1>3, <1>4 DEF OutcomeOf

\* Every step of the component is, for each hold, a step of the escrow or none.
LEMMA NextMoves ==
  ASSUME IndInv, [Next]_vars
  PROVE  \A q \in Rids : AccountMoves(db, db', q)
<1> DEFINE Moves == \A q \in Rids : AccountMoves(db, db', q)
<1>1. ASSUME NEW r \in Rids, NEW amount \in Amounts,
             RequestReservation(r, amount)
      PROVE  Moves
  <2>1. /\ amount \in Nat /\ MayRequest(db, r, amount)
        /\ db' = Request(db, r, amount) /\ Sound(db) /\ db \in Databases
    BY <1>1, AmountsAssumption DEF RequestReservation, IndInv, Sound
  <2>2. AccountMoves(db, db', r)
    BY <2>1, RequestOpens
  <2>3. ASSUME NEW q \in Rids, q # r PROVE AccountMoves(db, db', q)
    <3>1. /\ db.status[q] = db'.status[q] /\ db.maximum[q] = db'.maximum[q]
          /\ db.settled[q] = db'.settled[q] /\ db.paid[q] = db'.paid[q]
          /\ db.returned[q] = db'.returned[q]
      BY <2>1, <2>3 DEF Request, Databases
    <3>2. QED
      BY <3>1, SameRowSameAccount
  <2>4. QED
    BY <2>2, <2>3
<1>2. ASSUME NEW r \in Rids, NEW amount \in Amounts,
             SettleReservation(r, amount)
      PROVE  Moves
  BY <1>2, SettleMoves, AmountsAssumption DEF SettleReservation, IndInv
<1>3. ASSUME NEW r \in Rids, NEW amount \in Amounts, MeterUsage(r, amount)
      PROVE  Moves
  <2>1. /\ db \in Databases /\ db' = RecordUsage(db, r, amount)
    BY <1>3 DEF MeterUsage, IndInv, Sound
  <2>2. /\ db'.status = db.status /\ db'.maximum = db.maximum
        /\ db'.settled = db.settled /\ db'.paid = db.paid
        /\ db'.returned = db.returned
    BY <2>1 DEF RecordUsage, Databases
  <2>3. QED
    BY <2>2, SameRowSameAccount
<1>4. ASSUME NEW r \in Rids, ReleaseReservation(r) PROVE Moves
  BY <1>4, ReleaseMoves DEF ReleaseReservation, IndInv
<1>5. ASSUME NEW r \in Rids, MarkExecutionUnknown(r) PROVE Moves
  BY <1>5, MarkMoves DEF MarkExecutionUnknown, IndInv
<1>6. ASSUME NEW r \in Rids, MarkDisputed(r) PROVE Moves
  BY <1>6, MarkMoves DEF MarkDisputed, IndInv
<1>7. ASSUME NEW r \in Rids, SweepExpired(r) PROVE Moves
  BY <1>7, SweepMoves
<1>8. ASSUME NEW r \in Rids, SpendLeavesWindow(r) PROVE Moves
  <2>1. /\ db \in Databases
        /\ db' = [db EXCEPT !.aged[r] = db.paid[r] + db.direct[r]]
    BY <1>8 DEF SpendLeavesWindow, IndInv, Sound
  <2>2. /\ db'.status = db.status /\ db'.maximum = db.maximum
        /\ db'.settled = db.settled /\ db'.paid = db.paid
        /\ db'.returned = db.returned
    BY <2>1 DEF Databases
  <2>3. QED
    BY <2>2, SameRowSameAccount
<1>9. ASSUME NEW c \in Cells, KillCell(c) PROVE Moves
  <2>1. db' = Reclaim([db EXCEPT !.alive = [db.alive EXCEPT ![c] = FALSE]], c)
    BY <1>9 DEF KillCell, Kill, IndInv, Sound, Databases
  <2>2. Sound(db) /\ Sound(db')
    BY NextIndInv DEF IndInv
  <2>3. QED
    BY <2>1, <2>2, ReclaimMoves
<1>10. ASSUME NEW c \in Cells, ReclaimSettledEstate(c) PROVE Moves
  <2>1. db' = Reclaim([db EXCEPT !.alive = db.alive], c)
    BY <1>10 DEF ReclaimSettledEstate, IndInv, Sound, Databases
  <2>2. Sound(db) /\ Sound(db')
    BY NextIndInv DEF IndInv
  <2>3. QED
    BY <2>1, <2>2, ReclaimMoves
<1>11. CASE UNCHANGED vars
  BY <1>11, SameRowSameAccount DEF vars
<1>12. QED
  BY <1>1, <1>2, <1>3, <1>4, <1>5, <1>6, <1>7, <1>8, <1>9, <1>10, <1>11
  DEF Next

\* The reservation kernel implements the escrow: the initial database maps to
\* unopened holds, and every transaction to a legal move of each hold.
THEOREM KernelIsEscrow == Spec => ImplementsEscrow
<1> DEFINE escrow == [r \in Rids |-> EscrowAccount(db, r)]
<1>1. Init => EscrowImpl!Init
  <2>1. ASSUME Init, NEW r \in Rids
        PROVE  EscrowAccount(db, r) = EscrowImpl!Unopened
    BY <2>1
    DEF Init, EmptyDatabase, EscrowAccount, Held, OpenStatuses,
        EscrowImpl!Unopened
  <2>2. QED
    BY <2>1 DEF EscrowImpl!Init
<1>2. IndInv /\ [Next]_vars => [EscrowImpl!Next]_escrow
  <2>1. SUFFICES ASSUME IndInv, [Next]_vars, NEW r \in Rids
                 PROVE  EscrowImpl!Move(r)
    BY DEF EscrowImpl!Next
  <2>2. AccountMoves(db, db', r)
    BY <2>1, NextMoves
  <2>3. QED
    BY <2>2 DEF AccountMoves, EscrowImpl!Move, EscrowAccount, Held
<1>3. QED
  BY <1>1, <1>2, HoldsStayBalanced, PTL
  DEF Spec, ImplementsEscrow, EscrowImpl!Spec
-----------------------------------------------------------------------------
(* The caps on real money. *)

\* What the breaker counts of one reservation: what the ledger still holds for
\* it, and what it has spent in the window.
Committing(d) == [r \in Rids |-> PostedToCommitted(d, r)]
Spending(d)   == [r \in Rids |-> d.paid[r] + d.direct[r] - d.aged[r]]
Exposure(d)   == [r \in Rids |-> Committing(d)[r] + Spending(d)[r]]

\* Nothing has left the window that was not spent, and the caps hold.
CapsHold(d) ==
  /\ \A r \in Rids : d.aged[r] <= d.paid[r] + d.direct[r]
  /\ SumFunctionOnSet(Committing(d), RealRids) <= ConcurrentCap
  /\ SumFunctionOnSet(Exposure(d), RealRids) <= WindowCap

\* The inductive invariant behind the caps.
CapInv == IndInv /\ CapsHold(db)

\* What is counted of a typed database is a number, for each reservation.
LEMMA CountedTypes ==
  ASSUME NEW d \in Databases
  PROVE  /\ IsFiniteSet(RealRids) /\ RealRids \subseteq Rids
         /\ \A r \in Rids : /\ d.maximum[r] \in Nat /\ d.paid[r] \in Nat
                            /\ d.returned[r] \in Nat /\ d.direct[r] \in Int
                            /\ d.aged[r] \in Int
         /\ \A r \in Rids :
              /\ Committing(d)[r] = d.maximum[r] - d.paid[r] - d.returned[r]
              /\ Spending(d)[r] = d.paid[r] + d.direct[r] - d.aged[r]
              /\ Exposure(d)[r] = Committing(d)[r] + Spending(d)[r]
         /\ \A r \in Rids : /\ Committing(d)[r] \in Int /\ Spending(d)[r] \in Int
                            /\ Exposure(d)[r] \in Int
<1>1. IsFiniteSet(RealRids) /\ RealRids \subseteq Rids
  BY CoreAssumption, FS_Subset DEF RealRids
<1>2. \A r \in Rids : /\ d.maximum[r] \in Nat /\ d.paid[r] \in Nat
                     /\ d.returned[r] \in Nat /\ d.direct[r] \in Int
                     /\ d.aged[r] \in Int
  BY DEF Databases
<1>3. \A r \in Rids :
        /\ Committing(d)[r] = d.maximum[r] - d.paid[r] - d.returned[r]
        /\ Spending(d)[r] = d.paid[r] + d.direct[r] - d.aged[r]
        /\ Exposure(d)[r] = Committing(d)[r] + Spending(d)[r]
  BY DEF Committing, Spending, Exposure, PostedToCommitted
<1>4. QED
  BY <1>1, <1>2, <1>3

\* Exposure in the window is what is spent in it plus what is still committed.
LEMMA ExposureAdds ==
  ASSUME NEW d \in Databases
  PROVE  /\ SumFunctionOnSet(Exposure(d), RealRids) =
              SumFunctionOnSet(Committing(d), RealRids) + SettledSpendInWindow(d)
         /\ SumFunctionOnSet(Committing(d), RealRids) \in Int
         /\ SettledSpendInWindow(d) \in Int
<1>1. \A r \in RealRids : /\ Committing(d)[r] \in Int /\ Spending(d)[r] \in Int
                         /\ Exposure(d)[r] = Committing(d)[r] + Spending(d)[r]
  BY CountedTypes
<1>2. IsFiniteSet(RealRids)
  BY CountedTypes
<1>3. SettledSpendInWindow(d) = SumFunctionOnSet(Spending(d), RealRids)
  BY DEF SettledSpendInWindow, Spending
<1>4. /\ SumFunctionOnSet(Committing(d), RealRids) \in Int
      /\ SumFunctionOnSet(Spending(d), RealRids) \in Int
  BY <1>1, <1>2, SumInt
<1>5. SumFunctionOnSet(Exposure(d), RealRids) =
        SumFunctionOnSet(Committing(d), RealRids)
          + SumFunctionOnSet(Spending(d), RealRids)
  BY <1>1, <1>2, SumAdds
<1>6. QED
  BY <1>3, <1>4, <1>5

\* A transaction that takes no new hold only ever pays what is held, returns it,
\* or lets spend age, so it exposes no more than before.
LEMMA NoHoldKeepsCaps ==
  ASSUME NEW d \in Databases, NEW e \in Databases, CapsHold(d),
         \A r \in Rids :
           /\ e.maximum[r] = d.maximum[r] /\ e.direct[r] = d.direct[r]
           /\ e.paid[r] >= d.paid[r] /\ e.returned[r] >= d.returned[r]
           /\ e.aged[r] \in {d.aged[r], d.paid[r] + d.direct[r]}
  PROVE  CapsHold(e)
<1>1. ASSUME NEW r \in Rids
      PROVE  /\ e.aged[r] <= e.paid[r] + e.direct[r]
             /\ Committing(e)[r] \in Int /\ Committing(d)[r] \in Int
             /\ Exposure(e)[r] \in Int /\ Exposure(d)[r] \in Int
             /\ Committing(e)[r] <= Committing(d)[r]
             /\ Exposure(e)[r] <= Exposure(d)[r]
  BY CountedTypes DEF CapsHold
<1>2. IsFiniteSet(RealRids) /\ RealRids \subseteq Rids
  BY CountedTypes
<1>3. /\ SumFunctionOnSet(Committing(e), RealRids)
           <= SumFunctionOnSet(Committing(d), RealRids)
      /\ SumFunctionOnSet(Exposure(e), RealRids)
           <= SumFunctionOnSet(Exposure(d), RealRids)
  BY <1>1, <1>2, SumGrows
<1>4. ConcurrentCap \in Nat /\ WindowCap \in Nat
  BY CoreAssumption
<1>5. /\ SumFunctionOnSet(Committing(e), RealRids) \in Int
      /\ SumFunctionOnSet(Committing(d), RealRids) \in Int
      /\ SumFunctionOnSet(Exposure(e), RealRids) \in Int
      /\ SumFunctionOnSet(Exposure(d), RealRids) \in Int
  BY <1>1, <1>2, SumInt
<1>6. QED
  BY <1>1, <1>3, <1>4, <1>5 DEF CapsHold

\* The breaker adds up the rows; what it adds up is what the ledger holds.
LEMMA BreakerCountsLedger ==
  ASSUME NEW d, Sound(d)
  PROVE  ConcurrentReserved(d) = SumFunctionOnSet(Committing(d), RealRids)
<1>1. [r \in Rids |-> Held(d, r)] = Committing(d)
  BY RowHoldsPosted DEF Committing
<1>2. QED
  BY <1>1 DEF ConcurrentReserved

\* A granted request of real money adds its amount and was granted only if that
\* fits; any other request adds nothing the breaker counts.
LEMMA RequestKeepsCaps ==
  ASSUME NEW d, Sound(d), CapsHold(d), NEW r \in Rids, NEW amount \in Nat,
         MayRequest(d, r, amount)
  PROVE  CapsHold(Request(d, r, amount))
<1> DEFINE e == Request(d, r, amount)
<1>1. d \in Databases /\ HoldBalanced(d, r) /\ Sound(e) /\ e \in Databases
  BY RequestSound DEF Sound, HoldsBalanced
<1>2. d.maximum[r] = 0
  BY <1>1 DEF MayRequest, HoldBalanced, Balanced
<1>3. /\ e.maximum = [d.maximum EXCEPT ![r] = amount]
      /\ e.paid = d.paid /\ e.returned = d.returned
      /\ e.direct = d.direct /\ e.aged = d.aged
  BY <1>1 DEF Request, Databases
<1>4. e.maximum[r] = amount /\ \A q \in Rids \ {r} : e.maximum[q] = d.maximum[q]
  BY <1>1, <1>3 DEF Databases
<1> HIDE DEF e
<1>5. ASSUME NEW x \in {d, e}, NEW q \in Rids
      PROVE  /\ Committing(x)[q] \in Int /\ Exposure(x)[q] \in Int
             /\ Committing(x)[q] = x.maximum[q] - d.paid[q] - d.returned[q]
             /\ Exposure(x)[q] =
                  Committing(x)[q] + (d.paid[q] + d.direct[q] - d.aged[q])
  <2>1. x \in Databases /\ x.paid = d.paid /\ x.returned = d.returned
        /\ x.direct = d.direct /\ x.aged = d.aged
    BY <1>1, <1>3, <1>5
  <2>2. QED
    BY <2>1, CountedTypes
<1>6. /\ \A q \in Rids \ {r} : /\ Committing(e)[q] = Committing(d)[q]
                               /\ Exposure(e)[q] = Exposure(d)[q]
      /\ Committing(e)[r] = Committing(d)[r] + amount
      /\ Exposure(e)[r] = Exposure(d)[r] + amount
  <2>1. ASSUME NEW q \in Rids \ {r}
        PROVE  /\ Committing(e)[q] = Committing(d)[q]
               /\ Exposure(e)[q] = Exposure(d)[q]
    BY <1>4, <1>5
  <2>2. /\ d.paid[r] \in Nat /\ d.returned[r] \in Nat
        /\ d.direct[r] \in Int /\ d.aged[r] \in Int
    BY <1>1, CountedTypes
  <2>3. /\ Committing(d)[r] = 0 - d.paid[r] - d.returned[r]
        /\ Committing(e)[r] = amount - d.paid[r] - d.returned[r]
        /\ Exposure(d)[r] =
             Committing(d)[r] + (d.paid[r] + d.direct[r] - d.aged[r])
        /\ Exposure(e)[r] =
             Committing(e)[r] + (d.paid[r] + d.direct[r] - d.aged[r])
    BY <1>2, <1>4, <1>5
  <2>4. QED
    BY <2>1, <2>2, <2>3
<1>7. IsFiniteSet(RealRids) /\ RealRids \subseteq Rids
  BY <1>1, CountedTypes
<1>8. \A q \in Rids : e.aged[q] <= e.paid[q] + e.direct[q]
  BY <1>3 DEF CapsHold
<1> DEFINE held  == SumFunctionOnSet(Committing(d), RealRids)
           total == SumFunctionOnSet(Exposure(d), RealRids)
<1>9. held \in Int /\ total \in Int
  BY <1>5, <1>7, SumInt
<1>10. CASE BookOf[r] = "USD_REAL"
  <2>1. r \in RealRids
    BY <1>10 DEF RealRids
  <2>2. SumFunctionOnSet(Committing(e), RealRids)
          = held + Committing(e)[r] - Committing(d)[r]
    <3>1. /\ \A q \in RealRids : Committing(d)[q] \in Int
          /\ Committing(e)[r] \in Int
          /\ \A q \in RealRids \ {r} : Committing(e)[q] = Committing(d)[q]
      BY <1>5, <1>6, <1>7
    <3>2. QED
      BY <1>7, <2>1, <3>1, SumMoves
  <2>3. SumFunctionOnSet(Exposure(e), RealRids)
          = total + Exposure(e)[r] - Exposure(d)[r]
    <3>1. /\ \A q \in RealRids : Exposure(d)[q] \in Int
          /\ Exposure(e)[r] \in Int
          /\ \A q \in RealRids \ {r} : Exposure(e)[q] = Exposure(d)[q]
      BY <1>5, <1>6, <1>7
    <3>2. QED
      BY <1>7, <2>1, <3>1, SumMoves
  <2>4. /\ ConcurrentReserved(d) + amount <= ConcurrentCap
        /\ SettledSpendInWindow(d) + ConcurrentReserved(d) + amount <= WindowCap
    BY <1>10 DEF MayRequest, BreakerAllows
  <2>5. /\ ConcurrentReserved(d) = held
        /\ total = held + SettledSpendInWindow(d)
        /\ SettledSpendInWindow(d) \in Int
    BY <1>1, BreakerCountsLedger, ExposureAdds
  <2>6. Committing(d)[r] \in Int /\ Exposure(d)[r] \in Int
    BY <1>5
  <2> HIDE DEF held, total
  <2>7. /\ SumFunctionOnSet(Committing(e), RealRids) <= ConcurrentCap
        /\ SumFunctionOnSet(Exposure(e), RealRids) <= WindowCap
    BY <1>6, <1>9, <2>2, <2>3, <2>4, <2>5, <2>6, CoreAssumption
  <2>8. QED
    BY <1>8, <2>7 DEF CapsHold, e
<1>11. CASE BookOf[r] # "USD_REAL"
  <2>1. \A q \in RealRids : /\ Committing(e)[q] = Committing(d)[q]
                            /\ Exposure(e)[q] = Exposure(d)[q]
    BY <1>6, <1>11 DEF RealRids
  <2>2. /\ SumFunctionOnSet(Committing(e), RealRids) = held
        /\ SumFunctionOnSet(Exposure(e), RealRids) = total
    BY <1>7, <2>1, SumAgrees
  <2>3. QED
    BY <1>8, <2>2 DEF CapsHold, e
<1>12. QED
  BY <1>10, <1>11

\* No step takes back a payment or a return.
LEMMA PaymentsStand ==
  ASSUME IndInv, [Next]_vars, NEW r \in Rids
  PROVE  db'.paid[r] >= db.paid[r] /\ db'.returned[r] >= db.returned[r]
<1>1. db \in Databases /\ db' \in Databases
  BY NextIndInv DEF IndInv, Sound
<1>2. /\ db.paid[r] \in Nat /\ db'.paid[r] \in Nat
      /\ db.returned[r] \in Nat /\ db'.returned[r] \in Nat
  BY <1>1, RowTypes
<1>3. AccountMoves(db, db', r)
  BY NextMoves
<1>4. /\ EscrowAccount(db, r).paid = db.paid[r]
      /\ EscrowAccount(db', r).paid = db'.paid[r]
      /\ EscrowAccount(db, r).returned = db.returned[r]
      /\ EscrowAccount(db', r).returned = db'.returned[r]
  BY DEF EscrowAccount
<1>5. QED
  BY <1>2, <1>3, <1>4
  DEF AccountMoves, EscrowImpl!Open, EscrowImpl!Draw, EscrowImpl!Unopened

\* Only a request sets what a reservation may cost; only time ages spend.
LEMMA OnlyRequestsHold ==
  ASSUME IndInv, [Next]_vars,
         ~ \E r \in Rids, amount \in Amounts : RequestReservation(r, amount)
  PROVE  \A q \in Rids :
           /\ db'.maximum[q] = db.maximum[q] /\ db'.direct[q] = db.direct[q]
           /\ db'.aged[q] \in {db.aged[q], db.paid[q] + db.direct[q]}
<1> DEFINE Kept == /\ db'.maximum = db.maximum /\ db'.direct = db.direct
                   /\ db'.aged = db.aged
<1>0. db \in Databases
  BY DEF IndInv, Sound
<1>1. ASSUME NEW r \in Rids, NEW amount \in Amounts,
             SettleReservation(r, amount)
      PROVE  Kept
  BY <1>0, <1>1 DEF SettleReservation, Settle, Databases
<1>2. ASSUME NEW r \in Rids, NEW amount \in Amounts, MeterUsage(r, amount)
      PROVE  Kept
  BY <1>0, <1>2 DEF MeterUsage, RecordUsage, Databases
<1>3. ASSUME NEW r \in Rids, ReleaseReservation(r) PROVE Kept
  BY <1>0, <1>3 DEF ReleaseReservation, Release, Databases
<1>4. ASSUME NEW r \in Rids, MarkExecutionUnknown(r) PROVE Kept
  BY <1>0, <1>4 DEF MarkExecutionUnknown, Mark, Databases
<1>5. ASSUME NEW r \in Rids, MarkDisputed(r) PROVE Kept
  BY <1>0, <1>5 DEF MarkDisputed, Mark, Databases
<1>6. ASSUME NEW r \in Rids, SweepExpired(r) PROVE Kept
  <2>1. \/ db' = Release(db, r)
        \/ db' = Settle(db, r, db.metered[r])
        \/ db' = Mark(db, r, "execution_unknown")
    BY <1>6 DEF SweepExpired, OutcomeOf
  <2>2. QED
    BY <1>0, <2>1 DEF Release, Settle, Mark, Databases
<1>7. ASSUME NEW c \in Cells, KillCell(c) PROVE Kept
  BY <1>0, <1>7 DEF KillCell, Kill, Reclaim, ReturnCash, ReleaseAll, Databases
<1>8. ASSUME NEW c \in Cells, ReclaimSettledEstate(c) PROVE Kept
  BY <1>0, <1>8
  DEF ReclaimSettledEstate, Reclaim, ReturnCash, ReleaseAll, Databases
<1>9. ASSUME NEW r \in Rids, SpendLeavesWindow(r)
      PROVE  /\ db'.maximum = db.maximum /\ db'.direct = db.direct
             /\ db'.aged = [db.aged EXCEPT ![r] = db.paid[r] + db.direct[r]]
  BY <1>0, <1>9 DEF SpendLeavesWindow, Databases
<1>10. CASE UNCHANGED vars
  BY <1>10 DEF vars
<1>11. CASE \E r \in Rids : SpendLeavesWindow(r)
  <2>1. PICK r \in Rids : SpendLeavesWindow(r)
    BY <1>11
  <2>2. /\ db'.maximum = db.maximum /\ db'.direct = db.direct
        /\ db'.aged = [db.aged EXCEPT ![r] = db.paid[r] + db.direct[r]]
    BY <1>9, <2>1
  <2>3. \A q \in Rids : db'.aged[q] \in {db.aged[q], db.paid[q] + db.direct[q]}
    <3>1. db.aged \in [Rids -> Int]
      BY <1>0 DEF Databases
    <3>2. QED
      BY <2>2, <3>1
  <2>4. QED
    BY <2>2, <2>3
<1>12. QED
  BY <1>1, <1>2, <1>3, <1>4, <1>5, <1>6, <1>7, <1>8, <1>10, <1>11 DEF Next

\* Charter C5 for any number of Cells and reservations and any caps: real spend
\* in the window plus all the real money the ledger still holds committed stays
\* within the caps.  Inductive because the breaker counts every open hold in
\* whatever status, and a hold can only turn into as much spend as it held.
THEOREM ExposureAlwaysWithinCap == Spec => []ExposureWithinCap
<1>1. Init => CapInv
  <2>1. SUFFICES ASSUME Init PROVE CapsHold(db)
    BY InitIndInv DEF CapInv
  <2>2. IndInv /\ db \in Databases
    BY <2>1, InitIndInv DEF IndInv, Sound
  <2>3. \A r \in Rids : /\ db.maximum[r] = 0 /\ db.paid[r] = 0
                       /\ db.returned[r] = 0 /\ db.direct[r] = 0
                       /\ db.aged[r] = 0
    BY <2>1 DEF Init, EmptyDatabase
  <2>4. \A r \in RealRids : Committing(db)[r] = 0 /\ Exposure(db)[r] = 0
    BY <2>2, <2>3, CountedTypes
  <2>5. IsFiniteSet(RealRids)
    BY <2>2, CountedTypes
  <2>6. /\ SumFunctionOnSet(Committing(db), RealRids) = 0
        /\ SumFunctionOnSet(Exposure(db), RealRids) = 0
    BY <2>4, <2>5, SumZero
  <2>7. QED
    BY <2>3, <2>6, CoreAssumption DEF CapsHold
<1>2. CapInv /\ [Next]_vars => CapInv'
  <2>1. SUFFICES ASSUME CapInv, [Next]_vars PROVE CapsHold(db')
    BY NextIndInv DEF CapInv
  <2>2. IndInv /\ IndInv' /\ Sound(db) /\ db \in Databases /\ db' \in Databases
    BY <2>1, NextIndInv DEF CapInv, IndInv, Sound
  <2>3. CASE \E r \in Rids, amount \in Amounts : RequestReservation(r, amount)
    BY <2>1, <2>2, <2>3, RequestKeepsCaps, AmountsAssumption
    DEF RequestReservation, CapInv
  <2>4. CASE ~ \E r \in Rids, amount \in Amounts : RequestReservation(r, amount)
    BY <2>1, <2>2, <2>4, OnlyRequestsHold, PaymentsStand, NoHoldKeepsCaps
    DEF CapInv
  <2>5. QED
    BY <2>3, <2>4
<1>3. CapInv => ExposureWithinCap
  <2>1. SUFFICES ASSUME CapInv PROVE ExposureWithinCap
    OBVIOUS
  <2>2. db \in Databases
    BY <2>1 DEF CapInv, IndInv, Sound
  <2>3. /\ SumFunctionOnSet(Committing(db), RealRids) <= ConcurrentCap
        /\ SumFunctionOnSet(Committing(db), RealRids) + SettledSpendInWindow(db)
             <= WindowCap
        /\ SumFunctionOnSet(Committing(db), RealRids) \in Int
        /\ SettledSpendInWindow(db) \in Int
    BY <2>1, <2>2, ExposureAdds DEF CapInv, CapsHold
  <2>4. SettledSpendInWindow(db) + SumFunctionOnSet(Committing(db), RealRids)
          <= WindowCap
    BY <2>3
  <2>5. QED
    BY <2>3, <2>4 DEF ExposureWithinCap, Committing
<1>4. QED
  BY <1>1, <1>2, <1>3, PTL DEF Spec
=============================================================================
