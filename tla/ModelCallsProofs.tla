--------------------------- MODULE ModelCallsProofs ---------------------------
(***************************************************************************)
(* The gateway, for any number of invocations, keys, sweepers and Cells:   *)
(* the database stays sound under everything that composes its cores, a    *)
(* key is paid for once, a recorded outcome is never rewritten, and the    *)
(* ledger charges a call what is known of its cost, no more and no less.   *)
(***************************************************************************)
EXTENDS ModelCalls, TLAPS

\* The kernel's own proofs; the amounts its verbs are called with are any.
Verbs == INSTANCE ReservationsProofs WITH Amounts <- Nat

-----------------------------------------------------------------------------
(* The kernel's lemmas, of the cores that this module composes. *)

\* What the kernel assumes of its constants is true here.
LEMMA VerbsAssumptionMet ==
  /\ Verbs!IsFiniteSet(Rids)
  /\ CellOf \in [Rids -> Cells]
  /\ BookOf \in [Rids -> Verbs!Books]
  /\ OperationOf \in [Rids -> {"none", "model_call", "tool_call", "external_action"}]
  /\ Funding \in [Cells -> [Verbs!Books -> Nat]]
  /\ PerRequestCap \in Nat
  /\ ConcurrentCap \in Nat
  /\ WindowCap \in Nat
<1>1. Verbs!IsFiniteSet(Rids)
  BY CoreAssumption DEF Verbs!IsFiniteSet, IsFiniteSet
<1>2. QED
  BY <1>1, CoreAssumption DEF Verbs!Books, Books

\* A database whose columns have their types and whose holds all balance.
Sound(d) == d \in Databases /\ HoldsBalanced(d)

\* Two databases with the same row and postings for reservation q.
SameHold(d, e, q) ==
  /\ e.status[q] = d.status[q]
  /\ e.maximum[q] = d.maximum[q]
  /\ e.settled[q] = d.settled[q]
  /\ e.paid[q] = d.paid[q]
  /\ e.returned[q] = d.returned[q]
  /\ e.metered[q] = d.metered[q]

\* A sound database is one by either name,
LEMMA SameSound == \A d : Sound(d) <=> Verbs!Sound(d)
<1>1. Databases = Verbs!Databases
  BY DEF Databases, Verbs!Databases, Statuses, Verbs!Statuses, OpenStatuses,
         Verbs!OpenStatuses, Books, Verbs!Books
<1>2. \A d : HoldsBalanced(d) = Verbs!HoldsBalanced(d)
  BY DEF HoldsBalanced, Verbs!HoldsBalanced, HoldBalanced, Verbs!HoldBalanced,
         Balanced, Verbs!Balanced
<1>3. QED
  BY <1>1, <1>2 DEF Sound, Verbs!Sound

\* amounts are added up the same way,
LEMMA SameSums ==
  ASSUME NEW f, NEW S PROVE SumFunctionOnSet(f, S) = Verbs!SumFunctionOnSet(f, S)
  BY DEF SumFunctionOnSet, Verbs!SumFunctionOnSet, FoldFunctionOnSet,
         Verbs!FoldFunctionOnSet, MapThenFoldSet, Verbs!MapThenFoldSet

\* and the cores are the same.
LEMMA SameCores ==
  ASSUME NEW d, NEW r, NEW n
  PROVE  /\ MayRequest(d, r, n) = Verbs!MayRequest(d, r, n)
         /\ Request(d, r, n) = Verbs!Request(d, r, n)
         /\ MaySettle(d, r, n) = Verbs!MaySettle(d, r, n)
         /\ Settle(d, r, n) = Verbs!Settle(d, r, n)
         /\ MayRelease(d, r) = Verbs!MayRelease(d, r)
         /\ Release(d, r) = Verbs!Release(d, r)
         /\ MayTransition(d, r, n) = Verbs!MayTransition(d, r, n)
         /\ Mark(d, r, n) = Verbs!Mark(d, r, n)
         /\ MayRecordUsage(d, r, n) = Verbs!MayRecordUsage(d, r, n)
         /\ RecordUsage(d, r, n) = Verbs!RecordUsage(d, r, n)
<1>1. MayRequest(d, r, n) = Verbs!MayRequest(d, r, n)
  BY SameSums
  DEF MayRequest, Verbs!MayRequest, Cash, Verbs!Cash, TakenFromCash,
      Verbs!TakenFromCash, Books, Verbs!Books, BreakerAllows, Verbs!BreakerAllows,
      ConcurrentReserved, Verbs!ConcurrentReserved, SettledSpendInWindow,
      Verbs!SettledSpendInWindow, RealRids, Verbs!RealRids, Held, Verbs!Held,
      OpenStatuses, Verbs!OpenStatuses
<1>2. Request(d, r, n) = Verbs!Request(d, r, n)
  BY DEF Request, Verbs!Request
<1>3. \A s : MayTransition(d, r, s) = Verbs!MayTransition(d, r, s)
  BY DEF MayTransition, Verbs!MayTransition, AllowedTransitions,
         Verbs!AllowedTransitions
<1>4. MaySettle(d, r, n) = Verbs!MaySettle(d, r, n)
  BY <1>3 DEF MaySettle, Verbs!MaySettle, SettledStatus, Verbs!SettledStatus
<1>5. Settle(d, r, n) = Verbs!Settle(d, r, n)
  BY DEF Settle, Verbs!Settle, SettledStatus, Verbs!SettledStatus
<1>6. MayRelease(d, r) = Verbs!MayRelease(d, r)
  BY <1>3 DEF MayRelease, Verbs!MayRelease
<1>7. Release(d, r) = Verbs!Release(d, r)
  BY DEF Release, Verbs!Release
<1>8. Mark(d, r, n) = Verbs!Mark(d, r, n)
  BY DEF Mark, Verbs!Mark
<1>9. /\ MayRecordUsage(d, r, n) = Verbs!MayRecordUsage(d, r, n)
      /\ RecordUsage(d, r, n) = Verbs!RecordUsage(d, r, n)
  BY DEF MayRecordUsage, Verbs!MayRecordUsage, RecordUsage, Verbs!RecordUsage
<1>10. QED
  BY <1>1, <1>2, <1>3, <1>4, <1>5, <1>6, <1>7, <1>8, <1>9

\* So is what a death does.
LEMMA SameEstates ==
  ASSUME NEW d, NEW c
  PROVE  /\ Reclaim(d, c) = Verbs!Reclaim(d, c)
         /\ Kill(d, c) = Verbs!Kill(d, c)
<1>1. \A x : ReleasableAtDeath(x, c) = Verbs!ReleasableAtDeath(x, c)
  BY DEF ReleasableAtDeath, Verbs!ReleasableAtDeath, OpenStatuses,
         Verbs!OpenStatuses
<1>2. \A x, S : ReleaseAll(x, S) = Verbs!ReleaseAll(x, S)
  BY DEF ReleaseAll, Verbs!ReleaseAll
<1>3. \A x, b : Cash(x, c, b) = Verbs!Cash(x, c, b)
  BY SameSums DEF Cash, Verbs!Cash, TakenFromCash, Verbs!TakenFromCash, Books,
                  Verbs!Books
<1>4. \A x : ReturnCash(x, c) = Verbs!ReturnCash(x, c)
  BY <1>3 DEF ReturnCash, Verbs!ReturnCash, Books, Verbs!Books
<1>5. \A x : Reclaim(x, c) = Verbs!Reclaim(x, c)
  BY <1>1, <1>2, <1>4 DEF Reclaim, Verbs!Reclaim
<1>6. QED
  BY <1>5 DEF Kill, Verbs!Kill

\* The types of one reservation's columns.
LEMMA RowTypes ==
  ASSUME NEW d \in Databases, NEW r \in Rids
  PROVE  /\ d.status[r] \in Statuses \cup {"absent"}
         /\ d.maximum[r] \in Nat
         /\ d.settled[r] \in Nat
         /\ d.paid[r] \in Nat
         /\ d.returned[r] \in Nat
         /\ d.metered[r] \in Nat
  BY DEF Databases

\* The empty database is sound,
LEMMA EmptySound == Sound(EmptyDatabase)
<1>1. EmptyDatabase = Verbs!EmptyDatabase
  BY DEF EmptyDatabase, Verbs!EmptyDatabase, Books, Verbs!Books
<1>2. QED
  BY <1>1, SameSound, VerbsAssumptionMet, Verbs!EmptySound

\* each core leaves a sound database sound,
LEMMA CoresSound ==
  ASSUME NEW d, Sound(d), NEW r \in Rids
  PROVE  /\ \A n \in Nat : MayRequest(d, r, n) => Sound(Request(d, r, n))
         /\ \A n \in Nat : MaySettle(d, r, n) => Sound(Settle(d, r, n))
         /\ MayRelease(d, r) => Sound(Release(d, r))
         /\ \A s \in {"execution_unknown", "disputed"} :
              MayTransition(d, r, s) => Sound(Mark(d, r, s))
         /\ \A n \in Nat : MayRecordUsage(d, r, n) => Sound(RecordUsage(d, r, n))
<1>1. Verbs!Sound(d)
  BY SameSound
<1>2. ASSUME NEW n \in Nat, MayRequest(d, r, n) PROVE Sound(Request(d, r, n))
  BY <1>1, <1>2, SameCores, SameSound, VerbsAssumptionMet, Verbs!RequestSound
<1>3. ASSUME NEW n \in Nat, MaySettle(d, r, n) PROVE Sound(Settle(d, r, n))
  BY <1>1, <1>3, SameCores, SameSound, VerbsAssumptionMet, Verbs!SettleSound
<1>4. ASSUME MayRelease(d, r) PROVE Sound(Release(d, r))
  BY <1>1, <1>4, SameCores, SameSound, VerbsAssumptionMet, Verbs!ReleaseSound
<1>5. ASSUME NEW s \in {"execution_unknown", "disputed"}, MayTransition(d, r, s)
      PROVE  Sound(Mark(d, r, s))
  BY <1>1, <1>5, SameCores, SameSound, VerbsAssumptionMet, Verbs!MarkSound
<1>6. ASSUME NEW n \in Nat, MayRecordUsage(d, r, n) PROVE Sound(RecordUsage(d, r, n))
  BY <1>1, <1>6, SameCores, SameSound, VerbsAssumptionMet, Verbs!RecordUsageSound
<1>7. QED
  BY <1>2, <1>3, <1>4, <1>5, <1>6

\* and so does a death, and an estate pass after it.
LEMMA EstatesSound ==
  ASSUME NEW d, Sound(d), NEW c \in Cells
  PROVE  Sound(Reclaim(d, c)) /\ Sound(Kill(d, c))
<1>1. Verbs!Sound(d)
  BY SameSound
<1>2. Verbs!Sound(Verbs!Reclaim(d, c))
  BY <1>1, VerbsAssumptionMet, Verbs!ReclaimSound
<1>3. Verbs!Sound(Verbs!Kill(d, c))
  BY <1>1, VerbsAssumptionMet, Verbs!KillSound
<1>4. QED
  BY <1>2, <1>3, SameEstates, SameSound

-----------------------------------------------------------------------------
(* The rows of model_calls. *)

\* A row of model_calls: its status, and what its call settled.
IsRow(r) ==
  /\ {"status", "settled"} \subseteq DOMAIN r
  /\ r.status \in RowStatuses \cup {"absent"}
  /\ r.settled \in Nat

RowsTyped ==
  /\ DOMAIN row = Calls /\ \A a \in Calls : IsRow(row[a])
  /\ caller \in [Calls -> Places]
  /\ bill \in [Calls -> Nat]

\* The provider is asked under a row, and no key has two.
KeyInv ==
  /\ RowsTyped
  /\ \A a \in Calls :
       /\ caller[a] \in {"calling", "replied", "refused", "unclear"} => HasRow(a)
       /\ bill[a] > 0 => HasRow(a)
  /\ \A a, b \in Calls :
       a # b /\ KeyOf[a] = KeyOf[b] => ~(HasRow(a) /\ HasRow(b))

-----------------------------------------------------------------------------
(* Keys. *)

\* A step that adds no row and sends no request keeps the invariant.
LEMMA NoNewRow ==
  ASSUME KeyInv, RowsTyped',
         \A a \in Calls : HasRow(a)' <=> HasRow(a),
         \A a \in Calls :
           caller'[a] \in {"calling", "replied", "refused", "unclear"} =>
             caller[a] \in {"calling", "replied", "refused", "unclear"},
         \A a \in Calls : bill'[a] = bill[a] \/ caller[a] = "calling"
  PROVE  KeyInv'
BY DEF KeyInv

\* A call's own steps keep the keys apart.
LEMMA CallStepKeepsKeys ==
  ASSUME KeyInv, NEW a \in Calls, CallStep(a)
  PROVE  KeyInv'
<1>1. RowsTyped /\ HasRow(a) \in BOOLEAN
  BY DEF KeyInv, HasRow
<1>2. CASE Begin(a)
  <2>1. /\ caller' = [caller EXCEPT ![a] = caller'[a]]
        /\ caller'[a] \in {"returned", "checked"}
        /\ UNCHANGED <<row, bill>>
    BY <1>1, <1>2 DEF Begin, Goto, RowsTyped
  <2>2. QED
    BY <1>1, <2>1, NoNewRow DEF RowsTyped, HasRow, Places
<1>3. CASE \E estimate \in Estimates :
             ReserveReal(a, estimate) \/ ReserveResource(a, estimate)
  <2>1. /\ caller' = [caller EXCEPT ![a] = caller'[a]]
        /\ caller'[a] \in {"returned", "one", "both", "backout"}
        /\ UNCHANGED <<row, bill>>
    BY <1>1, <1>3 DEF ReserveReal, ReserveResource, Goto, RowsTyped
  <2>2. QED
    BY <1>1, <2>1, NoNewRow DEF RowsTyped, HasRow, Places
<1>4. CASE Backout(a)
  <2>1. /\ caller' = [caller EXCEPT ![a] = "returned"]
        /\ UNCHANGED <<row, bill>>
    BY <1>4 DEF Backout, Goto
  <2>2. QED
    BY <1>1, <2>1, NoNewRow DEF RowsTyped, HasRow, Places
<1>5. CASE InsertModelCall(a)
  <2>1. CASE KeyTaken(a)
    <3>1. /\ caller' = [caller EXCEPT ![a] = "returned"]
          /\ UNCHANGED <<row, bill>>
      BY <1>5, <2>1 DEF InsertModelCall, Goto
    <3>2. QED
      BY <1>1, <3>1, NoNewRow DEF RowsTyped, HasRow, Places
  <2>2. CASE ~KeyTaken(a)
    <3>1. /\ row' = [row EXCEPT ![a].status = "reserved"]
          /\ caller' = [caller EXCEPT ![a] = "calling"]
          /\ UNCHANGED bill
      BY <1>5, <2>2 DEF InsertModelCall, Goto
    <3>2. RowsTyped'
      BY <1>1, <3>1 DEF RowsTyped, IsRow, RowStatuses, Places
    <3>3. \A b \in Calls \ {a} : HasRow(b)' <=> HasRow(b)
      BY <1>1, <3>1 DEF RowsTyped, HasRow
    <3>4. HasRow(a)'
      BY <1>1, <3>1 DEF RowsTyped, HasRow, IsRow
    <3>5. \A b \in Calls : KeyOf[b] = KeyOf[a] => ~HasRow(b)
      BY <2>2 DEF KeyTaken
    <3>6. QED
      BY <1>1, <3>1, <3>2, <3>3, <3>4, <3>5 DEF KeyInv, RowsTyped
  <2>3. QED
    BY <2>1, <2>2
<1>6. CASE \/ \E cost \in Costs : ProviderReplies(a, cost)
           \/ \E cost \in Costs \cup {0} : ProviderFailsUnclearly(a, cost)
  <2>1. PICK cost \in Nat, place \in {"replied", "unclear"} :
          /\ caller[a] = "calling"
          /\ caller' = [caller EXCEPT ![a] = place]
          /\ bill' = [bill EXCEPT ![a] = cost]
          /\ UNCHANGED row
    BY <1>6, CallsAssumption DEF ProviderReplies, ProviderFailsUnclearly, Goto
  <2>2. RowsTyped'
    BY <1>1, <2>1 DEF RowsTyped, Places
  <2>3. QED
    BY <1>1, <2>1, <2>2, NoNewRow DEF RowsTyped, HasRow
<1>7. CASE ProviderRefuses(a)
  <2>1. /\ caller[a] = "calling"
        /\ caller' = [caller EXCEPT ![a] = "refused"]
        /\ UNCHANGED <<row, bill>>
    BY <1>7 DEF ProviderRefuses, Goto
  <2>2. QED
    BY <1>1, <2>1, NoNewRow DEF RowsTyped, HasRow, Places
<1>8. CASE (\E used \in 0 .. db.maximum[Resource(a)] : HandleSuccess(a, used))
           \/ HandleFailure(a)
  <2>1. /\ caller[a] \in {"replied", "refused", "unclear"}
        /\ caller' = [caller EXCEPT ![a] = "returned"]
        /\ UNCHANGED bill
    BY <1>8 DEF HandleSuccess, HandleFailure, Goto
  <2>2. \/ UNCHANGED row
        \/ row' = [row EXCEPT ![a].status = "succeeded", ![a].settled = bill[a]]
        \/ \E s \in {"execution_unknown", "failed"} :
             row' = [row EXCEPT ![a].status = s]
    BY <1>8 DEF HandleSuccess, HandleFailure
  <2>3. RowsTyped'
    BY <1>1, <2>1, <2>2 DEF RowsTyped, IsRow, RowStatuses, Places
  <2>4. HasRow(a)
    BY <2>1 DEF KeyInv
  <2>5. \A b \in Calls : HasRow(b)' <=> HasRow(b)
    BY <1>1, <2>2, <2>4 DEF RowsTyped, HasRow, IsRow
  <2>6. QED
    BY <1>1, <2>1, <2>3, <2>5, NoNewRow DEF RowsTyped
<1>9. QED
  BY <1>2, <1>3, <1>4, <1>5, <1>6, <1>7, <1>8 DEF CallStep

\* So does whatever else happens.
LEMMA StepKeepsKeys == KeyInv /\ [Next]_vars => KeyInv'
<1> SUFFICES ASSUME KeyInv, [Next]_vars PROVE KeyInv'
  OBVIOUS
<1>1. RowsTyped
  BY DEF KeyInv
<1>2. ASSUME UNCHANGED <<row, caller, bill>> PROVE KeyInv'
  BY <1>1, <1>2, NoNewRow DEF RowsTyped, HasRow
<1>3. ASSUME NEW a \in Calls, NEW cost \in Costs \cup {0}, CallerCrashes(a, cost)
      PROVE  KeyInv'
  <2>1. /\ caller' = [caller EXCEPT ![a] = "returned"]
        /\ bill' = IF caller[a] = "calling" THEN [bill EXCEPT ![a] = cost] ELSE bill
        /\ UNCHANGED row
    BY <1>3 DEF CallerCrashes, Goto
  <2>2. RowsTyped'
    BY <1>1, <2>1, CallsAssumption DEF RowsTyped, Places
  <2>3. QED
    BY <1>1, <2>1, <2>2, NoNewRow DEF RowsTyped, HasRow
<1>4. ASSUME NEW a \in Calls, NEW invoiced \in Invoices, Reconcile(a, invoiced)
      PROVE  KeyInv'
  <2>1. PICK paid \in Nat :
          /\ row' = [row EXCEPT ![a].reconciled = TRUE,
                                ![a].invoiced = invoiced,
                                ![a].settled = paid]
          /\ UNCHANGED <<caller, bill>>
    BY <1>1, <1>4, CallsAssumption DEF Reconcile, RowsTyped, IsRow
  <2>2. /\ DOMAIN row' = Calls
        /\ \A b \in Calls \ {a} : row'[b] = row[b]
        /\ row'[a] = [row[a] EXCEPT !.reconciled = TRUE, !.invoiced = invoiced,
                                    !.settled = paid]
    BY <1>1, <2>1 DEF RowsTyped
  <2>3. row'[a].status = row[a].status
    BY <1>1, <2>2 DEF RowsTyped, IsRow
  <2>4. IsRow(row'[a])
    BY <1>1, <2>1, <2>2, <2>3 DEF RowsTyped, IsRow
  <2>5. RowsTyped'
    BY <1>1, <2>1, <2>2, <2>4 DEF RowsTyped
  <2>6. \A b \in Calls : HasRow(b)' <=> HasRow(b)
    BY <2>2, <2>3 DEF HasRow
  <2>7. QED
    BY <1>1, <2>1, <2>5, <2>6, NoNewRow DEF RowsTyped
<1>5. ASSUME NEW w \in Sweepers, NEW a \in Calls, NEW s \in RowStatuses,
             ResolveStranded(w, a, s)
      PROVE  KeyInv'
  <2>1. /\ row' = IF StillStranded(a) THEN [row EXCEPT ![a].status = s] ELSE row
        /\ UNCHANGED <<caller, bill>>
    BY <1>5 DEF ResolveStranded
  <2>2. RowsTyped'
    BY <1>1, <2>1 DEF RowsTyped, IsRow
  <2>3. \A b \in Calls : HasRow(b)' <=> HasRow(b)
    BY <1>1, <2>1 DEF RowsTyped, IsRow, HasRow, StillStranded, RowStatuses
  <2>4. QED
    BY <1>1, <2>1, <2>2, <2>3, NoNewRow DEF RowsTyped
<1>6. ASSUME NEW w \in Sweepers, cmd_sweep(w) \/ SweeperCrashes(w)
      PROVE  KeyInv'
  <2>1. CASE \/ StartSweep(w) \/ (\E r \in Rids : SweepHold(w, r))
             \/ SelectStranded(w) \/ SelectEstates(w)
             \/ (\E c \in Cells : SettleEstate(w, c)) \/ FinishSweep(w)
             \/ SweeperCrashes(w)
    BY <1>2, <2>1 DEF StartSweep, SweepHold, SelectStranded, SelectEstates,
                      SettleEstate, FinishSweep, SweeperCrashes
  <2>2. QED
    BY <1>5, <1>6, <2>1 DEF cmd_sweep
<1>7. CASE \/ \E a \in Calls : Expire(a)
           \/ cmd_dispute
           \/ \E c \in Cells : KillCell(c)
           \/ UNCHANGED vars
  BY <1>2, <1>7 DEF Expire, cmd_dispute, Dispute, KillCell, vars
<1>8. QED
  BY <1>3, <1>4, <1>6, <1>7, CallStepKeepsKeys DEF Next, cmd_reconcile

\* Replaying a key never pays a provider twice, whoever looked it up first
\* (gateway.py:149 and the UNIQUE key of model_calls).
THEOREM EveryKeyPaidOnce == Spec => []KeyPaidOnce
<1>1. Init => KeyInv
  BY DEF Init, KeyInv, RowsTyped, IsRow, NoRow, Places, HasRow
<1>2. KeyInv => KeyPaidOnce
  <2> SUFFICES ASSUME KeyInv, NEW a \in Calls, NEW b \in Calls,
                      a # b, KeyOf[a] = KeyOf[b]
               PROVE  bill[a] = 0 \/ bill[b] = 0
    BY DEF KeyPaidOnce
  <2>1. bill[a] \in Nat /\ bill[b] \in Nat
    BY DEF KeyInv, RowsTyped
  <2>2. QED
    BY <2>1 DEF KeyInv
<1>3. QED
  BY <1>1, <1>2, StepKeepsKeys, PTL DEF Spec

-----------------------------------------------------------------------------
(* The database. *)

ClosedStatuses == {"settled", "released"}

\* A sound database that differs from d in reservation r at most.
Touches(d, e, r) ==
  /\ Sound(e)
  /\ e.alive = d.alive
  /\ \A q \in Rids \ {r} : SameHold(d, e, q)

\* Each core keeps to its reservation, and leaves it in the status it says.
LEMMA CoresTouchOne ==
  ASSUME NEW d, Sound(d), NEW r \in Rids
  PROVE  /\ \A amount \in Nat :
              MayRequest(d, r, amount) => Touches(d, Request(d, r, amount), r)
         /\ \A amount \in Nat : MaySettle(d, r, amount) =>
              /\ Touches(d, Settle(d, r, amount), r)
              /\ Settle(d, r, amount).status[r] = SettledStatus(d, r, amount)
         /\ MayRelease(d, r) =>
              /\ Touches(d, Release(d, r), r)
              /\ Release(d, r).status[r] = "released"
         /\ \A s \in {"execution_unknown", "disputed"} :
              MayTransition(d, r, s) => Touches(d, Mark(d, r, s), r)
         /\ \A amount \in Nat : MayRecordUsage(d, r, amount) =>
              /\ Touches(d, RecordUsage(d, r, amount), r)
              /\ RecordUsage(d, r, amount).status = d.status
              /\ RecordUsage(d, r, amount).maximum = d.maximum
<1>1. d \in Databases
  BY DEF Sound
<1>2. ASSUME NEW amount \in Nat, MayRequest(d, r, amount)
      PROVE  Touches(d, Request(d, r, amount), r)
  BY <1>1, <1>2, CoresSound DEF Touches, SameHold, Request, Databases
<1>3. ASSUME NEW amount \in Nat, MaySettle(d, r, amount)
      PROVE  /\ Touches(d, Settle(d, r, amount), r)
             /\ Settle(d, r, amount).status[r] = SettledStatus(d, r, amount)
  BY <1>1, <1>3, CoresSound DEF Touches, SameHold, Settle, Databases
<1>4. ASSUME MayRelease(d, r)
      PROVE  /\ Touches(d, Release(d, r), r)
             /\ Release(d, r).status[r] = "released"
  BY <1>1, <1>4, CoresSound DEF Touches, SameHold, Release, Databases
<1>5. ASSUME NEW s \in {"execution_unknown", "disputed"}, MayTransition(d, r, s)
      PROVE  Touches(d, Mark(d, r, s), r)
  BY <1>1, <1>5, CoresSound DEF Touches, SameHold, Mark, Databases
<1>6. ASSUME NEW amount \in Nat, MayRecordUsage(d, r, amount)
      PROVE  /\ Touches(d, RecordUsage(d, r, amount), r)
             /\ RecordUsage(d, r, amount).status = d.status
             /\ RecordUsage(d, r, amount).maximum = d.maximum
  BY <1>1, <1>6, CoresSound DEF Touches, SameHold, RecordUsage, Databases
<1>7. QED
  BY <1>2, <1>3, <1>4, <1>5, <1>6

\* What is posted outside a hold leaves every hold alone.
LEMMA PostsOutside ==
  ASSUME NEW d, Sound(d), NEW r \in Rids, NEW amount \in Int
  PROVE  /\ Touches(d, PostDirect(d, r, amount), r)
         /\ PostDirect(d, r, amount).status = d.status
         /\ SameHold(d, PostDirect(d, r, amount), r)
<1> DEFINE e == PostDirect(d, r, amount)
<1>1. d \in Databases /\ HoldBalanced(d, r)
  BY DEF Sound, HoldsBalanced
<1>2. /\ e.direct \in [Rids -> Int]
      /\ e = [d EXCEPT !.direct = e.direct]
      /\ e.status = d.status /\ e.maximum = d.maximum /\ e.settled = d.settled
      /\ e.paid = d.paid /\ e.returned = d.returned /\ e.metered = d.metered
      /\ e.alive = d.alive
  BY <1>1 DEF Databases, PostDirect
<1> HIDE DEF e
<1>3. e \in Databases
  BY <1>1, <1>2 DEF Databases
<1>4. \A q \in Rids : SameHold(d, e, q)
  BY <1>2 DEF SameHold
<1>5. Sound(e)
  BY <1>3, <1>4 DEF Sound, HoldsBalanced, HoldBalanced, SameHold
<1>6. QED
  BY <1>2, <1>4, <1>5 DEF Touches, e

\* A settlement with the rest given back closes the hold.
LEMMA SettlingCloses ==
  ASSUME NEW d, Sound(d), NEW r \in Rids, NEW amount \in Nat, MaySettle(d, r, amount)
  PROVE  /\ Touches(d, SettleAndReleaseRemainder(d, r, amount), r)
         /\ SettleAndReleaseRemainder(d, r, amount).status[r] \in ClosedStatuses
<1> DEFINE e == Settle(d, r, amount)
<1>1. Touches(d, e, r) /\ e.status[r] = SettledStatus(d, r, amount)
  BY CoresTouchOne
<1>2. amount <= d.maximum[r] /\ d.maximum[r] \in Nat
  BY RowTypes DEF MaySettle, Sound
<1> HIDE DEF e
<1>3. CASE amount < d.maximum[r]
  <2>1. SettleAndReleaseRemainder(d, r, amount) = Release(e, r)
    BY <1>3 DEF SettleAndReleaseRemainder, e
  <2>2. MayRelease(e, r)
    BY <1>1, <1>2, <1>3 DEF SettledStatus, MayRelease, MayTransition,
                            AllowedTransitions
  <2>3. Touches(e, Release(e, r), r) /\ Release(e, r).status[r] = "released"
    BY <1>1, <2>2, CoresTouchOne DEF Touches
  <2>4. QED
    BY <1>1, <2>1, <2>3 DEF Touches, SameHold, ClosedStatuses
<1>4. CASE amount = d.maximum[r]
  <2>1. SettleAndReleaseRemainder(d, r, amount) = e
    BY <1>2, <1>4 DEF SettleAndReleaseRemainder, e
  <2>2. QED
    BY <1>1, <1>4, <2>1 DEF SettledStatus, ClosedStatuses
<1>5. QED
  BY <1>2, <1>3, <1>4

\* So does a charge, whether the hold covers it or not.
LEMMA ChargingCloses ==
  ASSUME NEW d, Sound(d), NEW r \in Rids, NEW charge \in Nat,
         MaySettleReal(d, r, charge)
  PROVE  /\ Touches(d, SettleReal(d, r, charge), r)
         /\ SettleReal(d, r, charge).status[r] \in ClosedStatuses
<1> DEFINE held == Smaller(charge, d.maximum[r])
           e == SettleAndReleaseRemainder(d, r, held)
<1>1. held \in Nat /\ charge - held \in Int
  BY RowTypes DEF Smaller, Sound
<1>2. MaySettle(d, r, held)
  BY DEF MaySettleReal
<1>3. SettleReal(d, r, charge) = PostDirect(e, r, charge - held)
  BY DEF SettleReal
<1> HIDE DEF held
<1>4. Touches(d, e, r) /\ e.status[r] \in ClosedStatuses
  BY <1>1, <1>2, SettlingCloses
<1> HIDE DEF e
<1>5. /\ Touches(e, PostDirect(e, r, charge - held), r)
      /\ PostDirect(e, r, charge - held).status = e.status
  BY <1>1, <1>4, PostsOutside DEF Touches
<1>6. QED
  BY <1>3, <1>4, <1>5 DEF Touches, SameHold

-----------------------------------------------------------------------------
(* Outcomes. *)

\* No step reopens a hold.
HoldsStayClosed ==
  \A r \in Rids : db.status[r] \in ClosedStatuses => db'.status[r] = db.status[r]

\* Recording what became of a call closes a hold that was open, or records nothing.
LEMMA RecordingCloses ==
  ASSUME Sound(db), RowsTyped, NEW a \in Calls,
         (\E used \in 0 .. db.maximum[Resource(a)] : HandleSuccess(a, used))
           \/ HandleFailure(a)
  PROVE  /\ Sound(db') /\ HoldsStayClosed
         /\ \/ row' = row
            \/ /\ db.status[Real(a)] \notin ClosedStatuses
               /\ \E s \in {"succeeded", "failed", "execution_unknown"} :
                    /\ \A b \in Calls :
                         row'[b].status = IF b = a THEN s ELSE row[b].status
                    /\ s # "execution_unknown" => db'.status[Real(a)] \in ClosedStatuses
<1> DEFINE real == Real(a)
           resource == Resource(a)
<1>1. real \in Rids /\ resource \in Rids /\ real # resource
  BY CallsAssumption DEF Real, Resource
<1>2. bill[a] \in Nat /\ DOMAIN row = Calls
  BY DEF RowsTyped
<1>3. \A b \in Calls : "status" \in DOMAIN row[b] /\ "settled" \in DOMAIN row[b]
  BY DEF RowsTyped, IsRow
<1>4. CASE UNCHANGED <<db, row>>
  BY <1>4 DEF HoldsStayClosed
<1>5. ASSUME NEW used \in Nat,
             MaySettleReal(db, real, bill[a]),
             MayMeter(db, resource, used), MaySettle(db, resource, used),
             db' = MirrorToSim(
                     SettleAndReleaseRemainder(
                       Meter(SettleReal(db, real, bill[a]), resource, used),
                       resource, used),
                     a, bill[a])
      PROVE  /\ Sound(db') /\ HoldsStayClosed
             /\ db.status[real] \notin ClosedStatuses
             /\ db'.status[real] \in ClosedStatuses
  <2> DEFINE charged == SettleReal(db, real, bill[a])
             metered == Meter(charged, resource, used)
             resolved == SettleAndReleaseRemainder(metered, resource, used)
  <2>1. Touches(db, charged, real) /\ charged.status[real] \in ClosedStatuses
    BY <1>1, <1>2, <1>5, ChargingCloses
  <2>2. SameHold(db, charged, resource)
    BY <1>1, <2>1 DEF Touches
  <2> HIDE DEF charged
  <2>3. /\ Touches(charged, metered, resource)
        /\ metered.status = charged.status /\ metered.maximum = charged.maximum
    <3>1. CASE used > 0
      <4>1. MayRecordUsage(charged, resource, used)
        BY <1>5, <2>2, <3>1 DEF MayMeter, MayRecordUsage, SameHold
      <4>2. metered = RecordUsage(charged, resource, used)
        BY <3>1 DEF Meter
      <4>3. QED
        BY <1>1, <2>1, <4>1, <4>2, CoresTouchOne DEF Touches
    <3>2. CASE used = 0
      <4>1. metered = charged
        BY <3>2 DEF Meter
      <4>2. QED
        BY <2>1, <4>1 DEF Touches, SameHold
    <3>3. QED
      BY <3>1, <3>2
  <2> HIDE DEF metered
  <2>4. MaySettle(metered, resource, used)
    BY <1>5, <2>2, <2>3 DEF MaySettle, MayTransition, SettledStatus, SameHold
  <2>5. /\ Touches(metered, resolved, resource)
        /\ resolved.status[resource] \in ClosedStatuses
    BY <1>1, <2>3, <2>4, SettlingCloses DEF Touches
  <2> HIDE DEF resolved
  <2>6. /\ Sound(db') /\ db'.status = resolved.status
    <3>1. db' = MirrorToSim(resolved, a, bill[a])
      BY <1>5 DEF resolved, metered, charged
    <3>2. CASE db' = resolved
      BY <2>5, <3>2 DEF Touches
    <3>3. CASE db' = [resolved EXCEPT !.mirrored[real] =
                        @ + MirrorMultiplier * bill[a]]
      <4>1. resolved \in Databases /\ \A r \in Rids : HoldBalanced(resolved, r)
        BY <2>5 DEF Touches, Sound, HoldsBalanced
      <4>2. MirrorMultiplier * bill[a] \in Nat
        BY <1>2, CallsAssumption
      <4>3. /\ db'.mirrored \in [Rids -> Nat]
            /\ db' = [resolved EXCEPT !.mirrored = db'.mirrored]
            /\ db'.status = resolved.status /\ db'.maximum = resolved.maximum
            /\ db'.settled = resolved.settled /\ db'.paid = resolved.paid
            /\ db'.returned = resolved.returned /\ db'.metered = resolved.metered
        BY <1>1, <3>3, <4>1, <4>2 DEF Databases
      <4>4. db' \in Databases
        BY <4>1, <4>3 DEF Databases
      <4>5. QED
        BY <4>1, <4>3, <4>4 DEF Sound, HoldsBalanced, HoldBalanced
    <3>4. QED
      BY <3>1, <3>2, <3>3 DEF MirrorToSim
  <2>7. db.status[real] \notin ClosedStatuses /\ db.status[resource] \notin ClosedStatuses
    BY <1>5 DEF MaySettleReal, MaySettle, MayTransition, AllowedTransitions,
                ClosedStatuses
  <2>8. \A r \in Rids \ {real, resource} : db'.status[r] = db.status[r]
    BY <2>1, <2>3, <2>5, <2>6 DEF Touches, SameHold
  <2>9. db'.status[real] \in ClosedStatuses
    BY <1>1, <2>1, <2>3, <2>5, <2>6 DEF Touches, SameHold
  <2>10. QED
    BY <2>6, <2>7, <2>8, <2>9 DEF HoldsStayClosed
<1>6. ASSUME NEW s \in {"released", "execution_unknown"},
             MayTransition(db, real, s), MayRelease(db, resource),
             db' = Release(IF s = "released" THEN Release(db, real)
                           ELSE Mark(db, real, s), resource)
      PROVE  /\ Sound(db') /\ HoldsStayClosed
             /\ db.status[real] \notin ClosedStatuses
             /\ s = "released" => db'.status[real] \in ClosedStatuses
  <2> DEFINE decided == IF s = "released" THEN Release(db, real)
                        ELSE Mark(db, real, s)
  <2>1. /\ Touches(db, decided, real)
        /\ s = "released" => decided.status[real] = "released"
    BY <1>1, <1>6, CoresTouchOne DEF MayRelease
  <2>2. db' = Release(decided, resource)
    BY <1>6
  <2> HIDE DEF decided
  <2>3. MayRelease(decided, resource)
    BY <1>1, <1>6, <2>1 DEF MayRelease, MayTransition, Touches, SameHold
  <2>4. Touches(decided, db', resource)
    BY <1>1, <2>1, <2>2, <2>3, CoresTouchOne DEF Touches
  <2>5. db.status[real] \notin ClosedStatuses /\ db.status[resource] \notin ClosedStatuses
    BY <1>6 DEF MayRelease, MayTransition, AllowedTransitions, ClosedStatuses
  <2>6. \A r \in Rids \ {real, resource} : db'.status[r] = db.status[r]
    BY <2>1, <2>4 DEF Touches, SameHold
  <2>7. db'.status[real] = decided.status[real]
    BY <1>1, <2>4 DEF Touches, SameHold
  <2>8. QED
    BY <2>1, <2>4, <2>5, <2>6, <2>7 DEF Touches, HoldsStayClosed, ClosedStatuses
<1>7. ASSUME NEW used \in 0 .. db.maximum[resource], HandleSuccess(a, used)
      PROVE  \/ UNCHANGED <<db, row>>
             \/ /\ used \in Nat
                /\ MaySettleReal(db, real, bill[a])
                /\ MayMeter(db, resource, used) /\ MaySettle(db, resource, used)
                /\ db' = MirrorToSim(
                           SettleAndReleaseRemainder(
                             Meter(SettleReal(db, real, bill[a]), resource, used),
                             resource, used),
                           a, bill[a])
                /\ row' = [row EXCEPT ![a].status = "succeeded",
                                      ![a].settled = bill[a]]
  <2>1. db.maximum[resource] \in Nat
    BY <1>1, RowTypes DEF Sound
  <2>2. QED
    BY <1>7, <2>1 DEF HandleSuccess
<1>8. ASSUME HandleFailure(a)
      PROVE  \/ UNCHANGED <<db, row>>
             \/ \E s \in {"released", "execution_unknown"} :
                  /\ MayTransition(db, real, s) /\ MayRelease(db, resource)
                  /\ db' = Release(IF s = "released" THEN Release(db, real)
                                   ELSE Mark(db, real, s), resource)
                  /\ row' = [row EXCEPT ![a].status =
                               IF s = "released" THEN "failed" ELSE s]
  BY <1>8 DEF HandleFailure
<1>9. CASE \E used \in 0 .. db.maximum[resource] : HandleSuccess(a, used)
  BY <1>2, <1>3, <1>4, <1>5, <1>7, <1>9
<1>10. CASE HandleFailure(a)
  BY <1>2, <1>3, <1>4, <1>6, <1>8, <1>10
<1>11. QED
  BY <1>9, <1>10

\* Every step keeps the database sound and what is closed closed.
LEMMA DatabaseStep ==
  ASSUME Sound(db), RowsTyped, [Next]_vars
  PROVE  Sound(db') /\ HoldsStayClosed
<1> DEFINE Goal == Sound(db') /\ HoldsStayClosed
<1>1. \A r \in Rids : db.status[r] \in Statuses \cup {"absent"} /\ db.metered[r] \in Nat
  BY RowTypes DEF Sound
<1>2. ASSUME UNCHANGED db PROVE Goal
  BY <1>2 DEF HoldsStayClosed
<1>3. ASSUME NEW r \in Rids, Touches(db, db', r), db.status[r] \notin ClosedStatuses
      PROVE  Goal
  BY <1>3 DEF Touches, SameHold, HoldsStayClosed
<1>4. ASSUME NEW r \in Rids, MayRelease(db, r), db' = Release(db, r) PROVE Goal
  BY <1>3, <1>4, CoresTouchOne DEF MayRelease, MayTransition, AllowedTransitions,
                                   ClosedStatuses
<1>5. ASSUME NEW r \in Rids, NEW s \in {"execution_unknown", "disputed"},
             MayTransition(db, r, s), db' = Mark(db, r, s)
      PROVE  Goal
  BY <1>3, <1>5, CoresTouchOne DEF MayTransition, AllowedTransitions, ClosedStatuses
<1>6. ASSUME NEW r \in Rids, NEW amount \in Nat, MayRequest(db, r, amount),
             db' = Request(db, r, amount)
      PROVE  Goal
  BY <1>3, <1>6, CoresTouchOne DEF MayRequest, ClosedStatuses
<1>7. ASSUME NEW c \in Cells,
             db' = Reclaim(db, c) \/ db' = Kill(db, c)
      PROVE  Goal
  <2>1. Sound(db')
    BY <1>7, EstatesSound
  <2>2. HoldsStayClosed
    <3>1. PICK d : /\ d \in {db, [db EXCEPT !.alive[c] = FALSE]}
                   /\ db' = Reclaim(d, c)
      BY <1>7 DEF Kill
    <3>2. d.status = db.status /\ {"status", "returned", "estate"} \subseteq DOMAIN d
      BY <3>1 DEF Sound, Databases
    <3>3. db'.status = ReleaseAll(d, ReleasableAtDeath(d, c)).status
      BY <3>1, <3>2 DEF Reclaim, ReturnCash, ReleaseAll
    <3>4. db'.status = [r \in Rids |-> IF r \in ReleasableAtDeath(d, c)
                                      THEN "released" ELSE db.status[r]]
      BY <3>2, <3>3 DEF ReleaseAll
    <3>5. \A r \in ReleasableAtDeath(d, c) : db.status[r] \notin ClosedStatuses
      BY <3>2 DEF ReleasableAtDeath, OpenStatuses, ClosedStatuses
    <3>6. QED
      BY <3>4, <3>5 DEF HoldsStayClosed
  <2>3. QED
    BY <2>1, <2>2
<1>8. ASSUME NEW a \in Calls, CallStep(a) PROVE Goal
  <2>1. Real(a) \in Rids /\ Resource(a) \in Rids
    BY CallsAssumption DEF Real, Resource
  <2>2. CASE \/ Begin(a) \/ InsertModelCall(a) \/ ProviderRefuses(a)
             \/ (\E cost \in Costs : ProviderReplies(a, cost))
             \/ (\E cost \in Costs \cup {0} : ProviderFailsUnclearly(a, cost))
    BY <1>2, <2>2 DEF Begin, InsertModelCall, ProviderRefuses, ProviderReplies,
                      ProviderFailsUnclearly
  <2>3. CASE \E estimate \in Estimates :
               ReserveReal(a, estimate) \/ ReserveResource(a, estimate)
    BY <1>2, <1>6, <2>1, <2>3, CallsAssumption DEF ReserveReal, ReserveResource
  <2>4. CASE Backout(a)
    BY <1>2, <1>4, <2>1, <2>4 DEF Backout
  <2>5. QED
    BY <1>8, <2>2, <2>3, <2>4, RecordingCloses DEF CallStep
<1>9. ASSUME NEW w \in Sweepers, NEW r \in Rids, SweepHold(w, r) PROVE Goal
  <2>1. CASE UNCHANGED db
    BY <1>2, <2>1
  <2>2. CASE MayResolveHold(r) /\ db' = ResolvedHold(r)
    <3>1. CASE Verdict(r) = "unknown"
      <4>1. /\ MayTransition(db, r, "execution_unknown")
            /\ db' = Mark(db, r, "execution_unknown")
        BY <2>2, <3>1 DEF MayResolveHold, ResolvedHold
      <4>2. QED
        BY <1>5, <4>1
    <3>2. CASE Verdict(r) = "happened"
      <4>1. MaySettle(db, r, db.metered[r]) /\ db' = Settle(db, r, db.metered[r])
        BY <2>2, <3>2 DEF MayResolveHold, ResolvedHold
      <4>2. db.status[r] \notin ClosedStatuses
        BY <4>1 DEF MaySettle, MayTransition, AllowedTransitions, ClosedStatuses
      <4>3. QED
        BY <1>1, <1>3, <4>1, <4>2, CoresTouchOne
    <3>3. CASE Verdict(r) = "not_happened"
      <4>1. MayRelease(db, r) /\ db' = Release(db, r)
        BY <2>2, <3>3 DEF MayResolveHold, ResolvedHold
      <4>2. QED
        BY <1>4, <4>1
    <3>4. Verdict(r) \in {"unknown", "happened", "not_happened"}
      BY DEF Verdict
    <3>5. QED
      BY <3>1, <3>2, <3>3, <3>4
  <2>3. QED
    BY <1>9, <2>1, <2>2 DEF SweepHold
<1>10. ASSUME NEW w \in Sweepers, cmd_sweep(w) \/ SweeperCrashes(w) PROVE Goal
  <2>1. CASE \/ StartSweep(w) \/ SelectStranded(w) \/ SelectEstates(w)
             \/ (\E a \in Calls, s \in RowStatuses : ResolveStranded(w, a, s))
             \/ FinishSweep(w) \/ SweeperCrashes(w)
    BY <1>2, <2>1 DEF StartSweep, SelectStranded, SelectEstates, ResolveStranded,
                      FinishSweep, SweeperCrashes
  <2>2. CASE \E c \in Cells : SettleEstate(w, c)
    BY <1>2, <1>7, <2>2 DEF SettleEstate
  <2>3. QED
    BY <1>9, <1>10, <2>1, <2>2 DEF cmd_sweep
<1>11. ASSUME NEW a \in Calls, NEW invoiced \in Invoices, Reconcile(a, invoiced)
       PROVE  Goal
  <2>1. Real(a) \in Rids /\ invoiced \in Nat /\ row[a].settled \in Nat
    BY CallsAssumption DEF Real, RowsTyped, IsRow
  <2>2. CASE db.status[Real(a)] \notin InvoiceableStatuses
    <3>1. db' = PostDirect(db, Real(a), invoiced - row[a].settled)
      BY <1>11, <2>2 DEF Reconcile, PostAdjustment
    <3>2. invoiced - row[a].settled \in Int
      BY <2>1
    <3>3. Touches(db, db', Real(a)) /\ db'.status = db.status
      BY <2>1, <3>1, <3>2, PostsOutside
    <3>4. QED
      BY <3>3 DEF Touches, HoldsStayClosed
  <2>3. CASE db.status[Real(a)] \in InvoiceableStatuses
    <3>1. db' = ResolveOpen(db, Real(a), invoiced)
      BY <1>11, <2>3 DEF Reconcile
    <3>2. db.status[Real(a)] \notin ClosedStatuses /\ MayRelease(db, Real(a))
      BY <2>3 DEF InvoiceableStatuses, ClosedStatuses, MayRelease, MayTransition,
                  AllowedTransitions
    <3>3. CASE invoiced = 0
      BY <1>4, <2>1, <3>1, <3>2, <3>3 DEF ResolveOpen
    <3>4. CASE invoiced > 0 /\ db.status[Real(a)] = "disputed"
      <4> DEFINE e == Release(db, Real(a))
      <4>1. db' = PostDirect(e, Real(a), invoiced)
        BY <3>1, <3>4 DEF ResolveOpen
      <4>2. Touches(db, e, Real(a))
        BY <2>1, <3>2, CoresTouchOne
      <4> HIDE DEF e
      <4>3. Touches(e, db', Real(a))
        BY <2>1, <4>1, <4>2, PostsOutside DEF Touches
      <4>4. Touches(db, db', Real(a))
        BY <4>2, <4>3 DEF Touches, SameHold
      <4>5. QED
        BY <1>3, <2>1, <3>2, <4>4
    <3>5. CASE invoiced > 0 /\ db.status[Real(a)] # "disputed"
      <4>1. db' = SettleReal(db, Real(a), invoiced)
        BY <3>1, <3>5 DEF ResolveOpen
      <4>2. MaySettleReal(db, Real(a), invoiced)
        <5>1. db.maximum[Real(a)] \in Nat
          BY <2>1, RowTypes DEF Sound
        <5>2. Smaller(invoiced, db.maximum[Real(a)]) \in 0 .. db.maximum[Real(a)]
          BY <2>1, <5>1 DEF Smaller
        <5>3. db.status[Real(a)] \in {"reserved", "execution_unknown"}
          BY <2>3, <3>5 DEF InvoiceableStatuses
        <5>4. QED
          BY <5>2, <5>3 DEF MaySettleReal, MaySettle, SettledStatus, MayTransition,
                            AllowedTransitions
      <4>3. Touches(db, db', Real(a))
        BY <2>1, <4>1, <4>2, ChargingCloses
      <4>4. QED
        BY <1>3, <2>1, <3>2, <4>3
    <3>6. QED
      BY <2>1, <3>3, <3>4, <3>5
  <2>4. QED
    BY <2>2, <2>3
<1>12. ASSUME NEW a \in Calls, Dispute(a) PROVE Goal
  <2>1. Real(a) \in Rids
    BY CallsAssumption DEF Real
  <2>2. QED
    BY <1>5, <1>12, <2>1 DEF Dispute
<1>13. CASE \/ \E a \in Calls :
                 Expire(a) \/ \E cost \in Costs \cup {0} : CallerCrashes(a, cost)
            \/ UNCHANGED vars
  BY <1>2, <1>13 DEF Expire, CallerCrashes, vars
<1>14. CASE \E c \in Cells : KillCell(c)
  BY <1>7, <1>14 DEF KillCell
<1>15. QED
  BY <1>8, <1>10, <1>11, <1>12, <1>13, <1>14 DEF Next, cmd_reconcile, cmd_dispute

\* Whatever is called, reconciled, disputed, swept and killed, the database stays
\* sound, and an outcome is final only when its hold is closed.
OutcomeInv ==
  /\ KeyInv
  /\ Sound(db)
  /\ \A a \in Calls : row[a].status \in {"succeeded", "failed"} =>
       db.status[Real(a)] \in ClosedStatuses
  /\ DOMAIN sweeper = Sweepers
  /\ \A w \in Sweepers, a \in Calls, s \in RowStatuses :
       sweeper[w].at = "calls" /\ <<a, s>> \in sweeper[w].todo =>
         \/ s = "execution_unknown"
         \/ s = "failed" /\ db.status[Real(a)] \in ClosedStatuses

\* Every step keeps that, and rewrites no outcome.
LEMMA OutcomeStep ==
  ASSUME OutcomeInv, [Next]_vars
  PROVE  /\ OutcomeInv'
         /\ \A a \in Calls : row[a].status \in {"succeeded", "failed"} =>
              row'[a].status = row[a].status
<1>1. Sound(db') /\ HoldsStayClosed
  BY DatabaseStep DEF OutcomeInv, KeyInv
<1>2. KeyInv'
  BY StepKeepsKeys DEF OutcomeInv
<1>3. \A a \in Calls : Real(a) \in Rids
  BY CallsAssumption DEF Real
<1>4. \A a \in Calls : "status" \in DOMAIN row[a] /\ "settled" \in DOMAIN row[a]
  BY DEF OutcomeInv, KeyInv, RowsTyped, IsRow
<1>5. DOMAIN row = Calls
  BY DEF OutcomeInv, KeyInv, RowsTyped
<1> DEFINE RowsFollow ==
             \A a \in Calls :
               \/ row'[a].status = row[a].status
               \/ /\ row[a].status \notin {"succeeded", "failed"}
                  /\ row'[a].status \in {"succeeded", "failed"} =>
                       db'.status[Real(a)] \in ClosedStatuses
           ListsFollow ==
             /\ DOMAIN sweeper' = Sweepers
             /\ \A w \in Sweepers, a \in Calls, s \in RowStatuses :
                  sweeper'[w].at = "calls" /\ <<a, s>> \in sweeper'[w].todo =>
                    \/ s = "execution_unknown"
                    \/ s = "failed" /\ db'.status[Real(a)] \in ClosedStatuses
<1>6. ASSUME UNCHANGED sweeper PROVE ListsFollow
  BY <1>1, <1>3, <1>6 DEF OutcomeInv, HoldsStayClosed
<1>7. ASSUME NEW a \in Calls, CallStep(a) PROVE RowsFollow /\ ListsFollow
  <2>1. ListsFollow
    BY <1>6, <1>7 DEF CallStep, Begin, ReserveReal, ReserveResource, Backout,
                      InsertModelCall, ProviderReplies, ProviderRefuses,
                      ProviderFailsUnclearly, HandleSuccess, HandleFailure
  <2>2. CASE InsertModelCall(a)
    <3>1. ~HasRow(a) \/ UNCHANGED row
      BY <2>2 DEF InsertModelCall, KeyTaken
    <3>2. UNCHANGED row \/ row' = [row EXCEPT ![a].status = "reserved"]
      BY <2>2 DEF InsertModelCall
    <3>3. RowsFollow
      BY <1>4, <1>5, <3>1, <3>2 DEF HasRow
    <3>4. QED
      BY <2>1, <3>3
  <2>3. CASE (\E used \in 0 .. db.maximum[Resource(a)] : HandleSuccess(a, used))
               \/ HandleFailure(a)
    <3>1. \/ row' = row
          \/ /\ db.status[Real(a)] \notin ClosedStatuses
             /\ \E s \in {"succeeded", "failed", "execution_unknown"} :
                  /\ \A b \in Calls :
                       row'[b].status = IF b = a THEN s ELSE row[b].status
                  /\ s # "execution_unknown" =>
                       db'.status[Real(a)] \in ClosedStatuses
      BY <2>3, RecordingCloses DEF OutcomeInv, KeyInv
    <3>2. RowsFollow
      BY <3>1 DEF OutcomeInv
    <3>3. QED
      BY <2>1, <3>2
  <2>4. CASE \/ Begin(a) \/ Backout(a) \/ ProviderRefuses(a)
             \/ (\E estimate \in Estimates :
                   ReserveReal(a, estimate) \/ ReserveResource(a, estimate))
             \/ (\E cost \in Costs : ProviderReplies(a, cost))
             \/ (\E cost \in Costs \cup {0} : ProviderFailsUnclearly(a, cost))
    BY <2>1, <2>4 DEF Begin, Backout, ProviderRefuses, ReserveReal, ReserveResource,
                      ProviderReplies, ProviderFailsUnclearly
  <2>5. QED
    BY <1>7, <2>2, <2>3, <2>4 DEF CallStep
<1>8. ASSUME NEW w \in Sweepers, NEW at, NEW todo, Does(w, at, todo),
             at = "calls" =>
               \A a \in Calls, s \in RowStatuses : <<a, s>> \in todo =>
                 \/ s = "execution_unknown"
                 \/ s = "failed" /\ db'.status[Real(a)] \in ClosedStatuses
      PROVE  ListsFollow
  <2>1. /\ DOMAIN sweeper' = Sweepers
        /\ sweeper'[w] = [at |-> at, todo |-> todo]
        /\ \A v \in Sweepers \ {w} : sweeper'[v] = sweeper[v]
    BY <1>8 DEF Does, OutcomeInv
  <2>2. QED
    BY <1>1, <1>3, <1>8, <2>1 DEF OutcomeInv, HoldsStayClosed
<1>9. ASSUME NEW w \in Sweepers, cmd_sweep(w) \/ SweeperCrashes(w)
      PROVE  RowsFollow /\ ListsFollow
  <2>1. CASE \/ StartSweep(w) \/ (\E r \in Rids : SweepHold(w, r))
             \/ SelectEstates(w) \/ (\E c \in Cells : SettleEstate(w, c))
             \/ FinishSweep(w) \/ SweeperCrashes(w)
    <3>1. UNCHANGED row
      BY <2>1 DEF StartSweep, SweepHold, SelectEstates, SettleEstate, FinishSweep,
                  SweeperCrashes
    <3>2. \E at \in {"idle", "holds", "estates"} : \E todo : Does(w, at, todo)
      BY <2>1 DEF StartSweep, SweepHold, SelectEstates, SettleEstate, FinishSweep,
                  SweeperCrashes
    <3>3. QED
      BY <1>8, <3>1, <3>2
  <2>2. CASE SelectStranded(w)
    <3>1. /\ Does(w, "calls", {<<a, StrandedStatus(a)>> : a \in StrandedCalls})
          /\ UNCHANGED <<db, row>>
      BY <2>2 DEF SelectStranded
    <3>2. ASSUME NEW a \in Calls, NEW s \in RowStatuses,
                 <<a, s>> \in {<<b, StrandedStatus(b)>> : b \in StrandedCalls}
          PROVE  \/ s = "execution_unknown"
                 \/ s = "failed" /\ db'.status[Real(a)] \in ClosedStatuses
      BY <3>1, <3>2 DEF StrandedStatus, ClosedStatuses
    <3>3. QED
      BY <1>8, <3>1, <3>2
  <2>3. ASSUME NEW a \in Calls, NEW s \in RowStatuses, ResolveStranded(w, a, s)
        PROVE  RowsFollow /\ ListsFollow
    <3>1. /\ sweeper[w].at = "calls" /\ <<a, s>> \in sweeper[w].todo
          /\ row' = IF StillStranded(a) THEN [row EXCEPT ![a].status = s] ELSE row
          /\ Does(w, "calls", sweeper[w].todo \ {<<a, s>>})
          /\ UNCHANGED db
      BY <2>3 DEF ResolveStranded
    <3>2. RowsFollow
      BY <1>4, <1>5, <3>1 DEF StillStranded, OutcomeInv
    <3>3. ListsFollow
      BY <1>8, <3>1 DEF OutcomeInv
    <3>4. QED
      BY <3>2, <3>3
  <2>4. QED
    BY <1>9, <2>1, <2>2, <2>3 DEF cmd_sweep
<1>10. ASSUME NEW a \in Calls, NEW invoiced \in Invoices, Reconcile(a, invoiced)
       PROVE  RowsFollow /\ ListsFollow
  <2>1. UNCHANGED sweeper /\ \E paid :
          row' = [row EXCEPT ![a].reconciled = TRUE, ![a].invoiced = invoiced,
                             ![a].settled = paid]
    BY <1>10 DEF Reconcile
  <2>2. \A b \in Calls : row'[b].status = row[b].status
    BY <1>4, <1>5, <2>1
  <2>3. QED
    BY <1>6, <2>1, <2>2
<1>11. ASSUME \/ \E a \in Calls :
                   Expire(a) \/ \E cost \in Costs \cup {0} : CallerCrashes(a, cost)
              \/ cmd_dispute
              \/ \E c \in Cells : KillCell(c)
              \/ UNCHANGED vars
       PROVE  RowsFollow /\ ListsFollow
  <2>1. UNCHANGED <<row, sweeper>>
    BY <1>11 DEF Expire, CallerCrashes, cmd_dispute, Dispute, KillCell, vars
  <2>2. ListsFollow
    BY <1>6, <2>1
  <2>3. RowsFollow
    BY <2>1
  <2>4. QED
    BY <2>2, <2>3
<1>12. RowsFollow /\ ListsFollow
  BY <1>7, <1>9, <1>10, <1>11 DEF Next, cmd_reconcile
<1>13. \A a \in Calls : row'[a].status \in {"succeeded", "failed"} =>
         db'.status[Real(a)] \in ClosedStatuses
  <2> SUFFICES ASSUME NEW a \in Calls, row'[a].status \in {"succeeded", "failed"}
               PROVE  db'.status[Real(a)] \in ClosedStatuses
    OBVIOUS
  <2>1. CASE row'[a].status = row[a].status
    BY <1>1, <1>3, <2>1 DEF OutcomeInv, HoldsStayClosed
  <2>2. CASE row'[a].status # row[a].status
    BY <1>12, <2>2
  <2>3. QED
    BY <2>1, <2>2
<1>14. \A a \in Calls : row[a].status \in {"succeeded", "failed"} =>
         row'[a].status = row[a].status
  BY <1>12
<1>15. ListsFollow
  BY <1>12
<1>16. QED
  BY <1>1, <1>2, <1>13, <1>14, <1>15 DEF OutcomeInv

\* At first there are no calls, and so no outcomes.
LEMMA OutcomeInit == Init => OutcomeInv
<1> SUFFICES ASSUME Init PROVE OutcomeInv
  OBVIOUS
<1>1. KeyInv
  BY DEF Init, KeyInv, RowsTyped, IsRow, NoRow, Places, HasRow
<1>2. Sound(db)
  BY EmptySound DEF Init
<1>3. \A a \in Calls : row[a].status = "absent"
  BY DEF Init, NoRow
<1>4. DOMAIN sweeper = Sweepers /\ \A w \in Sweepers : sweeper[w].at = "idle"
  BY DEF Init, Idle
<1>5. QED
  BY <1>1, <1>2, <1>3, <1>4 DEF OutcomeInv

\* A handler that comes back after a sweep, or a sweep with a stale list, never
\* rewrites an outcome (gateway.py:834, resolve_stranded_reserved_calls).
THEOREM OutcomesNeverRewritten == Spec => OutcomesStay
<1>1. Init => OutcomeInv
  BY OutcomeInit
<1>2. OutcomeInv /\ [Next]_vars => OutcomeInv'
  BY OutcomeStep
<1>3. OutcomeInv /\ [Next]_vars =>
        [\A a \in Calls : row[a].status \in {"succeeded", "failed"} =>
           row'[a].status = row[a].status]_vars
  BY OutcomeStep
<1>4. QED
  BY <1>1, <1>2, <1>3, PTL DEF Spec, OutcomesStay

-----------------------------------------------------------------------------
(* Charges. *)

\* Two databases that agree on what the ledger charged for reservation q.
SameCharge(d, e, q) ==
  /\ e.status[q] = d.status[q]
  /\ e.paid[q] = d.paid[q]
  /\ e.direct[q] = d.direct[q]

\* Every other reservation's charge is left alone.
ChargesOnly(d, e, r) == \A q \in Rids \ {r} : SameCharge(d, e, q)

\* What each core charges for its reservation: only a settlement anything.
LEMMA CoresCharge ==
  ASSUME NEW d \in Databases, NEW r \in Rids
  PROVE  /\ \A amount \in Nat :
              /\ ChargesOnly(d, Request(d, r, amount), r)
              /\ Request(d, r, amount).status[r] = "reserved"
              /\ Request(d, r, amount).paid[r] = d.paid[r]
              /\ Request(d, r, amount).direct[r] = d.direct[r]
         /\ \A amount \in Nat :
              /\ ChargesOnly(d, Settle(d, r, amount), r)
              /\ Settle(d, r, amount).status[r] = SettledStatus(d, r, amount)
              /\ Settle(d, r, amount).paid[r] = d.paid[r] + amount
              /\ Settle(d, r, amount).direct[r] = d.direct[r]
         /\ ChargesOnly(d, Release(d, r), r)
         /\ Release(d, r).status[r] = "released"
         /\ Release(d, r).paid[r] = d.paid[r]
         /\ Release(d, r).direct[r] = d.direct[r]
         /\ \A s \in Statuses :
              /\ ChargesOnly(d, Mark(d, r, s), r)
              /\ Mark(d, r, s).status[r] = s
              /\ Mark(d, r, s).paid[r] = d.paid[r]
              /\ Mark(d, r, s).direct[r] = d.direct[r]
         /\ \A amount \in Int :
              /\ ChargesOnly(d, PostDirect(d, r, amount), r)
              /\ PostDirect(d, r, amount).status[r] = d.status[r]
              /\ PostDirect(d, r, amount).paid[r] = d.paid[r]
              /\ PostDirect(d, r, amount).direct[r] = d.direct[r] + amount
<1> USE DEF ChargesOnly, SameCharge, Databases
<1>1. ASSUME NEW amount \in Nat
      PROVE  /\ ChargesOnly(d, Request(d, r, amount), r)
             /\ Request(d, r, amount).status[r] = "reserved"
             /\ Request(d, r, amount).paid[r] = d.paid[r]
             /\ Request(d, r, amount).direct[r] = d.direct[r]
  BY DEF Request
<1>2. ASSUME NEW amount \in Nat
      PROVE  /\ ChargesOnly(d, Settle(d, r, amount), r)
             /\ Settle(d, r, amount).status[r] = SettledStatus(d, r, amount)
             /\ Settle(d, r, amount).paid[r] = d.paid[r] + amount
             /\ Settle(d, r, amount).direct[r] = d.direct[r]
  BY DEF Settle
<1>3. /\ ChargesOnly(d, Release(d, r), r)
      /\ Release(d, r).status[r] = "released"
      /\ Release(d, r).paid[r] = d.paid[r]
      /\ Release(d, r).direct[r] = d.direct[r]
  BY DEF Release
<1>4. ASSUME NEW s \in Statuses
      PROVE  /\ ChargesOnly(d, Mark(d, r, s), r)
             /\ Mark(d, r, s).status[r] = s
             /\ Mark(d, r, s).paid[r] = d.paid[r]
             /\ Mark(d, r, s).direct[r] = d.direct[r]
  BY DEF Mark
<1>5. ASSUME NEW amount \in Int
      PROVE  /\ ChargesOnly(d, PostDirect(d, r, amount), r)
             /\ PostDirect(d, r, amount).status[r] = d.status[r]
             /\ PostDirect(d, r, amount).paid[r] = d.paid[r]
             /\ PostDirect(d, r, amount).direct[r] = d.direct[r] + amount
  BY DEF PostDirect
<1> USE DEF SameCharge
<1>6. QED
  BY <1>1, <1>2, <1>3, <1>4, <1>5

\* A settlement with the rest given back charges what it settles.
LEMMA SettlingCharges ==
  ASSUME NEW d, Sound(d), NEW r \in Rids, NEW amount \in Nat, MaySettle(d, r, amount)
  PROVE  LET e == SettleAndReleaseRemainder(d, r, amount) IN
           /\ ChargesOnly(d, e, r)
           /\ e.paid[r] = d.paid[r] + amount
           /\ e.direct[r] = d.direct[r]
<1> DEFINE e == Settle(d, r, amount)
<1>1. d \in Databases /\ Sound(e)
  BY CoresTouchOne DEF Sound, Touches
<1>2. /\ ChargesOnly(d, e, r)
      /\ e.paid[r] = d.paid[r] + amount
      /\ e.direct[r] = d.direct[r]
  BY <1>1, CoresCharge
<1> HIDE DEF e
<1>3. /\ ChargesOnly(e, Release(e, r), r)
      /\ Release(e, r).paid[r] = e.paid[r]
      /\ Release(e, r).direct[r] = e.direct[r]
  BY <1>1, CoresCharge DEF Sound
<1>4. SettleAndReleaseRemainder(d, r, amount) \in {e, Release(e, r)}
  BY DEF SettleAndReleaseRemainder, e
<1>5. QED
  BY <1>2, <1>3, <1>4 DEF ChargesOnly, SameCharge

\* A charge is charged whole, whether the hold covers it or not.
LEMMA ChargingCharges ==
  ASSUME NEW d, Sound(d), NEW r \in Rids, NEW charge \in Nat,
         MaySettleReal(d, r, charge)
  PROVE  LET e == SettleReal(d, r, charge) IN
           /\ ChargesOnly(d, e, r)
           /\ e.paid[r] + e.direct[r] = d.paid[r] + d.direct[r] + charge
<1> DEFINE held == Smaller(charge, d.maximum[r])
           e == SettleAndReleaseRemainder(d, r, held)
<1>1. held \in Nat /\ charge - held \in Int
  BY RowTypes DEF Smaller, Sound
<1>2. MaySettle(d, r, held)
  BY DEF MaySettleReal
<1>3. SettleReal(d, r, charge) = PostDirect(e, r, charge - held)
  BY DEF SettleReal
<1> HIDE DEF held
<1>4. /\ Sound(e) /\ ChargesOnly(d, e, r)
      /\ e.paid[r] = d.paid[r] + held
      /\ e.direct[r] = d.direct[r]
  BY <1>1, <1>2, SettlingCloses, SettlingCharges DEF Touches
<1> HIDE DEF e
<1> DEFINE f == PostDirect(e, r, charge - held)
<1>5. /\ ChargesOnly(e, f, r)
      /\ f.paid[r] = e.paid[r]
      /\ f.direct[r] = e.direct[r] + (charge - held)
  BY <1>1, <1>4, CoresCharge DEF Sound
<1>6. d.paid[r] \in Int /\ d.direct[r] \in Int
  BY DEF Sound, Databases
<1> HIDE DEF f
<1>7. ChargesOnly(d, f, r)
  BY <1>4, <1>5 DEF ChargesOnly, SameCharge
<1>8. f.paid[r] + f.direct[r] = d.paid[r] + d.direct[r] + charge
  BY <1>1, <1>4, <1>5, <1>6
<1>9. QED
  BY <1>3, <1>7, <1>8 DEF f

\* A death charges nothing: a model call's hold is not the Cell's to release.
LEMMA DeathsCharge ==
  ASSUME NEW d, Sound(d), NEW c \in Cells
  PROVE  \A q \in Rids : SameCharge(d, Reclaim(d, c), q) /\ SameCharge(d, Kill(d, c), q)
<1>1. \A x : ReleasableAtDeath(x, c) = {}
  BY CallsAssumption DEF ReleasableAtDeath
<1>2. ASSUME NEW x \in Databases
      PROVE  \A q \in Rids : SameCharge(x, Reclaim(x, c), q)
  <2> DEFINE e == ReleaseAll(x, {})
  <2>1. e.status = x.status /\ e.paid = x.paid /\ e.direct = x.direct
    BY DEF ReleaseAll, Databases
  <2>2. {"status", "paid", "direct"} \subseteq DOMAIN e
    BY DEF ReleaseAll, Databases
  <2>3. Reclaim(x, c) = ReturnCash(e, c)
    BY <1>1 DEF Reclaim
  <2> HIDE DEF e
  <2>4. /\ ReturnCash(e, c).status = e.status
        /\ ReturnCash(e, c).paid = e.paid
        /\ ReturnCash(e, c).direct = e.direct
    BY <2>2 DEF ReturnCash
  <2>5. QED
    BY <2>1, <2>3, <2>4 DEF SameCharge
<1>3. d \in Databases
  BY DEF Sound
<1> DEFINE x == [d EXCEPT !.alive[c] = FALSE]
<1>4. /\ x \in Databases
      /\ x.status = d.status /\ x.paid = d.paid /\ x.direct = d.direct
  BY <1>3 DEF Databases
<1>5. Kill(d, c) = Reclaim(x, c)
  BY DEF Kill
<1> HIDE DEF x
<1>6. QED
  BY <1>2, <1>3, <1>4, <1>5 DEF SameCharge

\* A reported success charges what the provider billed, to its call only.
LEMMA SuccessCharges ==
  ASSUME Sound(db), NEW a \in Calls, bill[a] \in Nat, NEW used \in Nat,
         MaySettleReal(db, Real(a), bill[a]),
         MayMeter(db, Resource(a), used), MaySettle(db, Resource(a), used),
         db' = MirrorToSim(
                 SettleAndReleaseRemainder(
                   Meter(SettleReal(db, Real(a), bill[a]), Resource(a), used),
                   Resource(a), used),
                 a, bill[a])
  PROVE  /\ Charged(a)' = Charged(a) + bill[a]
         /\ db'.status[Real(a)] \in ClosedStatuses
         /\ \A b \in Calls \ {a} : SameCharge(db, db', Real(b))
<1> DEFINE real == Real(a)
           resource == Resource(a)
           charged == SettleReal(db, real, bill[a])
           metered == Meter(charged, resource, used)
           resolved == SettleAndReleaseRemainder(metered, resource, used)
<1>1. /\ real \in Rids /\ resource \in Rids /\ real # resource
      /\ \A b \in Calls \ {a} : Real(b) \in Rids \ {real, resource}
  BY CallsAssumption DEF Real, Resource
<1>2. /\ Touches(db, charged, real) /\ charged.status[real] \in ClosedStatuses
      /\ ChargesOnly(db, charged, real)
      /\ charged.paid[real] + charged.direct[real] = Charged(a) + bill[a]
  <2>1. Touches(db, charged, real) /\ charged.status[real] \in ClosedStatuses
    BY <1>1, ChargingCloses
  <2>2. /\ ChargesOnly(db, charged, real)
        /\ charged.paid[real] + charged.direct[real]
             = db.paid[real] + db.direct[real] + bill[a]
    BY <1>1, ChargingCharges
  <2>3. QED
    BY <2>1, <2>2 DEF Charged
<1> HIDE DEF charged
<1>3. SameHold(db, charged, resource)
  BY <1>1, <1>2 DEF Touches
<1>4. /\ Touches(charged, metered, resource) /\ metered.maximum = charged.maximum
      /\ metered.status = charged.status
      /\ metered.paid = charged.paid /\ metered.direct = charged.direct
  <2>1. CASE used > 0
    <3>1. MayRecordUsage(charged, resource, used)
      BY <1>3, <2>1 DEF MayMeter, MayRecordUsage, SameHold
    <3>2. metered = RecordUsage(charged, resource, used)
      BY <2>1 DEF Meter
    <3>3. Touches(charged, metered, resource) /\ metered.maximum = charged.maximum
          /\ metered.status = charged.status
      BY <1>1, <1>2, <3>1, <3>2, CoresTouchOne DEF Touches
    <3>4. metered.paid = charged.paid /\ metered.direct = charged.direct
      BY <1>2, <3>2 DEF RecordUsage, Touches, Sound, Databases
    <3>5. QED
      BY <3>3, <3>4
  <2>2. CASE used = 0
    <3>1. metered = charged
      BY <2>2 DEF Meter
    <3>2. QED
      BY <1>2, <3>1 DEF Touches, SameHold
  <2>3. QED
    BY <2>1, <2>2
<1> HIDE DEF metered
<1>5. MaySettle(metered, resource, used)
  BY <1>3, <1>4 DEF MaySettle, MayTransition, SettledStatus, SameHold
<1>6. Sound(resolved) /\ ChargesOnly(metered, resolved, resource)
  BY <1>1, <1>4, <1>5, SettlingCloses, SettlingCharges DEF Touches
<1>7. db' = MirrorToSim(resolved, a, bill[a])
  BY DEF resolved, metered, charged
<1> HIDE DEF resolved
<1>8. /\ db'.status = resolved.status
      /\ db'.paid = resolved.paid /\ db'.direct = resolved.direct
  BY <1>6, <1>7 DEF MirrorToSim, Sound, Databases
<1>9. \A q \in Rids \ {resource} : SameCharge(charged, db', q)
  BY <1>4, <1>6, <1>8 DEF ChargesOnly, SameCharge
<1>10. \A q \in Rids \ {real, resource} : SameCharge(db, db', q)
  BY <1>2, <1>9 DEF ChargesOnly, SameCharge
<1>11. SameCharge(charged, db', real)
  BY <1>1, <1>9
<1>12. QED
  BY <1>1, <1>2, <1>10, <1>11 DEF SameCharge, Charged

-----------------------------------------------------------------------------
(* What is known of a call. *)

\* Places where a call has a hold that only an invoice may have closed, and
\* places it has not been billed at.
Holding == {"one", "both", "backout", "calling", "replied", "refused", "unclear"}
Unbilled == {"start", "checked", "one", "backout", "both", "calling", "refused"}

KnownCharge(a) ==
  CASE row[a].reconciled -> row[a].invoiced
    [] ~row[a].reconciled /\ row[a].status = "succeeded" -> bill[a]
    [] OTHER -> 0

CallInv(a) ==
  /\ Charged(a) = KnownCharge(a)
  /\ ~row[a].reconciled => row[a].settled = Charged(a)
  /\ db.status[Real(a)] \notin ClosedStatuses =>
       db.direct[Real(a)] = 0 /\ db.status[Real(a)] # "partially_settled"
  /\ row[a].reconciled => HasRow(a) /\ db.status[Real(a)] \in ClosedStatuses
  /\ HasRow(a) => db.status[Real(a)] # "absent"
  /\ row[a].status = "succeeded" => caller[a] = "returned"
  /\ caller[a] \in Holding /\ ~row[a].reconciled => db.status[Real(a)] \in OpenStatuses
  /\ caller[a] \in Unbilled => bill[a] = 0
  /\ bill[a] > 0 /\ ~row[a].reconciled =>
       db.status[Real(a)] \in OpenStatuses \/ row[a].status = "succeeded"

\* A call whose row, bill and charge a step leaves alone, wherever it goes on to.
LEMMA CallUntouched ==
  ASSUME NEW a \in Calls, CallInv(a), SameCharge(db, db', Real(a)),
         row'[a] = row[a], bill'[a] = bill[a],
         \/ caller'[a] = caller[a]
         \/ caller'[a] = "returned"
         \/ /\ caller[a] # "returned"
            /\ caller'[a] \in Holding => caller[a] \in Holding
            /\ caller'[a] \in Unbilled => caller[a] \in Unbilled
  PROVE  CallInv(a)'
<1>1. Charged(a)' = Charged(a) /\ KnownCharge(a)' = KnownCharge(a)
  BY DEF Charged, KnownCharge, SameCharge
<1>2. QED
  BY <1>1 DEF CallInv, SameCharge, HasRow, Holding, Unbilled

\* A call whose open hold is only marked.
LEMMA CallMarked ==
  ASSUME NEW a \in Calls, CallInv(a),
         db.status[Real(a)] \in {"reserved", "execution_unknown"},
         db'.status[Real(a)] \in {"execution_unknown", "disputed"},
         db'.paid[Real(a)] = db.paid[Real(a)],
         db'.direct[Real(a)] = db.direct[Real(a)],
         row'[a] = row[a], bill'[a] = bill[a], caller'[a] = caller[a]
  PROVE  CallInv(a)'
<1>1. Charged(a)' = Charged(a) /\ KnownCharge(a)' = KnownCharge(a)
  BY DEF Charged, KnownCharge
<1>2. QED
  BY <1>1 DEF CallInv, HasRow, ClosedStatuses, OpenStatuses

\* Nothing has been charged for a call whose hold is open.
LEMMA OpenUncharged ==
  ASSUME Sound(db), NEW a \in Calls, CallInv(a), db.status[Real(a)] \notin ClosedStatuses
  PROVE  /\ ~row[a].reconciled /\ row[a].settled = 0
         /\ db.paid[Real(a)] = 0 /\ db.direct[Real(a)] = 0 /\ Charged(a) = 0
<1>1. Real(a) \in Rids
  BY CallsAssumption DEF Real
<1>2. db.direct[Real(a)] = 0 /\ db.status[Real(a)] # "partially_settled"
      /\ ~row[a].reconciled /\ row[a].settled = Charged(a)
  BY DEF CallInv
<1>3. db.status[Real(a)] \in {"absent", "reserved", "execution_unknown", "disputed"}
  BY <1>1, <1>2, RowTypes DEF Sound, Statuses, OpenStatuses, ClosedStatuses
<1>4. db.paid[Real(a)] = 0
  <2>1. HoldBalanced(db, Real(a))
    BY <1>1 DEF Sound, HoldsBalanced
  <2>2. QED
    BY <1>3, <2>1 DEF HoldBalanced, Balanced
<1>5. QED
  BY <1>2, <1>4 DEF Charged

-----------------------------------------------------------------------------
(* Types. *)

RowRecords ==
  [status : RowStatuses \cup {"absent"}, settled : Nat, reconciled : BOOLEAN,
   invoiced : Nat]

SweepersTyped ==
  \A w \in Sweepers :
    /\ sweeper[w].at \in {"idle", "holds", "calls", "estates"}
    /\ sweeper[w].at = "idle" => sweeper[w].todo = {}

\* Every table and every process keeps its type.
LEMMA CallsTypeStep ==
  ASSUME TypeOK, OutcomeInv, OutcomeInv', [Next]_vars
  PROVE  TypeOK'
<1>1. db' \in Databases /\ caller' \in [Calls -> Places] /\ bill' \in [Calls -> Nat]
  BY DEF OutcomeInv, KeyInv, RowsTyped, Sound
<1>2. row \in [Calls -> RowRecords] /\ bill \in [Calls -> Nat] /\ expired \subseteq Calls
      /\ SweepersTyped
  BY DEF TypeOK, RowRecords, SweepersTyped
<1> DEFINE Goal == row' \in [Calls -> RowRecords] /\ expired' \subseteq Calls /\ SweepersTyped'
<1>3. ASSUME NEW w \in Sweepers, NEW at \in {"idle", "holds", "calls", "estates"}, NEW todo,
             Does(w, at, todo), at = "idle" => todo = {}
      PROVE  SweepersTyped'
  <2>1. /\ sweeper'[w] = [at |-> at, todo |-> todo]
        /\ \A v \in Sweepers \ {w} : sweeper'[v] = sweeper[v]
    BY <1>3 DEF Does, OutcomeInv
  <2>2. QED
    BY <1>2, <1>3, <2>1 DEF SweepersTyped
<1>4. UNCHANGED sweeper => SweepersTyped'
  BY <1>2 DEF SweepersTyped
<1>5. ASSUME NEW a \in Calls, CallStep(a) PROVE Goal
  <2>1. UNCHANGED <<sweeper, expired>>
    BY <1>5 DEF CallStep, Begin, ReserveReal, ReserveResource, Backout,
                InsertModelCall, ProviderReplies, ProviderRefuses,
                ProviderFailsUnclearly, HandleSuccess, HandleFailure
  <2>2. \/ row' = row
        \/ row' = [row EXCEPT ![a].status = "succeeded", ![a].settled = bill[a]]
        \/ \E s \in RowStatuses : row' = [row EXCEPT ![a].status = s]
    BY <1>5 DEF CallStep, Begin, ReserveReal, ReserveResource, Backout,
                InsertModelCall, ProviderReplies, ProviderRefuses, RowStatuses,
                ProviderFailsUnclearly, HandleSuccess, HandleFailure
  <2>3. row' \in [Calls -> RowRecords]
    BY <1>2, <2>2 DEF RowRecords, RowStatuses
  <2>4. QED
    BY <1>2, <1>4, <2>1, <2>3
<1>6. ASSUME NEW w \in Sweepers, cmd_sweep(w) \/ SweeperCrashes(w) PROVE Goal
  <2>1. UNCHANGED expired
    BY <1>6 DEF cmd_sweep, StartSweep, SweepHold, SelectStranded, SelectEstates,
                ResolveStranded, SettleEstate, FinishSweep, SweeperCrashes
  <2>2. \E at \in {"idle", "holds", "calls", "estates"} :
          \E todo : Does(w, at, todo) /\ (at = "idle" => todo = {})
    BY <1>6 DEF cmd_sweep, StartSweep, SweepHold, SelectStranded, SelectEstates,
                ResolveStranded, SettleEstate, FinishSweep, SweeperCrashes
  <2>3. row' = row \/ \E a \in Calls, s \in RowStatuses : row' = [row EXCEPT ![a].status = s]
    BY <1>6 DEF cmd_sweep, StartSweep, SweepHold, SelectStranded, SelectEstates,
                ResolveStranded, SettleEstate, FinishSweep, SweeperCrashes
  <2>4. row' \in [Calls -> RowRecords]
    BY <1>2, <2>3 DEF RowRecords
  <2>5. QED
    BY <1>2, <1>3, <2>1, <2>2, <2>4
<1>7. ASSUME NEW a \in Calls, NEW invoiced \in Invoices, Reconcile(a, invoiced) PROVE Goal
  <2>1. UNCHANGED <<sweeper, expired>>
    BY <1>7 DEF Reconcile
  <2>2. PICK paid \in Nat :
          row' = [row EXCEPT ![a].reconciled = TRUE, ![a].invoiced = invoiced,
                             ![a].settled = paid]
    BY <1>2, <1>7, CallsAssumption DEF Reconcile, RowRecords
  <2>3. invoiced \in Nat
    BY CallsAssumption
  <2>4. row' \in [Calls -> RowRecords]
    BY <1>2, <2>2, <2>3 DEF RowRecords
  <2>5. QED
    BY <1>2, <1>4, <2>1, <2>4
<1>8. ASSUME \/ \E a \in Calls :
                   Expire(a) \/ \E cost \in Costs \cup {0} : CallerCrashes(a, cost)
             \/ cmd_dispute
             \/ \E c \in Cells : KillCell(c)
             \/ UNCHANGED vars
      PROVE  Goal
  <2>1. UNCHANGED <<row, sweeper>>
    BY <1>8 DEF Expire, CallerCrashes, cmd_dispute, Dispute, KillCell, vars
  <2>2. expired' \subseteq Calls
    BY <1>2, <1>8 DEF Expire, CallerCrashes, cmd_dispute, Dispute, KillCell, vars
  <2>3. QED
    BY <1>2, <1>4, <2>1, <2>2
<1> HIDE DEF Goal
<1>9. Goal
  BY <1>5, <1>6, <1>7, <1>8 DEF Next, cmd_reconcile
<1>10. QED
  BY <1>1, <1>9 DEF Goal, TypeOK, RowRecords, SweepersTyped

-----------------------------------------------------------------------------
(* Every step keeps what is known of every call. *)

ChargesKnown == OutcomeInv /\ TypeOK /\ \A a \in Calls : CallInv(a)

\* The types that the charges are read with.
LEMMA Known ==
  ASSUME ChargesKnown
  PROVE  /\ db \in Databases /\ Sound(db)
         /\ row \in [Calls -> RowRecords]
         /\ caller \in [Calls -> Places]
         /\ bill \in [Calls -> Nat]
         /\ \A a \in Calls : /\ CallInv(a)
                             /\ Real(a) \in Rids /\ Resource(a) \in Rids
                             /\ Real(a) # Resource(a)
                             /\ BookOf[Real(a)] = "USD_REAL"
                             /\ \A b \in Calls \ {a} :
                                  Real(b) # Real(a) /\ Real(b) # Resource(a)
<1>1. db \in Databases /\ Sound(db)
  BY DEF ChargesKnown, OutcomeInv, Sound
<1>2. /\ row \in [Calls -> RowRecords]
      /\ caller \in [Calls -> Places]
      /\ bill \in [Calls -> Nat]
  BY DEF ChargesKnown, TypeOK, RowRecords
<1>3. \A a \in Calls : /\ Real(a) \in Rids /\ Resource(a) \in Rids
                       /\ Real(a) # Resource(a)
                       /\ BookOf[Real(a)] = "USD_REAL"
                       /\ \A b \in Calls \ {a} :
                            Real(b) # Real(a) /\ Real(b) # Resource(a)
  BY CallsAssumption DEF Real, Resource
<1>4. QED
  BY <1>1, <1>2, <1>3 DEF ChargesKnown

\* A step of call a, which no other call notices.
Only(a) ==
  \A b \in Calls \ {a} :
    /\ SameCharge(db, db', Real(b))
    /\ row'[b] = row[b] /\ bill'[b] = bill[b] /\ caller'[b] = caller[b]

\* A step of one call's transaction leaves the other calls' charges true,
LEMMA OthersUntouched ==
  ASSUME ChargesKnown, NEW a \in Calls, Only(a), CallInv(a)'
  PROVE  \A b \in Calls : CallInv(b)'
BY Known, CallUntouched DEF Only

\* and one that touches no call's charge leaves them all.
LEMMA AllUntouched ==
  ASSUME ChargesKnown, \A b \in Calls : SameCharge(db, db', Real(b)),
         UNCHANGED <<row, bill, caller>>
  PROVE  \A b \in Calls : CallInv(b)'
BY Known, CallUntouched

\* A caller that only goes on.
LEMMA GoesOn ==
  ASSUME ChargesKnown, NEW a \in Calls, NEW place, Goto(a, place),
         \A b \in Calls : SameCharge(db, db', Real(b)),
         UNCHANGED <<row, bill>>,
         \/ place = "returned"
         \/ /\ caller[a] # "returned"
            /\ place \in Holding => caller[a] \in Holding
            /\ place \in Unbilled => caller[a] \in Unbilled
  PROVE  \A b \in Calls : CallInv(b)'
<1>1. caller'[a] = place /\ \A b \in Calls \ {a} : caller'[b] = caller[b]
  BY Known DEF Goto
<1>2. CallInv(a)'
  BY <1>1, Known, CallUntouched
<1>3. QED
  BY <1>1, <1>2, OthersUntouched DEF Only

\* A database is charged the same as itself.
LEMMA SameIsSame ==
  ASSUME UNCHANGED db
  PROVE  \A b \in Calls : SameCharge(db, db', Real(b))
BY DEF SameCharge

\* A core applied to one call's hold charges no other call.
LEMMA OthersOnly ==
  ASSUME ChargesKnown, NEW a \in Calls, NEW d, ChargesOnly(db, d, Real(a)), db' = d
  PROVE  \A b \in Calls \ {a} : SameCharge(db, db', Real(b))
BY Known DEF ChargesOnly

\* A reservation for a call charges nothing yet.
LEMMA ReservingCharges ==
  ASSUME ChargesKnown, NEW a \in Calls, NEW estimate \in Estimates,
         ReserveReal(a, estimate) \/ ReserveResource(a, estimate)
  PROVE  \A b \in Calls : CallInv(b)'
<1>1. estimate \in Nat
  BY CallsAssumption
<1>2. CASE ReserveReal(a, estimate) /\ MayRequest(db, Real(a), estimate)
  <2>1. /\ db' = Request(db, Real(a), estimate)
        /\ Goto(a, "one") /\ UNCHANGED <<row, bill>>
        /\ caller[a] = "checked" /\ db.status[Real(a)] = "absent"
    BY <1>2 DEF ReserveReal, MayRequest
  <2>2. /\ ChargesOnly(db, db', Real(a))
        /\ db'.status[Real(a)] = "reserved"
        /\ db'.paid[Real(a)] = db.paid[Real(a)]
        /\ db'.direct[Real(a)] = db.direct[Real(a)]
    BY <1>1, <2>1, Known, CoresCharge
  <2>3. caller'[a] = "one" /\ \A b \in Calls \ {a} : caller'[b] = caller[b]
    BY <2>1, Known DEF Goto
  <2>4. Only(a)
    BY <2>1, <2>2, <2>3, OthersOnly DEF Only
  <2>5. Charged(a)' = Charged(a) /\ KnownCharge(a)' = KnownCharge(a)
    BY <2>1, <2>2 DEF Charged, KnownCharge
  <2>6. CallInv(a)
    BY Known
  <2>7. CallInv(a)'
    BY <2>1, <2>2, <2>3, <2>5, <2>6 DEF CallInv, HasRow, ClosedStatuses, OpenStatuses,
                                     Holding, Unbilled
  <2>8. QED
    BY <2>4, <2>7, OthersUntouched
<1>3. CASE ReserveReal(a, estimate) /\ ~MayRequest(db, Real(a), estimate)
  <2>1. Goto(a, "returned") /\ UNCHANGED <<db, row, bill>>
    BY <1>3 DEF ReserveReal
  <2>2. QED
    BY <2>1, SameIsSame, GoesOn
<1>4. CASE ReserveResource(a, estimate) /\ MayRequest(db, Resource(a), estimate)
  <2>1. /\ db' = Request(db, Resource(a), estimate)
        /\ Goto(a, "both") /\ UNCHANGED <<row, bill>> /\ caller[a] = "one"
    BY <1>4 DEF ReserveResource
  <2>2. ChargesOnly(db, db', Resource(a))
    BY <1>1, <2>1, Known, CoresCharge
  <2>3. \A b \in Calls : SameCharge(db, db', Real(b))
    BY <2>2, Known DEF ChargesOnly
  <2>4. QED
    BY <2>1, <2>3, GoesOn DEF Holding, Unbilled
<1>5. CASE ReserveResource(a, estimate) /\ ~MayRequest(db, Resource(a), estimate)
  <2>1. Goto(a, "backout") /\ UNCHANGED <<db, row, bill>> /\ caller[a] = "one"
    BY <1>5 DEF ReserveResource
  <2>2. QED
    BY <2>1, SameIsSame, GoesOn DEF Holding, Unbilled
<1>6. QED
  BY <1>2, <1>3, <1>4, <1>5

\* The real hold of a call that never reached its provider goes back.
LEMMA BackoutCharges ==
  ASSUME ChargesKnown, NEW a \in Calls, Backout(a)
  PROVE  \A b \in Calls : CallInv(b)'
<1>1. /\ caller[a] = "backout" /\ Goto(a, "returned") /\ UNCHANGED <<row, bill>>
      /\ db' = IF MayRelease(db, Real(a)) THEN Release(db, Real(a)) ELSE db
  BY DEF Backout
<1>2. CASE ~MayRelease(db, Real(a))
  BY <1>1, <1>2, SameIsSame, GoesOn
<1>3. CASE MayRelease(db, Real(a))
  <2>1. /\ ChargesOnly(db, db', Real(a))
        /\ db'.status[Real(a)] = "released"
        /\ db'.paid[Real(a)] = db.paid[Real(a)]
        /\ db'.direct[Real(a)] = db.direct[Real(a)]
    BY <1>1, <1>3, Known, CoresCharge
  <2>2. caller'[a] = "returned" /\ \A b \in Calls \ {a} : caller'[b] = caller[b]
    BY <1>1, Known DEF Goto
  <2>3. Only(a)
    BY <1>1, <2>1, <2>2, OthersOnly DEF Only
  <2>4. CallInv(a) /\ bill[a] = 0
    BY <1>1, Known DEF CallInv, Unbilled
  <2>5. Charged(a)' = Charged(a) /\ KnownCharge(a)' = KnownCharge(a)
    BY <1>1, <2>1 DEF Charged, KnownCharge
  <2>6. CallInv(a)'
    BY <1>1, <2>1, <2>2, <2>4, <2>5 DEF CallInv, HasRow, ClosedStatuses, Holding, Unbilled
  <2>7. QED
    BY <2>3, <2>6, OthersUntouched
<1>4. QED
  BY <1>2, <1>3

\* Nor does the row that records it.
LEMMA InsertCharges ==
  ASSUME ChargesKnown, NEW a \in Calls, InsertModelCall(a)
  PROVE  \A b \in Calls : CallInv(b)'
<1>1. CASE KeyTaken(a)
  <2>1. Goto(a, "returned") /\ UNCHANGED <<db, row, bill>>
    BY <1>1 DEF InsertModelCall
  <2>2. QED
    BY <2>1, SameIsSame, GoesOn
<1>2. CASE ~KeyTaken(a)
  <2>1. /\ caller[a] = "both" /\ ~HasRow(a)
        /\ row' = [row EXCEPT ![a].status = "reserved"]
        /\ Goto(a, "calling") /\ UNCHANGED <<db, bill>>
    BY <1>2 DEF InsertModelCall, KeyTaken
  <2>2. /\ caller'[a] = "calling" /\ \A b \in Calls \ {a} : caller'[b] = caller[b]
        /\ \A b \in Calls \ {a} : row'[b] = row[b]
        /\ row'[a].status = "reserved" /\ row'[a].settled = row[a].settled
        /\ row'[a].reconciled = row[a].reconciled
        /\ row'[a].invoiced = row[a].invoiced
    BY <2>1, Known DEF Goto, RowRecords
  <2>3. Only(a)
    BY <2>1, <2>2, SameIsSame DEF Only
  <2>4. CallInv(a) /\ ~row[a].reconciled
    BY <2>1, Known DEF CallInv
  <2>5. Charged(a)' = Charged(a) /\ KnownCharge(a)' = 0 /\ KnownCharge(a) = 0
    BY <2>1, <2>2, <2>4 DEF Charged, KnownCharge, HasRow
  <2>6. db.status[Real(a)] \in OpenStatuses
    BY <2>1, <2>4 DEF CallInv, Holding
  <2>7. CallInv(a)'
    BY <2>1, <2>2, <2>4, <2>5, <2>6 DEF CallInv, HasRow, OpenStatuses, Holding, Unbilled
  <2>8. QED
    BY <2>3, <2>7, OthersUntouched
<1>3. QED
  BY <1>1, <1>2

\* A request may be billed, answered or not, and its caller there or not.
LEMMA BillCharges ==
  ASSUME ChargesKnown, NEW a \in Calls, NEW cost \in Nat,
         NEW place \in {"replied", "unclear", "returned"},
         caller[a] = "calling", Goto(a, place),
         bill' = [bill EXCEPT ![a] = cost], UNCHANGED <<db, row>>
  PROVE  \A b \in Calls : CallInv(b)'
<1>1. caller'[a] = place /\ \A b \in Calls \ {a} : caller'[b] = caller[b]
  BY Known DEF Goto
<1>2. Only(a)
  BY <1>1, Known, SameIsSame DEF Only
<1>3. CallInv(a) /\ row[a].status # "succeeded"
  BY Known DEF CallInv
<1>4. Charged(a)' = Charged(a) /\ KnownCharge(a)' = KnownCharge(a)
  BY <1>3 DEF Charged, KnownCharge
<1>5. ~row[a].reconciled => db.status[Real(a)] \in OpenStatuses
  BY <1>3 DEF CallInv, Holding
<1>6. CallInv(a)'
  BY <1>1, <1>3, <1>4, <1>5 DEF CallInv, HasRow, Holding, Unbilled
<1>7. QED
  BY <1>2, <1>6, OthersUntouched
\* An answer is charged to a hold that was open, so that nothing was charged yet.
LEMMA AnswerCharges ==
  ASSUME ChargesKnown, NEW a \in Calls,
         NEW used \in 0 .. db.maximum[Resource(a)], HandleSuccess(a, used)
  PROVE  \A b \in Calls : CallInv(b)'
<1>1. CASE UNCHANGED <<db, row>>
  <2>1. Goto(a, "returned") /\ UNCHANGED <<db, row, bill>>
    BY <1>1 DEF HandleSuccess
  <2>2. QED
    BY <2>1, SameIsSame, GoesOn
<1>2. CASE ~UNCHANGED <<db, row>>
  <2>1. /\ MaySettleReal(db, Real(a), bill[a])
        /\ MayMeter(db, Resource(a), used) /\ MaySettle(db, Resource(a), used)
        /\ db' = MirrorToSim(
                   SettleAndReleaseRemainder(
                     Meter(SettleReal(db, Real(a), bill[a]), Resource(a), used),
                     Resource(a), used),
                   a, bill[a])
        /\ row' = [row EXCEPT ![a].status = "succeeded", ![a].settled = bill[a]]
        /\ Goto(a, "returned") /\ UNCHANGED bill
    BY <1>2 DEF HandleSuccess
  <2>2. used \in Nat /\ bill[a] \in Nat
    BY Known, RowTypes
  <2>3. /\ Charged(a)' = Charged(a) + bill[a]
        /\ db'.status[Real(a)] \in ClosedStatuses
        /\ \A b \in Calls \ {a} : SameCharge(db, db', Real(b))
    BY <2>1, <2>2, Known, SuccessCharges
  <2>4. db.status[Real(a)] \notin ClosedStatuses
    BY <2>1 DEF MaySettleReal, MaySettle, MayTransition, AllowedTransitions, ClosedStatuses
  <2>5. ~row[a].reconciled /\ Charged(a) = 0
    BY <2>4, Known, OpenUncharged
  <2>6. /\ caller'[a] = "returned" /\ \A b \in Calls \ {a} : caller'[b] = caller[b]
        /\ \A b \in Calls \ {a} : row'[b] = row[b]
        /\ row'[a].status = "succeeded" /\ row'[a].settled = bill[a]
        /\ row'[a].reconciled = row[a].reconciled
    BY <2>1, Known DEF Goto, RowRecords
  <2>7. Only(a)
    BY <2>1, <2>3, <2>6 DEF Only
  <2>8. Charged(a)' = bill[a] /\ KnownCharge(a)' = bill[a]
    BY <2>1, <2>2, <2>3, <2>5, <2>6 DEF KnownCharge
  <2>9. db'.status[Real(a)] # "absent"
    BY <2>3 DEF ClosedStatuses
  <2>10. CallInv(a)'
    BY <2>1, <2>3, <2>5, <2>6, <2>8, <2>9 DEF CallInv, HasRow, Holding, Unbilled
  <2>11. QED
    BY <2>7, <2>10, OthersUntouched
<1>3. QED
  BY <1>1, <1>2

\* A refusal was not billed and is given back; what may have been billed stays
\* committed.
LEMMA FailureCharges ==
  ASSUME ChargesKnown, NEW a \in Calls, HandleFailure(a)
  PROVE  \A b \in Calls : CallInv(b)'
<1> DEFINE s == IF caller[a] = "unclear" THEN "execution_unknown" ELSE "released"
           decided == IF caller[a] = "unclear" THEN Mark(db, Real(a), "execution_unknown")
                      ELSE Release(db, Real(a))
<1>1. CASE UNCHANGED <<db, row>>
  <2>1. Goto(a, "returned") /\ UNCHANGED <<db, row, bill>>
    BY <1>1 DEF HandleFailure
  <2>2. QED
    BY <2>1, SameIsSame, GoesOn
<1>2. CASE ~UNCHANGED <<db, row>>
  <2>1. /\ caller[a] \in {"refused", "unclear"}
        /\ MayTransition(db, Real(a), s)
        /\ MayRelease(db, Resource(a))
        /\ db' = Release(decided, Resource(a))
        /\ row' = [row EXCEPT ![a].status =
                     IF caller[a] = "unclear" THEN "execution_unknown" ELSE "failed"]
        /\ Goto(a, "returned") /\ UNCHANGED bill
    BY <1>2 DEF HandleFailure
  <2>2. /\ decided \in Databases /\ ChargesOnly(db, decided, Real(a))
        /\ decided.status[Real(a)] = s
        /\ decided.paid[Real(a)] = db.paid[Real(a)]
        /\ decided.direct[Real(a)] = db.direct[Real(a)]
    <3>1. CASE caller[a] = "unclear"
      <4>1. decided = Mark(db, Real(a), "execution_unknown") /\ s = "execution_unknown"
        BY <3>1
      <4>2. MayTransition(db, Real(a), "execution_unknown")
        BY <2>1, <4>1
      <4>3. decided \in Databases
        BY <4>1, <4>2, Known, CoresTouchOne DEF Touches, Sound
      <4>4. "execution_unknown" \in Statuses
        BY DEF Statuses, OpenStatuses
      <4>5. QED
        BY <4>1, <4>3, <4>4, Known, CoresCharge
    <3>2. CASE caller[a] # "unclear"
      <4>1. decided = Release(db, Real(a)) /\ s = "released"
        BY <3>2
      <4>2. MayRelease(db, Real(a))
        BY <2>1, <4>1 DEF MayRelease
      <4>3. decided \in Databases
        BY <4>1, <4>2, Known, CoresTouchOne DEF Touches, Sound
      <4>4. QED
        BY <4>1, <4>3, Known, CoresCharge
    <3>3. QED
      BY <3>1, <3>2
  <2> HIDE DEF decided
  <2>3. ChargesOnly(decided, db', Resource(a))
    BY <2>1, <2>2, Known, CoresCharge
  <2>4. /\ SameCharge(decided, db', Real(a))
        /\ \A b \in Calls \ {a} : SameCharge(db, db', Real(b))
    BY <2>2, <2>3, Known DEF ChargesOnly, SameCharge
  <2>5. /\ db'.status[Real(a)] = s
        /\ db'.paid[Real(a)] = db.paid[Real(a)]
        /\ db'.direct[Real(a)] = db.direct[Real(a)]
    BY <2>2, <2>4 DEF SameCharge
  <2>6. /\ caller'[a] = "returned" /\ \A b \in Calls \ {a} : caller'[b] = caller[b]
        /\ \A b \in Calls \ {a} : row'[b] = row[b]
        /\ row'[a].status \in {"execution_unknown", "failed"}
        /\ row'[a].settled = row[a].settled
        /\ row'[a].reconciled = row[a].reconciled
    BY <2>1, Known DEF Goto, RowRecords
  <2>7. Only(a)
    BY <2>1, <2>4, <2>6 DEF Only
  <2>8. CallInv(a) /\ db.status[Real(a)] \notin ClosedStatuses
    BY <2>1, Known DEF MayTransition, AllowedTransitions, ClosedStatuses
  <2>9. ~row[a].reconciled /\ Charged(a) = 0 /\ db.direct[Real(a)] = 0
        /\ row[a].settled = 0
    BY <2>8, Known, OpenUncharged
  <2>10. Charged(a)' = 0 /\ KnownCharge(a)' = 0
    BY <2>5, <2>6, <2>9 DEF Charged, KnownCharge
  <2>11. caller[a] # "unclear" => bill[a] = 0
    BY <2>1, <2>8 DEF CallInv, Unbilled
  <2>12. CallInv(a)'
    BY <2>1, <2>5, <2>6, <2>9, <2>10, <2>11
       DEF CallInv, HasRow, Holding, Unbilled, OpenStatuses, ClosedStatuses
  <2>13. QED
    BY <2>7, <2>12, OthersUntouched
<1>3. QED
  BY <1>1, <1>2

\* What an invoice leaves charged is what it says, whatever was charged before.
LEMMA InvoiceCharges ==
  ASSUME ChargesKnown, NEW a \in Calls, NEW invoiced \in Invoices,
         Reconcile(a, invoiced)
  PROVE  \A b \in Calls : CallInv(b)'
<1> DEFINE r == Real(a)
           open == db.status[r] \in InvoiceableStatuses
<1>1. /\ HasRow(a) /\ ~row[a].reconciled /\ CallInv(a)
      /\ r \in Rids /\ invoiced \in Nat /\ row[a].settled \in Nat
  BY Known, CallsAssumption DEF Reconcile, MayReconcile, RowRecords
<1>2. /\ row'[a].reconciled = TRUE /\ row'[a].invoiced = invoiced
      /\ row'[a].status = row[a].status
      /\ \A b \in Calls \ {a} : row'[b] = row[b]
      /\ UNCHANGED <<caller, bill>>
  BY Known DEF Reconcile, RowRecords
<1>3. db.status[r] # "absent"
  BY <1>1 DEF CallInv
<1> DEFINE Charges(e) == /\ ChargesOnly(db, e, r)
                         /\ e.status[r] \in ClosedStatuses
                         /\ e.paid[r] + e.direct[r] = invoiced
<1>4. ASSUME ~open PROVE Charges(db')
  <2>1. db' = PostDirect(db, r, invoiced - row[a].settled)
    BY <1>4 DEF Reconcile, PostAdjustment
  <2>2. invoiced - row[a].settled \in Int
    BY <1>1
  <2>3. /\ ChargesOnly(db, db', r)
        /\ db'.status[r] = db.status[r]
        /\ db'.paid[r] = db.paid[r]
        /\ db'.direct[r] = db.direct[r] + (invoiced - row[a].settled)
    BY <1>1, <2>1, <2>2, Known, CoresCharge
  <2>4. db.status[r] \in ClosedStatuses
    <3>1. db.status[r] \in {"settled", "partially_settled", "released"}
      BY <1>1, <1>3, <1>4, Known, RowTypes DEF InvoiceableStatuses, Statuses, OpenStatuses
    <3>2. QED
      BY <1>1, <3>1 DEF CallInv, ClosedStatuses
  <2>5. db.paid[r] + db.direct[r] = row[a].settled
    BY <1>1 DEF CallInv, Charged
  <2>6. db.paid[r] \in Int /\ db.direct[r] \in Int
    BY <1>1, Known DEF Databases
  <2>7. QED
    BY <1>1, <2>3, <2>4, <2>5, <2>6
<1>5. ASSUME open PROVE Charges(db')
  <2>1. db' = ResolveOpen(db, r, invoiced)
    BY <1>5 DEF Reconcile
  <2>2. /\ db.status[r] \notin ClosedStatuses /\ MayRelease(db, r)
        /\ db.status[r] \in {"reserved", "execution_unknown", "disputed"}
    BY <1>5 DEF InvoiceableStatuses, ClosedStatuses, MayRelease, MayTransition,
                AllowedTransitions
  <2>3. db.paid[r] = 0 /\ db.direct[r] = 0
    BY <1>1, <2>2, Known, OpenUncharged
  <2> DEFINE e == Release(db, r)
  <2>4. /\ Sound(e) /\ ChargesOnly(db, e, r) /\ e.status[r] = "released"
        /\ e.paid[r] = 0 /\ e.direct[r] = 0
    BY <1>1, <2>2, <2>3, Known, CoresCharge, CoresTouchOne DEF Touches
  <2>5. CASE invoiced = 0
    <3>1. db' = e
      BY <2>1, <2>5 DEF ResolveOpen
    <3>2. QED
      BY <2>4, <2>5, <3>1 DEF ClosedStatuses
  <2>6. CASE invoiced > 0 /\ db.status[r] = "disputed"
    <3>1. db' = PostDirect(e, r, invoiced)
      BY <2>1, <2>6 DEF ResolveOpen
    <3> HIDE DEF e
    <3>2. e \in Databases
      BY <2>4 DEF Sound
    <3>3. /\ ChargesOnly(e, db', r)
          /\ db'.status[r] = "released"
          /\ db'.paid[r] = 0
          /\ db'.direct[r] = 0 + invoiced
      BY <1>1, <2>4, <3>1, <3>2, CoresCharge
    <3>4. ChargesOnly(db, db', r)
      BY <2>4, <3>3 DEF ChargesOnly, SameCharge
    <3>5. QED
      BY <1>1, <3>3, <3>4 DEF ClosedStatuses
  <2>7. CASE invoiced > 0 /\ db.status[r] # "disputed"
    <3>1. db' = SettleReal(db, r, invoiced)
      BY <2>1, <2>7 DEF ResolveOpen
    <3>2. MaySettleReal(db, r, invoiced)
      <4>1. db.maximum[r] \in Nat
        BY <1>1, Known, RowTypes
      <4>2. Smaller(invoiced, db.maximum[r]) \in 0 .. db.maximum[r]
        BY <1>1, <4>1 DEF Smaller
      <4>3. db.status[r] \in {"reserved", "execution_unknown"}
        BY <2>2, <2>7
      <4>4. QED
        BY <4>2, <4>3 DEF MaySettleReal, MaySettle, SettledStatus, MayTransition,
                          AllowedTransitions
    <3>3. db'.status[r] \in ClosedStatuses
      BY <1>1, <3>1, <3>2, Known, ChargingCloses
    <3>4. /\ ChargesOnly(db, db', r)
          /\ db'.paid[r] + db'.direct[r] = db.paid[r] + db.direct[r] + invoiced
      BY <1>1, <3>1, <3>2, Known, ChargingCharges
    <3>5. QED
      BY <1>1, <2>3, <3>3, <3>4
  <2>8. QED
    BY <1>1, <2>5, <2>6, <2>7
<1>6. Charges(db')
  BY <1>4, <1>5
<1>7. Only(a)
  BY <1>2, <1>6, OthersOnly DEF Only
<1>8. Charged(a)' = invoiced /\ KnownCharge(a)' = invoiced
  BY <1>2, <1>6 DEF Charged, KnownCharge
<1>9. CallInv(a)'
  BY <1>1, <1>2, <1>6, <1>8 DEF CallInv, HasRow, ClosedStatuses
<1>10. QED
  BY <1>7, <1>9, OthersUntouched

\* A hold whose outcome is in doubt is only marked, by a sweep or an operator.
LEMMA MarkCharges ==
  ASSUME ChargesKnown, NEW a \in Calls, NEW s \in {"execution_unknown", "disputed"},
         MayTransition(db, Real(a), s), db' = Mark(db, Real(a), s),
         UNCHANGED <<row, caller, bill>>
  PROVE  \A b \in Calls : CallInv(b)'
<1>1. s \in Statuses
  BY DEF Statuses, OpenStatuses
<1>2. /\ ChargesOnly(db, db', Real(a))
      /\ db'.status[Real(a)] = s
      /\ db'.paid[Real(a)] = db.paid[Real(a)]
      /\ db'.direct[Real(a)] = db.direct[Real(a)]
  BY <1>1, Known, CoresCharge
<1>3. db.status[Real(a)] \in {"reserved", "execution_unknown"}
  BY DEF MayTransition, AllowedTransitions
<1>4. CallInv(a)'
  BY <1>2, <1>3, Known, CallMarked
<1>5. Only(a)
  BY <1>2, OthersOnly DEF Only
<1>6. QED
  BY <1>4, <1>5, OthersUntouched

\* A sweep decides RESOURCE holds by their meter and guesses about no real one.
LEMMA SweptHoldCharges ==
  ASSUME ChargesKnown, NEW w \in Sweepers, NEW r \in Rids, SweepHold(w, r)
  PROVE  \A b \in Calls : CallInv(b)'
<1>1. UNCHANGED <<row, caller, bill>>
  BY DEF SweepHold
<1>2. CASE UNCHANGED db
  BY <1>1, <1>2, SameIsSame, AllUntouched
<1>3. CASE MayResolveHold(r) /\ db' = ResolvedHold(r)
  <2>1. PICK a \in Calls : r = Real(a) \/ r = Resource(a)
    BY CallsAssumption
  <2>2. CASE r = Real(a)
    <3>1. Verdict(r) = "unknown"
      BY <2>2, Known DEF Verdict
    <3>2. MayTransition(db, Real(a), "execution_unknown")
          /\ db' = Mark(db, Real(a), "execution_unknown")
      BY <1>3, <2>2, <3>1 DEF MayResolveHold, ResolvedHold
    <3>3. QED
      BY <1>1, <3>2, MarkCharges
  <2>3. CASE r = Resource(a)
    <3>1. Verdict(r) \in {"happened", "not_happened"}
      BY <2>3, CallsAssumption DEF Verdict
    <3>2. db.metered[r] \in Nat
      BY Known, RowTypes
    <3>3. db' = Settle(db, r, db.metered[r]) \/ db' = Release(db, r)
      BY <1>3, <3>1 DEF ResolvedHold
    <3>4. ChargesOnly(db, db', r)
      BY <3>2, <3>3, Known, CoresCharge
    <3>5. \A b \in Calls : SameCharge(db, db', Real(b))
      BY <2>3, <3>4, Known DEF ChargesOnly
    <3>6. QED
      BY <1>1, <3>5, AllUntouched
  <2>4. QED
    BY <2>1, <2>2, <2>3
<1>4. QED
  BY <1>2, <1>3 DEF SweepHold

\* A stranded row is told that its call is unknown, or that nothing was charged.
LEMMA StrandedCharges ==
  ASSUME ChargesKnown, NEW w \in Sweepers, NEW a \in Calls, NEW s \in RowStatuses,
         ResolveStranded(w, a, s)
  PROVE  \A b \in Calls : CallInv(b)'
<1>1. /\ <<a, s>> \in sweeper[w].todo /\ sweeper[w].at = "calls"
      /\ row' = IF StillStranded(a) THEN [row EXCEPT ![a].status = s] ELSE row
      /\ UNCHANGED <<db, caller, bill>>
  BY DEF ResolveStranded
<1>2. CASE ~StillStranded(a)
  BY <1>1, <1>2, SameIsSame, AllUntouched
<1>3. CASE StillStranded(a)
  <2>1. s \in {"execution_unknown", "failed"}
    BY <1>1 DEF ChargesKnown, OutcomeInv
  <2>2. /\ \A b \in Calls \ {a} : row'[b] = row[b]
        /\ row'[a].status = s /\ row'[a].settled = row[a].settled
        /\ row'[a].reconciled = row[a].reconciled
        /\ row'[a].invoiced = row[a].invoiced
    BY <1>1, <1>3, Known DEF RowRecords
  <2>3. Only(a)
    BY <1>1, <2>2, SameIsSame DEF Only
  <2>4. CallInv(a) /\ row[a].status = "reserved"
    BY <1>3, Known DEF StillStranded
  <2>5. Charged(a)' = Charged(a) /\ KnownCharge(a)' = KnownCharge(a)
    BY <1>1, <2>1, <2>2, <2>4 DEF Charged, KnownCharge
  <2>6. CallInv(a)'
    BY <1>1, <2>1, <2>2, <2>4, <2>5 DEF CallInv, HasRow
  <2>7. QED
    BY <2>3, <2>6, OthersUntouched
<1>4. QED
  BY <1>2, <1>3

\* So does every step, whoever takes it.
LEMMA ChargeStep ==
  ASSUME ChargesKnown, [Next]_vars
  PROVE  \A b \in Calls : CallInv(b)'
<1> DEFINE Goal == \A b \in Calls : CallInv(b)'
<1>1. ASSUME UNCHANGED <<db, row, caller, bill>> PROVE Goal
  BY <1>1, SameIsSame, AllUntouched
<1>2. ASSUME NEW a \in Calls, CallStep(a) PROVE Goal
  <2>1. CASE Begin(a)
    <3>1. /\ caller[a] = "start" /\ UNCHANGED <<db, row, bill>>
          /\ Goto(a, IF KeyTaken(a) THEN "returned" ELSE "checked")
      BY <2>1 DEF Begin
    <3>2. QED
      BY <3>1, SameIsSame, GoesOn DEF Holding, Unbilled
  <2>2. CASE ProviderRefuses(a)
    <3>1. /\ caller[a] = "calling" /\ UNCHANGED <<db, row, bill>>
          /\ Goto(a, "refused")
      BY <2>2 DEF ProviderRefuses
    <3>2. /\ caller'[a] = "refused" /\ \A b \in Calls \ {a} : caller'[b] = caller[b]
      BY <3>1, Known DEF Goto
    <3>3. bill[a] = 0
      BY <3>1, Known DEF CallInv, Unbilled
    <3>4. QED
      BY <3>1, SameIsSame, GoesOn DEF Holding, Unbilled
  <2>3. CASE \/ \E cost \in Costs : ProviderReplies(a, cost)
             \/ \E cost \in Costs \cup {0} : ProviderFailsUnclearly(a, cost)
    <3>1. PICK cost \in Nat, place \in {"replied", "unclear"} :
            /\ caller[a] = "calling" /\ Goto(a, place)
            /\ bill' = [bill EXCEPT ![a] = cost] /\ UNCHANGED <<db, row>>
      BY <2>3, CallsAssumption DEF ProviderReplies, ProviderFailsUnclearly
    <3>2. QED
      BY <3>1, BillCharges
  <2>4. QED
    BY <1>2, <2>1, <2>2, <2>3, ReservingCharges, BackoutCharges, InsertCharges,
       AnswerCharges, FailureCharges DEF CallStep
<1>3. ASSUME NEW a \in Calls, NEW cost \in Costs \cup {0}, CallerCrashes(a, cost) PROVE Goal
  <2>1. /\ Goto(a, "returned") /\ UNCHANGED <<db, row>>
        /\ bill' = IF caller[a] = "calling" THEN [bill EXCEPT ![a] = cost] ELSE bill
    BY <1>3 DEF CallerCrashes
  <2>2. cost \in Nat
    BY CallsAssumption
  <2>3. CASE caller[a] = "calling"
    BY <2>1, <2>2, <2>3, BillCharges
  <2>4. CASE caller[a] # "calling"
    BY <2>1, <2>4, SameIsSame, GoesOn
  <2>5. QED
    BY <2>3, <2>4
<1>4. ASSUME NEW w \in Sweepers, cmd_sweep(w) \/ SweeperCrashes(w) PROVE Goal
  <2>1. CASE \/ StartSweep(w) \/ SelectStranded(w) \/ SelectEstates(w)
             \/ FinishSweep(w) \/ SweeperCrashes(w)
    BY <1>1, <2>1 DEF StartSweep, SelectStranded, SelectEstates, FinishSweep,
                      SweeperCrashes
  <2>2. ASSUME NEW c \in Cells, SettleEstate(w, c) PROVE Goal
    <3>1. UNCHANGED <<row, caller, bill>> /\ (UNCHANGED db \/ db' = Reclaim(db, c))
      BY <2>2 DEF SettleEstate
    <3>2. \A b \in Calls : SameCharge(db, db', Real(b))
      BY <3>1, Known, SameIsSame, DeathsCharge
    <3>3. QED
      BY <3>1, <3>2, AllUntouched
  <2>3. QED
    BY <1>4, <2>1, <2>2, SweptHoldCharges, StrandedCharges DEF cmd_sweep
<1>5. ASSUME NEW c \in Cells, KillCell(c) PROVE Goal
  <2>1. UNCHANGED <<row, caller, bill>> /\ db' = Kill(db, c)
    BY <1>5 DEF KillCell
  <2>2. \A b \in Calls : SameCharge(db, db', Real(b))
    BY <2>1, Known, DeathsCharge
  <2>3. QED
    BY <2>1, <2>2, AllUntouched
<1>6. ASSUME NEW a \in Calls, Dispute(a) PROVE Goal
  <2>1. /\ MayTransition(db, Real(a), "disputed") /\ db' = Mark(db, Real(a), "disputed")
        /\ UNCHANGED <<row, caller, bill>>
    BY <1>6 DEF Dispute
  <2>2. QED
    BY <2>1, MarkCharges
<1>7. ASSUME (\E a \in Calls : Expire(a)) \/ UNCHANGED vars PROVE Goal
  <2>1. UNCHANGED <<db, row, caller, bill>>
    BY <1>7 DEF Expire, vars
  <2>2. QED
    BY <1>1, <2>1
<1> HIDE DEF Goal
<1>8. Goal
  BY <1>2, <1>3, <1>4, <1>5, <1>6, <1>7, InvoiceCharges DEF Next, cmd_reconcile, cmd_dispute, Goal
<1>9. QED
  BY <1>8 DEF Goal

-----------------------------------------------------------------------------
(* The theorems. *)

\* What is known of the charges holds in every reachable state.
LEMMA ChargesStayKnown == Spec => []ChargesKnown
<1>1. Init => OutcomeInv
  BY OutcomeInit
<1>2. Init => TypeOK
  <2> SUFFICES ASSUME Init PROVE TypeOK
    OBVIOUS
  <2>1. db \in Databases
    BY EmptySound DEF Init, Sound
  <2>2. QED
    BY <2>1 DEF Init, TypeOK, NoRow, Places, Idle
<1>3. ASSUME Init, NEW a \in Calls PROVE CallInv(a)
  <2>1. Real(a) \in Rids
    BY CallsAssumption DEF Real
  <2>2. db.status[Real(a)] = "absent" /\ db.paid[Real(a)] = 0 /\ db.direct[Real(a)] = 0
    BY <1>3, <2>1 DEF Init, EmptyDatabase
  <2>3. row[a] = NoRow /\ bill[a] = 0 /\ caller[a] = "start"
    BY <1>3 DEF Init
  <2>4. Charged(a) = 0 /\ KnownCharge(a) = 0
    BY <2>2, <2>3 DEF Charged, KnownCharge, NoRow
  <2>5. QED
    BY <2>2, <2>3, <2>4 DEF CallInv, NoRow, HasRow, Holding
<1>4. ChargesKnown /\ [Next]_vars => ChargesKnown'
  <2> SUFFICES ASSUME ChargesKnown, [Next]_vars PROVE ChargesKnown'
    OBVIOUS
  <2>1. OutcomeInv'
    BY OutcomeStep DEF ChargesKnown
  <2>2. TypeOK'
    BY <2>1, CallsTypeStep DEF ChargesKnown
  <2>3. \A a \in Calls : CallInv(a)'
    BY ChargeStep
  <2>4. QED
    BY <2>1, <2>2, <2>3 DEF ChargesKnown
<1>5. Init => ChargesKnown
  BY <1>1, <1>2, <1>3 DEF ChargesKnown
<1>6. QED
  BY <1>4, <1>5, PTL DEF Spec

\* Every table of the gateway and every process keeps its type.
THEOREM TypeCorrect == Spec => []TypeOK
<1>1. ChargesKnown => TypeOK
  BY DEF ChargesKnown
<1>2. QED
  BY <1>1, ChargesStayKnown, PTL

\* The ledger charges a Cell for a call what is known of its cost and nothing
\* else: whatever crashed, was swept, disputed, killed or answered late between
\* the provider's bill and its record (gateway.py:583, reconciliation.py:127).
THEOREM ChargesAreTrue == Spec => []ChargeIsTrue
<1>1. ChargesKnown => ChargeIsTrue
  BY DEF ChargesKnown, CallInv, KnownCharge, ChargeIsTrue
<1>2. QED
  BY <1>1, ChargesStayKnown, PTL

\* Money a provider billed is never given back by guesswork: its hold stays open
\* until it has been paid or an invoice has said otherwise (Charter C7).
THEOREM NothingBilledIsForgiven == Spec => []BilledIsNeverForgiven
<1>1. ASSUME ChargesKnown, NEW a \in Calls, bill[a] > 0, ~row[a].reconciled
      PROVE  \/ db.status[Real(a)] \in OpenStatuses
             \/ row[a].status = "succeeded" /\ Charged(a) = bill[a]
  <2>1. CallInv(a)
    BY <1>1, Known
  <2>2. QED
    BY <1>1, <2>1 DEF CallInv, KnownCharge
<1>2. ChargesKnown => BilledIsNeverForgiven
  BY <1>1 DEF BilledIsNeverForgiven
<1>3. QED
  BY <1>2, ChargesStayKnown, PTL
=============================================================================
