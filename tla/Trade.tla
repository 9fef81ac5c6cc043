-------------------------------- MODULE Trade --------------------------------
(***************************************************************************)
(* What a colony earns and may have to give back: revenue.py,              *)
(* liability.py, advances.py and payment_fees.py, with the part of         *)
(* lifecycle.py that empties a dead Cell's cash.                           *)
(*                                                                         *)
(* A real sale is credited to its seller and, in the same transaction, a   *)
(* share of it is set aside for as long as it can be refunded, and the     *)
(* colony lends the seller part of that share.  A refund or chargeback is  *)
(* met from what is set aside; when the window closes what is left goes to *)
(* the seller, who repays the colony first.                                *)
(*                                                                         *)
(* Every action is one transaction.  An idempotency key is an id: a call   *)
(* repeated with its key changes nothing, which is why what was posted     *)
(* under a key is kept for good.  The book is USD_REAL: a synthetic sale   *)
(* has no hold and no advance, and its refunds come out of cash.           *)
(***************************************************************************)
EXTENDS Integers, FiniteSets, Sequences, Functions

CONSTANTS
  Cells,
  Sales,        \* keys of revenue payments
  Reversals,    \* keys of refunds and chargebacks
  Fees,         \* keys of payment fees
  SellerOf,     \* the Cell a payment is credited to
  AmountOf,     \* its amount
  SaleOf,       \* the payment a reversal names
  Chargebacks,  \* the reversals that are chargebacks, not refunds
  ChargeOf,     \* the payment or chargeback a fee was taken on
  Amounts,      \* amounts callers ask to reverse, to pay as a fee, to spend
  Whole,        \* FULL_BASIS_POINTS
  ReserveTerms, \* reserve policies an operator declares: <<share, window>>
  AdvanceTerms, \* advance policies an operator declares: <<share, cap>>
  Funding,      \* cash a Cell was born with
  LastSale,     \* bound on when sales are recorded and policies declared
  Mortal,       \* bound: Cells that are killed or quarantined
  MaxClock      \* bound on the clock

Charges == Sales \cup Chargebacks

ASSUME TradeAssumption ==
  /\ IsFiniteSet(Cells) /\ IsFiniteSet(Sales)
  /\ IsFiniteSet(Reversals) /\ IsFiniteSet(Fees)
  /\ SellerOf \in [Sales -> Cells] /\ AmountOf \in [Sales -> Nat \ {0}]
  /\ SaleOf \in [Reversals -> Sales] /\ Chargebacks \subseteq Reversals
  /\ ChargeOf \in [Fees -> Sales \cup Reversals]
  /\ Amounts \subseteq Nat \ {0}
  /\ Whole \in Nat \ {0}
  /\ ReserveTerms \subseteq (1 .. Whole) \X (Nat \ {0})
  /\ AdvanceTerms \subseteq (0 .. Whole) \X Nat
  /\ Funding \in [Cells -> Nat]
  /\ Mortal \subseteq Cells
  /\ LastSale \in Nat /\ MaxClock \in Nat

VARIABLES
  clock,      \* wall time
  cell,       \* cells.status
  policies,   \* liability_reserve_policies, in rowid order
  lending,    \* the advance policy in force
  sale,       \* by key: whether posted, when, and what was held and lent on it
  held,       \* what a sale's hold still has, in liability_reserve
  reversal,   \* amount posted under a reversal's key
  fee,        \* amount posted under a fee's key
  owed,       \* a Cell's advances less its repayments
  cash,       \* a Cell's cash
  spent,      \* what the Cells have spent otherwise
  estate      \* what dead Cells gave back to the treasury

books == <<owed, cash, spent, estate>>
vars == <<clock, cell, policies, lending, sale, held, reversal, fee, books>>

NotSold == [posted |-> FALSE, at |-> 0, hold |-> 0, until |-> 0]

Init ==
  /\ clock = 0
  /\ cell = [c \in Cells |-> "alive"]
  /\ policies = <<>>
  /\ lending = <<0, 0>>
  /\ sale = [s \in Sales |-> NotSold]
  /\ held = [s \in Sales |-> 0]
  /\ reversal = [v \in Reversals |-> 0]
  /\ fee = [f \in Fees |-> 0]
  /\ owed = [c \in Cells |-> 0]
  /\ cash = Funding
  /\ spent = 0
  /\ estate = 0

-----------------------------------------------------------------------------
(* Policies: append-only, the latest wins, never for a sale already made. *)

\* Two transactions never carry the same instant, so a declaration moves time.
DeclareReservePolicy(share, window) ==
  /\ clock < LastSale
  /\ clock' = clock + 1
  /\ policies' = Append(policies, [share |-> share, window |-> window,
                                   at |-> clock'])
  /\ UNCHANGED <<cell, lending, sale, held, reversal, fee, books>>

DeclareAdvancePolicy(share, cap) ==
  /\ clock <= LastSale
  /\ lending' = <<share, cap>>
  /\ UNCHANGED <<clock, cell, policies, sale, held, reversal, fee, books>>

NoPolicy == policies = <<>>

CurrentPolicy == policies[Len(policies)]

\* The latest declared at or before an instant.
PolicyAt(instant) ==
  policies[CHOOSE i \in DOMAIN policies :
             /\ policies[i].at <= instant
             /\ \A j \in DOMAIN policies : policies[j].at <= instant => j <= i]

\* Mutant: the window of the policy in force today.
HeldUntilNow(s) == sale[s].at + CurrentPolicy.window

\* Derived, never stored: the window of the policy in force at the sale.
HeldUntil(s) == sale[s].at + PolicyAt(sale[s].at).window

-----------------------------------------------------------------------------
(* Sales. *)

Least(a, b) == IF a < b THEN a ELSE b

\* Rounded up, so that a share never holds a unit less than it says.
HoldOn(s) ==
  IF NoPolicy THEN 0
  ELSE (AmountOf[s] * CurrentPolicy.share + Whole - 1) \div Whole

\* Written into the hold's hashed description for people to read; the code
\* derives the date again and never parses it.
PrintedDate == IF NoPolicy THEN clock ELSE clock + CurrentPolicy.window

\* Mutant: the share of the whole sale, not of what was held.
ShareOfSale(s) == (AmountOf[s] * lending[1]) \div Whole

\* Rounded down: each rounds to protect someone else's money.
ShareOfHold(s) == (HoldOn(s) * lending[1]) \div Whole

\* Only to a Cell that can act on it, up to what it may still owe.
AdvanceOn(s) ==
  LET room   == lending[2] - owed[SellerOf[s]]
      amount == Least(ShareOfHold(s), room)
  IN  IF cell[SellerOf[s]] = "alive" /\ amount > 0 THEN amount ELSE 0

\* A dead Cell's sale is credited too; a replay finds the payment posted.
RecordRevenue(s) ==
  /\ ~sale[s].posted /\ clock <= LastSale
  /\ sale' = [sale EXCEPT ![s] = [posted |-> TRUE, at |-> clock,
                                  hold |-> HoldOn(s), until |-> PrintedDate]]
  /\ held' = [held EXCEPT ![s] = HoldOn(s)]
  /\ owed' = [owed EXCEPT ![SellerOf[s]] = @ + AdvanceOn(s)]
  /\ cash' = [cash EXCEPT ![SellerOf[s]] =
                @ + AmountOf[s] - HoldOn(s) + AdvanceOn(s)]
  /\ UNCHANGED <<clock, cell, policies, lending, reversal, fee, spent, estate>>

-----------------------------------------------------------------------------
(* Refunds, chargebacks and fees. *)

Reversed(s) ==
  SumFunctionOnSet(reversal, {v \in Reversals : SaleOf[v] = s})

\* Mutant: only reversals of the same kind count against the sale.
ReversibleOfKind(v) ==
  AmountOf[SaleOf[v]] -
    SumFunctionOnSet(reversal,
                     {w \in Reversals : /\ SaleOf[w] = SaleOf[v]
                                        /\ w \in Chargebacks <=> v \in Chargebacks})

Reversible(v) == AmountOf[SaleOf[v]] - Reversed(SaleOf[v])

\* Mutant: as much as the refund, whatever is left of the hold.
FreedWhole(s, amount) == amount

\* The hold pays first; the seller's other cash meets only the rest.
FreedFor(s, amount) == Least(held[s], amount)

PostReversal(v, amount) == reversal' = [reversal EXCEPT ![v] = amount]

\* The debt of a refunded sale's advance stays; cash may go below zero.
RecordReversal(v, amount) ==
  LET s == SaleOf[v] IN
    /\ reversal[v] = 0
    /\ sale[s].posted
    /\ amount <= Reversible(v)
    /\ PostReversal(v, amount)
    /\ held' = [held EXCEPT ![s] = @ - FreedFor(s, amount)]
    /\ cash' = [cash EXCEPT ![SellerOf[s]] = @ + FreedFor(s, amount) - amount]
    /\ UNCHANGED <<clock, cell, policies, lending, sale, fee, owed, spent,
                   estate>>

\* A processor's fee is imposed: it names a payment or a chargeback, inherits
\* its seller, and is refused neither by a balance nor by a cap.
PayerOf(charge) ==
  SellerOf[IF charge \in Sales THEN charge ELSE SaleOf[charge]]

Charged(charge) ==
  IF charge \in Sales THEN sale[charge].posted ELSE reversal[charge] > 0

RecordPaymentFee(f, amount) ==
  /\ fee[f] = 0
  /\ ChargeOf[f] \in Charges /\ Charged(ChargeOf[f])
  /\ fee' = [fee EXCEPT ![f] = amount]
  /\ cash' = [cash EXCEPT ![PayerOf(ChargeOf[f])] = @ - amount]
  /\ UNCHANGED <<clock, cell, policies, lending, sale, held, reversal, owed,
                 spent, estate>>

-----------------------------------------------------------------------------
(* The window closes. *)

Due(now) == {s \in Sales : held[s] > 0 /\ HeldUntil(s) <= now}

Released(c, now) ==
  SumFunctionOnSet(held, {s \in Due(now) : SellerOf[s] = c})

\* Repaid hold by hold, each up to what it released, to the same total.
Repaid(c, now) == Least(owed[c], Released(c, now))

\* All due holds in one transaction; the clock is read before the lock.
ReleaseDue(now) ==
  /\ Due(now) # {}
  /\ held' = [s \in Sales |-> IF s \in Due(now) THEN 0 ELSE held[s]]
  /\ owed' = [c \in Cells |-> owed[c] - Repaid(c, now)]
  /\ cash' = [c \in Cells |-> cash[c] + Released(c, now) - Repaid(c, now)]
  /\ UNCHANGED <<clock, cell, policies, lending, sale, reversal, fee, spent,
                 estate>>

-----------------------------------------------------------------------------
(* The rest of the colony. *)

\* What a Cell chooses to spend has to be there: a reservation checks it.
Spend(c, amount) ==
  /\ cell[c] = "alive"
  /\ amount <= cash[c]
  /\ cash' = [cash EXCEPT ![c] = @ - amount]
  /\ spent' = spent + amount
  /\ UNCHANGED <<clock, cell, policies, lending, sale, held, reversal, fee,
                 owed, estate>>

\* A dead Cell's positive cash goes to the treasury; a debt stays where it is.
EmptyEstate(c) ==
  /\ estate' = IF cash[c] > 0 THEN estate + cash[c] ELSE estate
  /\ cash' = [cash EXCEPT ![c] = IF @ > 0 THEN 0 ELSE @]
  /\ UNCHANGED <<clock, policies, lending, sale, held, reversal, fee, owed,
                 spent>>

KillCell(c) ==
  /\ cell[c] # "dead"
  /\ cell' = [cell EXCEPT ![c] = "dead"]
  /\ EmptyEstate(c)

ReclaimEstate(c) ==
  /\ cell[c] = "dead" /\ cash[c] > 0
  /\ EmptyEstate(c)
  /\ UNCHANGED cell

QuarantineCell(c) ==
  /\ cell[c] = "alive"
  /\ cell' = [cell EXCEPT ![c] = "quarantined"]
  /\ UNCHANGED <<clock, policies, lending, sale, held, reversal, fee, books>>

Tick ==
  /\ clock < MaxClock
  /\ clock' = clock + 1
  /\ UNCHANGED <<cell, policies, lending, sale, held, reversal, fee, books>>

-----------------------------------------------------------------------------
(* The verbs of cli.py and what an operator gives them.  A reversal and a    *)
(* fee name the posting they undo or were taken on, never a Cell.            *)

cmd_set_reserve_policy ==
  \E terms \in ReserveTerms : DeclareReservePolicy(terms[1], terms[2])

cmd_set_advance_policy ==
  \E terms \in AdvanceTerms : DeclareAdvancePolicy(terms[1], terms[2])

cmd_record_revenue == \E s \in Sales : RecordRevenue(s)

cmd_record_refund ==
  \E v \in Reversals, amount \in Amounts : RecordReversal(v, amount)

cmd_record_fee ==
  \E f \in Fees, amount \in Amounts : RecordPaymentFee(f, amount)

\* The time is the verb's own, and may be old when it gets the lock.
cmd_release_reserves == \E now \in 0 .. clock : ReleaseDue(now)

Next ==
  \/ cmd_set_reserve_policy \/ cmd_set_advance_policy
  \/ cmd_record_revenue \/ cmd_record_refund \/ cmd_record_fee
  \/ cmd_release_reserves
  \/ \E c \in Cells, amount \in Amounts : Spend(c, amount)
  \/ \E c \in Mortal : KillCell(c) \/ ReclaimEstate(c) \/ QuarantineCell(c)
  \/ Tick

Spec == Init /\ [][Next]_vars

-----------------------------------------------------------------------------
CellStatuses == {"alive", "quarantined", "dead"}

TypeOK ==
  /\ clock \in Nat
  /\ cell \in [Cells -> CellStatuses]
  /\ policies \in Seq([share : 1 .. Whole, window : Nat \ {0}, at : Nat])
  /\ lending \in (0 .. Whole) \X Nat
  /\ sale \in [Sales -> [posted : BOOLEAN, at : Nat, hold : Nat, until : Nat]]
  /\ held \in [Sales -> Nat]
  /\ reversal \in [Reversals -> Nat] /\ fee \in [Fees -> Nat]
  /\ owed \in [Cells -> Nat] /\ cash \in [Cells -> Int]
  /\ spent \in Nat /\ estate \in Nat

SalesOf(c) == {s \in Sales : SellerOf[s] = c}

(***************************************************************************)
(* Until the date that was printed when a sale was made, the reserve holds *)
(* exactly what was set aside for it less what has been given back: no     *)
(* later policy, advance, fee, spending or death takes from it, and a      *)
(* refund takes from it first.  Afterwards it holds that or nothing        *)
(* (liability.py:330, _release_for_reversal_locked, 407, held_until).      *)
(***************************************************************************)
ReserveCoversRefunds ==
  \A s \in Sales :
    LET left == sale[s].hold - Least(sale[s].hold, Reversed(s)) IN
      /\ held[s] \in {0, left}
      /\ sale[s].hold > 0 /\ clock < sale[s].until => held[s] = left

(***************************************************************************)
(* The colony lends only against money set aside: what a Cell owes never   *)
(* exceeds what its sales still hold plus what was refunded of them, so a  *)
(* loan nobody refunded is repaid when the windows close (advances.py:23,  *)
(* 173, 212).                                                              *)
(***************************************************************************)
DebtIsBacked ==
  \A c \in Cells :
    owed[c] <= SumFunctionOnSet([s \in Sales |-> held[s] + Reversed(s)],
                                SalesOf(c))

Total(f) == SumFunction(f)

\* profit.report: every term read off the postings.
NetProfit ==
  LET gross == SumFunctionOnSet(AmountOf, {s \in Sales : sale[s].posted})
  IN  gross - Total(reversal) - Total(fee) - spent

(***************************************************************************)
(* The profit that is reported is what the colony has more than it started *)
(* with: in the Cells' cash, set aside, lent out of the seed bank or back  *)
(* in the treasury.  Holds, advances, repayments and estates move money    *)
(* inside the colony and never count as earned or spent (profit.py:215,    *)
(* report).  No sale gives back more than it brought.                      *)
(***************************************************************************)
ProfitIsWhatIsLeft ==
  /\ Total(cash) + Total(held) + estate - Total(owed) =
       Total(Funding) + NetProfit
  /\ \A s \in Sales : Reversed(s) <= AmountOf[s]
=============================================================================
