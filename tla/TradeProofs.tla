----------------------------- MODULE TradeProofs -----------------------------
(***************************************************************************)
(* What a colony earned, holds and lends is right for any sales, refunds,  *)
(* chargebacks, fees, policies, windows, clocks and deaths.                *)
(*                                                                         *)
(* The four invariants hold together: a refund finds its hold because a    *)
(* sale's window does not move, the window does not move because the       *)
(* policy a sale was made under stays the latest one not after it, and     *)
(* what is owed is backed because a hold is released in the step that      *)
(* repays.                                                                 *)
(***************************************************************************)
EXTENDS Trade, SumTheorems, SequenceTheorems

-----------------------------------------------------------------------------
(* The arithmetic of a sale. *)

\* A part of a natural number, rounded down, is one and not more than it.
LEMMA PartOf ==
  ASSUME NEW n \in Nat, NEW w \in Nat \ {0}, NEW part \in 0 .. w
  PROVE  (n * part) \div w \in Nat /\ (n * part) \div w <= n
<1>1. n * part \in Nat /\ n * part <= n * w
  BY SMT
<1>2. QED
  BY <1>1, SMT

\* A share rounded up is a natural number.
LEMMA SharePositive ==
  ASSUME NEW n \in Nat, NEW w \in Nat \ {0}, NEW share \in 0 .. w
  PROVE  (n * share + w - 1) \div w \in Nat
<1>1. n * share \in Nat
  BY SMT
<1>2. QED
  BY <1>1, SMT

\* A policy that is in force is one of those declared.
LEMMA CurrentDeclared ==
  ASSUME NEW R, policies \in Seq(R), ~NoPolicy
  PROVE  /\ Len(policies) \in DOMAIN policies
         /\ DOMAIN policies = 1 .. Len(policies)
         /\ Len(policies) \in Nat
         /\ CurrentPolicy \in R
<1>1. policies # <<>>
  BY DEF NoPolicy
<1>2. Len(policies) \in Nat /\ DOMAIN policies = 1 .. Len(policies)
  BY LenProperties
<1>3. Len(policies) # 0
  BY <1>1, EmptySeq
<1>4. Len(policies) \in 1 .. Len(policies)
  BY <1>2, <1>3
<1>5. policies[Len(policies)] \in R
  BY <1>4, ElementOfSeq
<1>6. QED
  BY <1>2, <1>4, <1>5 DEF CurrentPolicy

\* What a sale would set aside now.
LEMMA HoldOnNat ==
  ASSUME TypeOK, NEW s \in Sales
  PROVE  HoldOn(s) \in Nat
<1>1. CASE NoPolicy
  BY <1>1 DEF HoldOn
<1>2. CASE ~NoPolicy
  <2>1. CurrentPolicy \in [share : 1 .. Whole, window : Nat \ {0}, at : Nat]
    BY <1>2, CurrentDeclared DEF TypeOK
  <2>2. CurrentPolicy.share \in 0 .. Whole
    BY <2>1, TradeAssumption
  <2>3. QED
    BY <1>2, <2>2, SharePositive, TradeAssumption DEF HoldOn
<1>3. QED
  BY <1>1, <1>2

\* No more is lent on a sale than is set aside for it.
LEMMA AdvanceBounded ==
  ASSUME TypeOK, NEW s \in Sales
  PROVE  AdvanceOn(s) \in Nat /\ AdvanceOn(s) <= HoldOn(s)
<1>1. ShareOfHold(s) \in Nat /\ ShareOfHold(s) <= HoldOn(s)
  <2>1. HoldOn(s) \in Nat /\ lending[1] \in 0 .. Whole
    BY HoldOnNat DEF TypeOK
  <2>2. QED
    BY <2>1, PartOf, TradeAssumption DEF ShareOfHold
<1>2. owed[SellerOf[s]] \in Nat /\ lending[2] \in Nat /\ HoldOn(s) \in Nat
  BY HoldOnNat, TradeAssumption DEF TypeOK
<1>3. QED
  BY <1>1, <1>2 DEF AdvanceOn, Least

-----------------------------------------------------------------------------
(* What was given back of each sale. *)

ReversedOf(r, s) == SumFunctionOnSet(r, {v \in Reversals : SaleOf[v] = s})

\* What the reversals of one sale come to.
LEMMA ReversedNat ==
  ASSUME NEW r \in [Reversals -> Nat], NEW s
  PROVE  ReversedOf(r, s) \in Nat
<1> DEFINE V == {v \in Reversals : SaleOf[v] = s}
<1>1. IsFiniteSet(V) /\ \A v \in V : r[v] \in Nat
  BY FS_Subset, TradeAssumption
<1> HIDE DEF V
<1>2. SumFunctionOnSet(r, V) \in Nat
  BY <1>1, SumInt
<1>3. QED
  BY <1>2 DEF V, ReversedOf

\* A reversal posted for the first time moves its own sale by its amount.
LEMMA ReversedMoves ==
  ASSUME NEW r \in [Reversals -> Nat], NEW v \in Reversals, r[v] = 0,
         NEW amount \in Nat, NEW q \in [Reversals -> Nat],
         q[v] = amount, \A w \in Reversals \ {v} : q[w] = r[w]
  PROVE  /\ ReversedOf(q, SaleOf[v]) = ReversedOf(r, SaleOf[v]) + amount
         /\ \A s : s # SaleOf[v] => ReversedOf(q, s) = ReversedOf(r, s)
<1> DEFINE V(s) == {w \in Reversals : SaleOf[w] = s}
<1>1. \A s : IsFiniteSet(V(s)) /\ \A w \in V(s) : r[w] \in Int /\ q[w] \in Int
  BY FS_Subset, TradeAssumption
<1>2. v \in V(SaleOf[v]) /\ \A w \in V(SaleOf[v]) \ {v} : q[w] = r[w]
  OBVIOUS
<1>3. \A s : s # SaleOf[v] => \A w \in V(s) : r[w] = q[w]
  OBVIOUS
<1>4. q[v] = amount /\ ReversedOf(r, SaleOf[v]) \in Nat
  BY ReversedNat
<1>5. \A s : ReversedOf(r, s) = SumFunctionOnSet(r, V(s))
             /\ ReversedOf(q, s) = SumFunctionOnSet(q, V(s))
  BY DEF ReversedOf
<1> HIDE DEF V
<1>6. SumFunctionOnSet(q, V(SaleOf[v])) = SumFunctionOnSet(r, V(SaleOf[v])) + q[v] - r[v]
  <2> DEFINE W == V(SaleOf[v])
  <2>1. /\ v \in W /\ IsFiniteSet(W) /\ q[v] \in Int
        /\ \A w \in W : r[w] \in Int
        /\ \A w \in W \ {v} : q[w] = r[w]
    BY <1>1, <1>2
  <2> HIDE DEF W
  <2>2. SumFunctionOnSet(q, W) = SumFunctionOnSet(r, W) + q[v] - r[v]
    BY <2>1, SumMoves
  <2>3. QED
    BY <2>2 DEF W
<1>7. \A s : s # SaleOf[v] => SumFunctionOnSet(r, V(s)) = SumFunctionOnSet(q, V(s))
  BY <1>1, <1>3, SumAgrees
<1>8. QED
  BY <1>4, <1>5, <1>6, <1>7

\* Nothing was given back of a sale none of whose reversals is posted.
LEMMA ReversedNone ==
  ASSUME NEW r, NEW s, \A v \in Reversals : SaleOf[v] = s => r[v] = 0
  PROVE  ReversedOf(r, s) = 0
<1> DEFINE V == {v \in Reversals : SaleOf[v] = s}
<1>1. IsFiniteSet(V) /\ \A v \in V : r[v] = 0
  BY FS_Subset, TradeAssumption
<1> HIDE DEF V
<1>2. SumFunctionOnSet(r, V) = 0
  BY <1>1, SumZero
<1>3. QED
  BY <1>2 DEF V, ReversedOf

-----------------------------------------------------------------------------
(* What a release moves. *)

\* What is due is part of what is held, and each Cell gets its own.
LEMMA ReleasedIs ==
  ASSUME TypeOK, NEW now
  PROVE  /\ IsFiniteSet(Due(now)) /\ Due(now) \subseteq Sales
         /\ \A c : Released(c, now) \in Nat
<1>1. IsFiniteSet(Due(now)) /\ Due(now) \subseteq Sales
  BY FS_Subset, TradeAssumption DEF Due
<1>2. ASSUME NEW c PROVE Released(c, now) \in Nat
  <2> DEFINE D == {s \in Due(now) : SellerOf[s] = c}
  <2>1. IsFiniteSet(D) /\ \A s \in D : held[s] \in Nat
    BY <1>1, FS_Subset DEF TypeOK
  <2> HIDE DEF D
  <2>2. SumFunctionOnSet(held, D) \in Nat
    BY <2>1, SumInt
  <2>3. QED
    BY <2>2 DEF D, Released
<1>3. QED
  BY <1>1, <1>2
-----------------------------------------------------------------------------
(* Types. *)

\* A fee is paid by a Cell of the colony.
LEMMA PayerIsCell ==
  \A charge \in Charges : PayerOf(charge) \in Cells
  BY TradeAssumption DEF Charges, PayerOf

Terms == [share : 1 .. Whole, window : Nat \ {0}, at : Nat]

\* Policies are numbered from one and each has its time.
LEMMA PolicyTimes ==
  ASSUME NEW p \in Seq(Terms)
  PROVE  /\ Len(p) \in Nat /\ DOMAIN p = 1 .. Len(p)
         /\ \A i \in DOMAIN p : i \in Nat /\ p[i].at \in Nat
<1>1. Len(p) \in Nat /\ DOMAIN p = 1 .. Len(p)
  BY LenProperties
<1>2. \A i \in 1 .. Len(p) : p[i] \in Terms
  BY ElementOfSeq
<1>3. \A i \in 1 .. Len(p) : i \in Nat /\ p[i].at \in Nat
  BY <1>1, <1>2 DEF Terms
<1>4. QED
  BY <1>1, <1>3

\* Declaring a policy puts one row, dated now, after the others.
LEMMA Declared ==
  ASSUME TypeOK, NEW terms \in ReserveTerms,
         DeclareReservePolicy(terms[1], terms[2])
  PROVE  /\ clock' = clock + 1 /\ policies' \in Seq(Terms)
         /\ Len(policies') = Len(policies) + 1
         /\ policies'[Len(policies')].at = clock'
         /\ \A i \in 1 .. Len(policies) : policies'[i] = policies[i]
<1> DEFINE row == [share |-> terms[1], window |-> terms[2], at |-> clock']
<1>1. clock' = clock + 1 /\ policies' = Append(policies, row) /\ row.at = clock'
  BY DEF DeclareReservePolicy
<1>2. policies \in Seq(Terms) /\ row \in Terms
  BY <1>1, TradeAssumption DEF TypeOK, Terms
<1> HIDE DEF row
<1>3. QED
  BY <1>1, <1>2, AppendProperties

\* Each action keeps the types.
LEMMA TypeStep ==
  ASSUME TypeOK, [Next]_vars
  PROVE  TypeOK'
<1> USE TradeAssumption
<1>1. CASE UNCHANGED vars
  BY <1>1 DEF vars, books, TypeOK
<1>2. CASE cmd_set_reserve_policy
  <2>1. PICK terms \in ReserveTerms : DeclareReservePolicy(terms[1], terms[2])
    BY <1>2 DEF cmd_set_reserve_policy
  <2>2. policies' \in Seq([share : 1 .. Whole, window : Nat \ {0}, at : Nat])
    BY <2>1, Declared DEF Terms
  <2>3. QED
    BY <2>1, <2>2 DEF TypeOK, DeclareReservePolicy, books
<1>3. CASE cmd_set_advance_policy
  <2>1. PICK terms \in AdvanceTerms : DeclareAdvancePolicy(terms[1], terms[2])
    BY <1>3 DEF cmd_set_advance_policy
  <2>2. <<terms[1], terms[2]>> \in (0 .. Whole) \X Nat
    OBVIOUS
  <2>3. QED
    BY <2>1, <2>2 DEF TypeOK, DeclareAdvancePolicy, books
<1>4. CASE cmd_record_revenue
  <2>1. PICK s \in Sales : RecordRevenue(s)
    BY <1>4 DEF cmd_record_revenue
  <2>2. HoldOn(s) \in Nat /\ AdvanceOn(s) \in Nat
    BY HoldOnNat, AdvanceBounded
  <2>3. PrintedDate \in Nat
    <3>1. CASE NoPolicy
      BY <3>1 DEF PrintedDate, TypeOK
    <3>2. CASE ~NoPolicy
      <4>1. CurrentPolicy \in [share : 1 .. Whole, window : Nat \ {0}, at : Nat]
        BY <3>2, CurrentDeclared DEF TypeOK
      <4>2. CurrentPolicy.window \in Nat /\ clock \in Nat
        BY <4>1 DEF TypeOK
      <4>3. QED
        BY <3>2, <4>2 DEF PrintedDate
    <3>3. QED
      BY <3>1, <3>2
  <2>4. /\ sale' \in [Sales -> [posted : BOOLEAN, at : Nat, hold : Nat, until : Nat]]
        /\ held' \in [Sales -> Nat]
    BY <2>1, <2>2, <2>3 DEF TypeOK, RecordRevenue
  <2>5. owed' \in [Cells -> Nat] /\ cash' \in [Cells -> Int]
    <3>1. /\ owed \in [Cells -> Nat] /\ cash \in [Cells -> Int]
          /\ SellerOf[s] \in Cells /\ AmountOf[s] \in Int
      BY DEF TypeOK
    <3>2. /\ owed' = [owed EXCEPT ![SellerOf[s]] = @ + AdvanceOn(s)]
          /\ cash' = [cash EXCEPT ![SellerOf[s]] =
                        @ + AmountOf[s] - HoldOn(s) + AdvanceOn(s)]
      BY <2>1 DEF RecordRevenue
    <3>3. QED
      BY <2>2, <3>1, <3>2
  <2>6. UNCHANGED <<clock, cell, policies, lending, reversal, fee, spent, estate>>
    BY <2>1 DEF RecordRevenue
  <2>7. QED
    BY <2>4, <2>5, <2>6 DEF TypeOK
<1>5. CASE cmd_record_refund
  <2>1. PICK v \in Reversals, amount \in Amounts : RecordReversal(v, amount)
    BY <1>5 DEF cmd_record_refund
  <2>2. held' \in [Sales -> Nat] /\ cash' \in [Cells -> Int]
    <3> DEFINE s == SaleOf[v]
    <3>1. /\ held \in [Sales -> Nat] /\ cash \in [Cells -> Int]
          /\ s \in Sales /\ SellerOf[s] \in Cells /\ amount \in Nat
      BY DEF TypeOK
    <3>2. FreedFor(s, amount) \in Nat /\ held[s] - FreedFor(s, amount) \in Nat
      BY <3>1 DEF FreedFor, Least
    <3>3. /\ held' = [held EXCEPT ![s] = @ - FreedFor(s, amount)]
          /\ cash' = [cash EXCEPT ![SellerOf[s]] =
                        @ + FreedFor(s, amount) - amount]
      BY <2>1 DEF RecordReversal
    <3>4. QED
      BY <3>1, <3>2, <3>3
  <2>3. reversal' \in [Reversals -> Nat]
    BY <2>1 DEF TypeOK, RecordReversal, PostReversal
  <2>4. UNCHANGED <<clock, cell, policies, lending, sale, fee, owed, spent, estate>>
    BY <2>1 DEF RecordReversal
  <2>5. QED
    BY <2>2, <2>3, <2>4 DEF TypeOK
<1>6. CASE cmd_record_fee
  <2>1. PICK f \in Fees, amount \in Amounts : RecordPaymentFee(f, amount)
    BY <1>6 DEF cmd_record_fee
  <2>2. fee' \in [Fees -> Nat] /\ cash' \in [Cells -> Int]
    <3> DEFINE c == PayerOf(ChargeOf[f])
    <3>1. /\ fee' = [fee EXCEPT ![f] = amount] /\ amount \in Nat
          /\ cash' = [cash EXCEPT ![c] = @ - amount]
      BY <2>1 DEF RecordPaymentFee
    <3>2. fee \in [Fees -> Nat] /\ cash \in [Cells -> Int] /\ c \in Cells
      BY <2>1, PayerIsCell DEF TypeOK, RecordPaymentFee
    <3> HIDE DEF c
    <3>3. QED
      BY <3>1, <3>2
  <2>3. UNCHANGED <<clock, cell, policies, lending, sale, held, reversal, owed,
                    spent, estate>>
    BY <2>1 DEF RecordPaymentFee
  <2>4. QED
    BY <2>2, <2>3 DEF TypeOK
<1>7. CASE cmd_release_reserves
  <2>1. PICK now \in 0 .. clock : ReleaseDue(now)
    BY <1>7 DEF cmd_release_reserves
  <2>2. \A c \in Cells : /\ Released(c, now) \in Nat /\ Repaid(c, now) \in Nat
                         /\ owed[c] - Repaid(c, now) \in Nat
    <3>1. \A c \in Cells : owed[c] \in Nat /\ Released(c, now) \in Nat
      BY ReleasedIs DEF TypeOK
    <3>2. QED
      BY <3>1 DEF Repaid, Least
  <2>3. held' \in [Sales -> Nat]
    BY <2>1 DEF TypeOK, ReleaseDue
  <2>4. owed' \in [Cells -> Nat] /\ cash' \in [Cells -> Int]
    BY <2>1, <2>2 DEF TypeOK, ReleaseDue
  <2>5. UNCHANGED <<clock, cell, policies, lending, sale, reversal, fee, spent,
                    estate>>
    BY <2>1 DEF ReleaseDue
  <2>6. QED
    BY <2>3, <2>4, <2>5 DEF TypeOK
<1>8. CASE \E c \in Cells, amount \in Amounts : Spend(c, amount)
  BY <1>8 DEF TypeOK, Spend
<1>9. CASE \E c \in Mortal : KillCell(c) \/ ReclaimEstate(c) \/ QuarantineCell(c)
  <2>1. PICK c \in Mortal : KillCell(c) \/ ReclaimEstate(c) \/ QuarantineCell(c)
    BY <1>9
  <2>2. CASE EmptyEstate(c)
    <3>1. cell' \in [Cells -> CellStatuses]
      BY <2>1 DEF TypeOK, KillCell, ReclaimEstate, QuarantineCell, CellStatuses
    <3>2. c \in Cells /\ cash \in [Cells -> Int] /\ estate \in Nat
      BY DEF TypeOK
    <3>3. cash' \in [Cells -> Int] /\ estate' \in Nat
      BY <2>2, <3>2 DEF EmptyEstate
    <3>4. UNCHANGED <<clock, policies, lending, sale, held, reversal, fee, owed,
                      spent>>
      BY <2>2 DEF EmptyEstate
    <3>5. QED
      BY <3>1, <3>3, <3>4 DEF TypeOK
  <2>3. CASE QuarantineCell(c)
    BY <2>3 DEF TypeOK, QuarantineCell, CellStatuses, books
  <2>4. QED
    BY <2>1, <2>2, <2>3 DEF KillCell, ReclaimEstate
<1>10. CASE Tick
  BY <1>10 DEF TypeOK, Tick, books
<1>11. QED
  BY <1>1, <1>2, <1>3, <1>4, <1>5, <1>6, <1>7, <1>8, <1>9, <1>10 DEF Next
-----------------------------------------------------------------------------
(* The window of a sale does not move. *)

\* The policy a sale was made under is the latest not after it, and its window
\* is the one that was printed.
UnderPolicy(s) ==
  \E k \in DOMAIN policies :
    /\ policies[k].at <= sale[s].at
    /\ \A j \in DOMAIN policies : j > k => policies[j].at > sale[s].at
    /\ sale[s].until = sale[s].at + policies[k].window

\* A sale is in the past; before it nothing is set aside or reversed.
SaleKept(s) ==
  /\ sale[s].at <= clock
  /\ ~sale[s].posted =>
       /\ sale[s].hold = 0 /\ held[s] = 0
       /\ \A v \in Reversals : SaleOf[v] = s => reversal[v] = 0
  /\ sale[s].hold > 0 => UnderPolicy(s)

SalesKept ==
  /\ \A i \in DOMAIN policies : policies[i].at <= clock
  /\ \A s \in Sales : SaleKept(s)

\* The window derived today is the one that was printed.
LEMMA HeldUntilIs ==
  ASSUME TypeOK, NEW s \in Sales, UnderPolicy(s)
  PROVE  HeldUntil(s) = sale[s].until
<1> DEFINE at == sale[s].at
           Latest(i) == /\ policies[i].at <= at
                        /\ \A j \in DOMAIN policies : policies[j].at <= at => j <= i
<1>1. PICK k \in DOMAIN policies :
        /\ policies[k].at <= at
        /\ \A j \in DOMAIN policies : j > k => policies[j].at > at
        /\ sale[s].until = at + policies[k].window
  BY DEF UnderPolicy
<1>2. at \in Nat /\ \A j \in DOMAIN policies : j \in Nat /\ policies[j].at \in Nat
  <2>1. policies \in Seq(Terms) /\ sale[s].at \in Nat
    BY DEF TypeOK, Terms
  <2>2. QED
    BY <2>1, PolicyTimes
<1>3. Latest(k) /\ \A i \in DOMAIN policies : Latest(i) => i = k
  <2> HIDE DEF at
  <2>1. QED
    BY <1>1, <1>2
<1>4. (CHOOSE i \in DOMAIN policies : Latest(i)) = k
  <2> HIDE DEF Latest
  <2>1. QED
    BY <1>3
<1>5. PolicyAt(at) = policies[k]
  BY <1>4 DEF PolicyAt
<1>6. QED
  BY <1>1, <1>5 DEF HeldUntil

\* A sale whose row, policies and reversals a step leaves alone stays kept.
LEMMA UntouchedKept ==
  ASSUME NEW s \in Sales, SaleKept(s), clock' \in Nat, clock \in Nat, sale[s].at \in Nat,
         clock <= clock', policies' = policies, sale'[s] = sale[s],
         ~sale[s].posted =>
           /\ held'[s] = held[s]
           /\ \A v \in Reversals : SaleOf[v] = s => reversal'[v] = reversal[v]
  PROVE  SaleKept(s)'
  BY DEF SaleKept, UnderPolicy

\* Sales stay as they were kept.
LEMMA KeptStep ==
  ASSUME TypeOK, SalesKept, [Next]_vars
  PROVE  SalesKept'
<1> USE TradeAssumption
<1>1. clock \in Nat /\ \A s \in Sales : sale[s].at \in Nat
  BY DEF TypeOK
<1>2. ASSUME UNCHANGED <<policies, sale>>, clock' \in Nat, clock <= clock',
             \A s \in Sales : ~sale[s].posted =>
               /\ held'[s] = held[s]
               /\ \A v \in Reversals : SaleOf[v] = s => reversal'[v] = reversal[v]
      PROVE  SalesKept'
  <2>1. \A s \in Sales : SaleKept(s)'
    BY <1>1, <1>2, UntouchedKept DEF SalesKept
  <2>2. \A i \in DOMAIN policies : policies[i].at \in Nat
    <3>1. policies \in Seq(Terms)
      BY DEF TypeOK, Terms
    <3>2. QED
      BY <3>1, PolicyTimes
  <2>3. QED
    BY <1>1, <1>2, <2>1, <2>2 DEF SalesKept
<1>3. CASE cmd_set_reserve_policy
  <2>1. PICK terms \in ReserveTerms : DeclareReservePolicy(terms[1], terms[2])
    BY <1>3 DEF cmd_set_reserve_policy
  <2> DEFINE n == Len(policies)
  <2>2. /\ clock' = clock + 1 /\ policies' \in Seq(Terms) /\ policies \in Seq(Terms)
        /\ Len(policies') = n + 1 /\ policies'[n + 1].at = clock'
        /\ \A i \in 1 .. n : policies'[i] = policies[i]
    BY <2>1, Declared DEF TypeOK, Terms
  <2>3. n \in Nat /\ DOMAIN policies = 1 .. n /\ DOMAIN policies' = 1 .. n + 1
    BY <2>2, LenProperties
  <2>4. \A i \in 1 .. n : policies[i].at \in Nat /\ policies[i].at <= clock
    BY <2>2, <2>3, PolicyTimes DEF SalesKept
  <2>5. UNCHANGED <<sale, held, reversal>>
    BY <2>1 DEF DeclareReservePolicy
  <2> HIDE DEF n
  <2>6. \A i \in DOMAIN policies' : policies'[i].at <= clock'
    BY <1>1, <2>2, <2>3, <2>4
  <2>7. ASSUME NEW s \in Sales PROVE SaleKept(s)'
    <3>1. SaleKept(s) /\ sale[s].at \in Nat
      BY <1>1 DEF SalesKept
    <3>2. ASSUME UnderPolicy(s) PROVE UnderPolicy(s)'
      <4>1. PICK k \in 1 .. n :
              /\ policies[k].at <= sale[s].at
              /\ \A j \in 1 .. n : j > k => policies[j].at > sale[s].at
              /\ sale[s].until = sale[s].at + policies[k].window
        BY <3>2, <2>3 DEF UnderPolicy
      <4>2. k \in 1 .. n + 1 /\ policies'[k] = policies[k]
        BY <2>2, <2>3
      <4>3. ASSUME NEW j \in 1 .. n + 1, j > k PROVE policies'[j].at > sale[s].at
        <5>1. CASE j = n + 1
          BY <1>1, <2>2, <3>1, <5>1 DEF SaleKept
        <5>2. CASE j # n + 1
          BY <2>2, <2>3, <4>1, <4>3, <5>2
        <5>3. QED
          BY <5>1, <5>2
      <4>4. QED
        BY <2>3, <2>5, <4>1, <4>2, <4>3 DEF UnderPolicy
    <3>3. QED
      BY <1>1, <2>2, <2>5, <3>1, <3>2 DEF SaleKept
  <2>8. QED
    BY <2>6, <2>7 DEF SalesKept
<1>4. CASE cmd_set_advance_policy
  BY <1>1, <1>2, <1>4 DEF cmd_set_advance_policy, DeclareAdvancePolicy, books
<1>5. CASE cmd_record_revenue
  <2>1. PICK s \in Sales : RecordRevenue(s)
    BY <1>5 DEF cmd_record_revenue
  <2>2. UNCHANGED <<clock, policies, reversal>> /\ ~sale[s].posted
    BY <2>1 DEF RecordRevenue
  <2>3. \A q \in Sales \ {s} : sale'[q] = sale[q] /\ held'[q] = held[q]
    BY <2>1 DEF RecordRevenue, TypeOK
  <2>4. \A q \in Sales \ {s} : SaleKept(q)'
    BY <1>1, <2>2, <2>3, UntouchedKept DEF SalesKept
  <2>5. sale'[s] = [posted |-> TRUE, at |-> clock, hold |-> HoldOn(s), until |-> PrintedDate]
    BY <2>1 DEF RecordRevenue, TypeOK
  <2>6. ASSUME HoldOn(s) > 0 PROVE UnderPolicy(s)'
    <3>1. ~NoPolicy
      BY <2>6 DEF HoldOn
    <3>2. /\ Len(policies) \in DOMAIN policies /\ DOMAIN policies = 1 .. Len(policies)
          /\ Len(policies) \in Nat
      BY <3>1, CurrentDeclared DEF TypeOK
    <3>3. policies[Len(policies)].at <= clock
      BY <3>2 DEF SalesKept
    <3>4. PrintedDate = clock + policies[Len(policies)].window
      BY <3>1 DEF PrintedDate, CurrentPolicy
    <3>5. \A j \in DOMAIN policies : ~(j > Len(policies))
      BY <3>2
    <3>6. QED
      BY <2>2, <2>5, <3>2, <3>3, <3>4, <3>5 DEF UnderPolicy
  <2>7. SaleKept(s)'
    BY <1>1, <2>2, <2>5, <2>6 DEF SaleKept
  <2>8. QED
    BY <2>2, <2>4, <2>7 DEF SalesKept
<1>6. CASE cmd_record_refund
  <2>1. PICK v \in Reversals, amount \in Amounts : RecordReversal(v, amount)
    BY <1>6 DEF cmd_record_refund
  <2>2. /\ UNCHANGED <<clock, policies, sale>> /\ sale[SaleOf[v]].posted
        /\ \A s \in Sales \ {SaleOf[v]} : held'[s] = held[s]
        /\ \A w \in Reversals \ {v} : reversal'[w] = reversal[w]
    BY <2>1 DEF RecordReversal, PostReversal, TypeOK
  <2>3. QED
    BY <1>1, <1>2, <2>2
<1>7. CASE cmd_record_fee
  BY <1>1, <1>2, <1>7 DEF cmd_record_fee, RecordPaymentFee
<1>8. CASE cmd_release_reserves
  <2>1. PICK now \in 0 .. clock : ReleaseDue(now)
    BY <1>8 DEF cmd_release_reserves
  <2>2. \A s \in Sales : held[s] = 0 => held'[s] = 0
    BY <2>1 DEF ReleaseDue
  <2>3. \A s \in Sales : ~sale[s].posted => held'[s] = held[s]
    BY <2>2 DEF SalesKept, SaleKept
  <2>4. UNCHANGED <<clock, policies, sale, reversal>>
    BY <2>1 DEF ReleaseDue
  <2>5. QED
    BY <1>1, <1>2, <2>3, <2>4
<1>9. CASE \E c \in Cells, amount \in Amounts : Spend(c, amount)
  BY <1>1, <1>2, <1>9 DEF Spend
<1>10. CASE \E c \in Mortal : KillCell(c) \/ ReclaimEstate(c) \/ QuarantineCell(c)
  BY <1>1, <1>2, <1>10 DEF KillCell, ReclaimEstate, EmptyEstate, QuarantineCell
<1>11. CASE Tick
  BY <1>1, <1>2, <1>11 DEF Tick
<1>12. CASE UNCHANGED vars
  BY <1>1, <1>2, <1>12 DEF vars
<1>13. QED
  BY <1>3, <1>4, <1>5, <1>6, <1>7, <1>8, <1>9, <1>10, <1>11, <1>12 DEF Next
-----------------------------------------------------------------------------
(* What is set aside covers what may be given back. *)

Left(s) == sale[s].hold - Least(sale[s].hold, Reversed(s))

Covered(s) ==
  /\ held[s] \in {0, Left(s)}
  /\ sale[s].hold > 0 /\ clock < sale[s].until => held[s] = Left(s)

\* The property, sale by sale.
LEMMA CoveredIs == ReserveCoversRefunds <=> \A s \in Sales : Covered(s)
  BY DEF ReserveCoversRefunds, Covered, Left

\* Where a step leaves a sale's row, hold and reversals, it stays covered.
LEMMA UntouchedCovered ==
  ASSUME TypeOK, NEW s \in Sales, Covered(s), clock' \in Nat, clock <= clock',
         sale'[s] = sale[s], held'[s] = held[s], Reversed(s)' = Reversed(s)
  PROVE  Covered(s)'
<1>1. clock \in Nat /\ sale[s].until \in Nat
  BY DEF TypeOK
<1>2. Left(s)' = Left(s)
  BY DEF Left, Least
<1>3. QED
  BY <1>1, <1>2 DEF Covered

\* Drawing on what is left of a hold leaves what is left after both draws.
LEMMA DrawDown ==
  ASSUME NEW hold \in Nat, NEW drawn \in Nat, NEW amount \in Nat
  PROVE  /\ 0 - Least(0, amount) = 0
         /\ \A left : left = hold - Least(hold, drawn) =>
              left - Least(left, amount) = hold - Least(hold, drawn + amount)
<1> DEFINE left == hold - Least(hold, drawn)
           both == drawn + amount
<1> SUFFICES 0 - Least(0, amount) = 0 /\ left - Least(left, amount) = hold - Least(hold, both)
  OBVIOUS
<1>1. /\ both \in Int
      /\ Least(hold, drawn) = IF hold < drawn THEN hold ELSE drawn
      /\ Least(hold, both) = IF hold < both THEN hold ELSE both
      /\ Least(left, amount) = IF left < amount THEN left ELSE amount
      /\ Least(0, amount) = IF 0 < amount THEN 0 ELSE amount
  BY DEF Least
<1>2. left = hold - Least(hold, drawn) /\ both = drawn + amount
  OBVIOUS
<1> HIDE DEF left, both
<1>3. CASE hold < drawn
  BY <1>1, <1>2, <1>3
<1>4. CASE ~(hold < drawn)
  <2>1. left = hold - drawn
    BY <1>1, <1>2, <1>4
  <2>2. left - Least(left, amount) = hold - Least(hold, both)
    BY <1>1, <1>2, <1>4, <2>1
  <2>3. QED
    BY <1>1, <2>2
<1>5. QED
  BY <1>3, <1>4

\* No step leaves a refund uncovered.
LEMMA CoverStep ==
  ASSUME TypeOK, SalesKept, ReserveCoversRefunds, [Next]_vars
  PROVE  ReserveCoversRefunds'
<1> USE TradeAssumption
<1>1. clock \in Nat /\ TypeOK'
  BY TypeStep DEF TypeOK
<1>2. ASSUME UNCHANGED <<sale, held, reversal>>, clock <= clock'
      PROVE  ReserveCoversRefunds'
  <2>1. \A s \in Sales : Reversed(s)' = Reversed(s)
    BY <1>2 DEF Reversed
  <2>2. clock' \in Nat /\ \A s \in Sales : Covered(s)
    BY <1>1, CoveredIs DEF TypeOK
  <2>3. \A s \in Sales : Covered(s)'
    BY <1>2, <2>1, <2>2, UntouchedCovered
  <2>4. QED
    BY <2>3 DEF ReserveCoversRefunds, Covered, Left
<1>3. CASE cmd_record_revenue
  <2>1. PICK s \in Sales : RecordRevenue(s)
    BY <1>3 DEF cmd_record_revenue
  <2>2. UNCHANGED <<clock, reversal>> /\ ~sale[s].posted
    BY <2>1 DEF RecordRevenue
  <2>3. \A q \in Sales : Reversed(q)' = Reversed(q)
    BY <2>2 DEF Reversed
  <2>4. \A q \in Sales \ {s} : sale'[q] = sale[q] /\ held'[q] = held[q]
    BY <2>1 DEF RecordRevenue, TypeOK
  <2>5. \A q \in Sales \ {s} : Covered(q)'
    <3>1. \A q \in Sales : Covered(q)
      BY CoveredIs
    <3>2. QED
      BY <1>1, <2>2, <2>3, <2>4, <3>1, UntouchedCovered
  <2>6. Reversed(s)' = 0
    <3>1. \A v \in Reversals : SaleOf[v] = s => reversal[v] = 0
      BY <2>2 DEF SalesKept, SaleKept
    <3>2. ReversedOf(reversal, s) = 0
      BY <3>1, ReversedNone
    <3>3. QED
      BY <2>3, <3>2 DEF Reversed, ReversedOf
  <2>7. held'[s] = HoldOn(s) /\ sale'[s].hold = HoldOn(s) /\ HoldOn(s) \in Nat
    BY <2>1, HoldOnNat DEF RecordRevenue, TypeOK
  <2>8. Left(s)' = held'[s]
    BY <2>6, <2>7 DEF Left, Least
  <2>9. Covered(s)'
    BY <2>8 DEF Covered
  <2>10. QED
    BY <2>5, <2>9 DEF ReserveCoversRefunds, Covered, Left
<1>4. CASE cmd_record_refund
  <2>1. PICK v \in Reversals, amount \in Amounts : RecordReversal(v, amount)
    BY <1>4 DEF cmd_record_refund
  <2> DEFINE s == SaleOf[v]
  <2>2. UNCHANGED <<clock, sale>> /\ s \in Sales /\ amount \in Nat
    BY <2>1 DEF RecordReversal
  <2>3. /\ reversal \in [Reversals -> Nat] /\ reversal' \in [Reversals -> Nat]
        /\ reversal[v] = 0 /\ reversal'[v] = amount
        /\ \A w \in Reversals \ {v} : reversal'[w] = reversal[w]
    BY <2>1 DEF RecordReversal, PostReversal, TypeOK
  <2>4. /\ Reversed(s)' = Reversed(s) + amount /\ Reversed(s) \in Nat
        /\ \A q \in Sales \ {s} : Reversed(q)' = Reversed(q)
    <3>1. /\ ReversedOf(reversal', s) = ReversedOf(reversal, s) + amount
          /\ \A q : q # s => ReversedOf(reversal', q) = ReversedOf(reversal, q)
      BY <2>2, <2>3, ReversedMoves
    <3>2. ReversedOf(reversal, s) \in Nat
      BY <2>3, ReversedNat
    <3>3. QED
      BY <3>1, <3>2 DEF Reversed, ReversedOf
  <2>5. /\ held'[s] = held[s] - Least(held[s], amount)
        /\ \A q \in Sales \ {s} : held'[q] = held[q]
    BY <2>1 DEF RecordReversal, FreedFor, TypeOK
  <2>6. \A q \in Sales : Covered(q)
    BY CoveredIs
  <2>7. \A q \in Sales \ {s} : Covered(q)'
    BY <1>1, <2>2, <2>4, <2>5, <2>6, UntouchedCovered
  <2> HIDE DEF s
  <2>8. Covered(s)'
    <3>1. sale[s].hold \in Nat /\ held[s] \in Nat
      BY <2>2 DEF TypeOK
    <3>2. held[s] \in {0, Left(s)}
      BY <2>2, <2>6 DEF Covered
    <3>3. held[s] = 0 => held'[s] = 0
      BY <2>2, <2>5, <3>1, DrawDown
    <3>4. held[s] = Left(s) => held'[s] = Left(s)'
      <4> DEFINE hold  == sale[s].hold
                 drawn == Reversed(s)
                 left  == Left(s)
                 after == Left(s)'
      <4>1. /\ after = hold - Least(hold, drawn + amount)
            /\ left = hold - Least(hold, drawn)
        BY <2>2, <2>4 DEF Left
      <4>2. hold \in Nat /\ drawn \in Nat /\ amount \in Nat
        BY <2>2, <2>4, <3>1
      <4>3. held[s] = left => held'[s] = left - Least(left, amount)
        BY <2>5
      <4> HIDE DEF hold, drawn, left, after
      <4>4. left - Least(left, amount) = after
        BY <4>1, <4>2, DrawDown
      <4>5. QED
        BY <4>3, <4>4 DEF left, after
    <3>5. QED
      BY <2>2, <2>6, <3>2, <3>3, <3>4 DEF Covered
  <2>9. QED
    BY <2>7, <2>8 DEF ReserveCoversRefunds, Covered, Left
<1>5. CASE cmd_release_reserves
  <2>1. PICK now \in 0 .. clock : ReleaseDue(now)
    BY <1>5 DEF cmd_release_reserves
  <2>2. UNCHANGED <<clock, sale, reversal>>
    BY <2>1 DEF ReleaseDue
  <2>3. \A s \in Sales : Reversed(s)' = Reversed(s) /\ Covered(s)
    BY <2>2, CoveredIs DEF Reversed
  <2>4. ASSUME NEW s \in Sales PROVE Covered(s)'
    <3>1. CASE s \in Due(now)
      <4>1. held'[s] = 0 /\ held[s] > 0 /\ HeldUntil(s) <= now
        BY <2>1, <3>1 DEF ReleaseDue, Due
      <4>2. sale[s].hold \in Nat /\ sale[s].until \in Nat /\ held[s] \in Nat
            /\ Reversed(s) \in Nat
        BY ReversedNat DEF TypeOK, Reversed, ReversedOf
      <4>3. sale[s].hold > 0
        BY <2>3, <4>1, <4>2 DEF Covered, Left, Least
      <4>4. sale[s].until <= clock
        <5>1. HeldUntil(s) = sale[s].until
          BY <4>3, HeldUntilIs DEF SalesKept, SaleKept
        <5>2. QED
          BY <1>1, <4>1, <4>2, <5>1
      <4>5. sale'[s].until = sale[s].until /\ clock' = clock
        BY <2>2
      <4>6. QED
        BY <1>1, <4>1, <4>2, <4>4, <4>5 DEF Covered
    <3>2. CASE s \notin Due(now)
      <4>1. held'[s] = held[s]
        BY <2>1, <3>2 DEF ReleaseDue
      <4>2. QED
        BY <1>1, <2>2, <2>3, <4>1, UntouchedCovered
    <3>3. QED
      BY <3>1, <3>2
  <2>5. QED
    BY <2>4 DEF ReserveCoversRefunds, Covered, Left
<1>6. CASE cmd_set_reserve_policy
  BY <1>1, <1>2, <1>6 DEF cmd_set_reserve_policy, DeclareReservePolicy
<1>7. CASE cmd_set_advance_policy \/ cmd_record_fee
  BY <1>1, <1>2, <1>7 DEF cmd_set_advance_policy, DeclareAdvancePolicy, cmd_record_fee,
                         RecordPaymentFee
<1>8. CASE \E c \in Cells, amount \in Amounts : Spend(c, amount)
  BY <1>1, <1>2, <1>8 DEF Spend
<1>9. CASE \E c \in Mortal : KillCell(c) \/ ReclaimEstate(c) \/ QuarantineCell(c)
  BY <1>1, <1>2, <1>9 DEF KillCell, ReclaimEstate, EmptyEstate, QuarantineCell
<1>10. CASE Tick \/ UNCHANGED vars
  BY <1>1, <1>2, <1>10 DEF Tick, vars
<1>11. QED
  BY <1>3, <1>4, <1>5, <1>6, <1>7, <1>8, <1>9, <1>10 DEF Next
-----------------------------------------------------------------------------
(* What is lent is backed. *)

\* What stands behind a Cell's debt, given the holds and the reversals.
Backing(h, r, c) ==
  SumFunctionOnSet([s \in Sales |-> h[s] + ReversedOf(r, s)], SalesOf(c))

\* The property, by what backs each debt.
LEMMA DebtIs == DebtIsBacked <=> \A c \in Cells : owed[c] <= Backing(held, reversal, c)
  BY DEF DebtIsBacked, Backing, Reversed, ReversedOf

\* What backs a debt is an amount.
LEMMA BackingNat ==
  ASSUME NEW h \in [Sales -> Nat], NEW r \in [Reversals -> Nat], NEW c
  PROVE  Backing(h, r, c) \in Nat
<1> DEFINE f == [s \in Sales |-> h[s] + ReversedOf(r, s)]
           S == SalesOf(c)
<1>1. IsFiniteSet(S) /\ \A s \in S : f[s] \in Nat
  BY ReversedNat, FS_Subset, TradeAssumption DEF SalesOf
<1> HIDE DEF f, S
<1>2. SumFunctionOnSet(f, S) \in Nat
  BY <1>1, SumInt
<1>3. QED
  BY <1>2 DEF Backing, f, S

\* Where no sale's backing shrinks, no Cell's does.
LEMMA BackingGrows ==
  ASSUME NEW h \in [Sales -> Nat], NEW r \in [Reversals -> Nat],
         NEW h2 \in [Sales -> Nat], NEW r2 \in [Reversals -> Nat], NEW c,
         \A s \in Sales : h[s] + ReversedOf(r, s) <= h2[s] + ReversedOf(r2, s)
  PROVE  Backing(h, r, c) <= Backing(h2, r2, c)
<1> DEFINE f == [s \in Sales |-> h[s] + ReversedOf(r, s)]
           g == [s \in Sales |-> h2[s] + ReversedOf(r2, s)]
           S == SalesOf(c)
<1>1. IsFiniteSet(S) /\ \A s \in S : f[s] \in Int /\ g[s] \in Int /\ f[s] <= g[s]
  BY ReversedNat, FS_Subset, TradeAssumption DEF SalesOf
<1> HIDE DEF f, g, S
<1>2. SumFunctionOnSet(f, S) <= SumFunctionOnSet(g, S)
  BY <1>1, SumGrows
<1>3. QED
  BY <1>2 DEF Backing, f, g, S

\* A sale's hold stands behind its seller's debt.
LEMMA BackingAdds ==
  ASSUME NEW h \in [Sales -> Nat], NEW r \in [Reversals -> Nat],
         NEW h2 \in [Sales -> Nat], NEW s \in Sales, h[s] = 0,
         \A q \in Sales \ {s} : h2[q] = h[q]
  PROVE  Backing(h2, r, SellerOf[s]) = Backing(h, r, SellerOf[s]) + h2[s]
<1> DEFINE f == [q \in Sales |-> h[q] + ReversedOf(r, q)]
           g == [q \in Sales |-> h2[q] + ReversedOf(r, q)]
           S == SalesOf(SellerOf[s])
<1>1. \A q \in Sales : ReversedOf(r, q) \in Nat
  BY ReversedNat
<1>2. /\ IsFiniteSet(S) /\ s \in S /\ g[s] \in Int
      /\ \A q \in S : f[q] \in Int
      /\ \A q \in S \ {s} : g[q] = f[q]
  BY <1>1, FS_Subset, TradeAssumption DEF SalesOf
<1>3. g[s] - f[s] = h2[s] /\ f[s] \in Int /\ h2[s] \in Int
  BY <1>1
<1>4. Backing(h, r, SellerOf[s]) = SumFunctionOnSet(f, S)
      /\ Backing(h2, r, SellerOf[s]) = SumFunctionOnSet(g, S)
  BY DEF Backing
<1> HIDE DEF f, g, S
<1>5. SumFunctionOnSet(g, S) = SumFunctionOnSet(f, S) + g[s] - f[s]
  BY <1>2, SumMoves
<1>6. SumFunctionOnSet(f, S) \in Int
  BY <1>2, SumInt
<1>7. QED
  BY <1>2, <1>3, <1>4, <1>5, <1>6

\* What a release frees of a Cell's holds no longer stands behind its debt.
LEMMA BackingReleased ==
  ASSUME TypeOK, NEW now, NEW c, NEW h2 \in [Sales -> Nat],
         \A s \in Sales : h2[s] = IF s \in Due(now) THEN 0 ELSE held[s]
  PROVE  Backing(held, reversal, c) = Backing(h2, reversal, c) + Released(c, now)
<1> DEFINE due == [s \in Sales |-> IF s \in Due(now) THEN held[s] ELSE 0]
           f == [s \in Sales |-> held[s] + ReversedOf(reversal, s)]
           g == [s \in Sales |-> h2[s] + ReversedOf(reversal, s)]
           S == SalesOf(c)
           D == {s \in Due(now) : SellerOf[s] = c}
<1>1. \A s \in Sales : held[s] \in Nat /\ ReversedOf(reversal, s) \in Nat
  BY ReversedNat DEF TypeOK
<1>2. IsFiniteSet(S) /\ D \subseteq S /\ S \subseteq Sales
  BY ReleasedIs, FS_Subset, TradeAssumption DEF SalesOf
<1>3. \A s \in S : held[s] \in Int /\ due[s] = IF s \in D THEN held[s] ELSE 0
  BY <1>1 DEF SalesOf
<1>4. \A s \in S : g[s] \in Int /\ due[s] \in Int /\ f[s] = g[s] + due[s]
  BY <1>1, <1>2
<1>5. /\ Backing(held, reversal, c) = SumFunctionOnSet(f, S)
      /\ Backing(h2, reversal, c) = SumFunctionOnSet(g, S)
      /\ Released(c, now) = SumFunctionOnSet(held, D)
  BY DEF Backing, Released
<1> HIDE DEF due, f, g, S, D
<1>6. SumFunctionOnSet(f, S) = SumFunctionOnSet(g, S) + SumFunctionOnSet(due, S)
  BY <1>2, <1>4, SumAdds
<1>7. SumFunctionOnSet(held, D) = SumFunctionOnSet(due, S)
  BY <1>2, <1>3, SumWithin
<1>8. QED
  BY <1>5, <1>6, <1>7

\* No step leaves a debt without its backing.
LEMMA DebtStep ==
  ASSUME TypeOK, SalesKept, DebtIsBacked, [Next]_vars
  PROVE  DebtIsBacked'
<1> USE TradeAssumption
<1>1. /\ held \in [Sales -> Nat] /\ held' \in [Sales -> Nat]
      /\ reversal \in [Reversals -> Nat] /\ reversal' \in [Reversals -> Nat]
      /\ owed \in [Cells -> Nat] /\ owed' \in [Cells -> Nat]
  BY TypeStep DEF TypeOK
<1>2. \A c \in Cells : /\ Backing(held, reversal, c) \in Nat
                       /\ Backing(held', reversal', c) \in Nat
                       /\ owed[c] \in Nat /\ owed[c] <= Backing(held, reversal, c)
  BY <1>1, BackingNat, DebtIs
<1>3. SUFFICES \A c \in Cells : owed'[c] <= Backing(held', reversal', c)
  BY DEF DebtIsBacked, Backing, Reversed, ReversedOf
<1>4. ASSUME UNCHANGED <<held, reversal, owed>>
      PROVE  \A c \in Cells : owed'[c] <= Backing(held', reversal', c)
  BY <1>2, <1>4
<1>5. CASE cmd_record_revenue
  <2>1. PICK s \in Sales : RecordRevenue(s)
    BY <1>5 DEF cmd_record_revenue
  <2> DEFINE c0 == SellerOf[s]
  <2>2. reversal' = reversal /\ held[s] = 0 /\ c0 \in Cells
    BY <2>1 DEF RecordRevenue, SalesKept, SaleKept
  <2>3. held'[s] = HoldOn(s) /\ \A q \in Sales \ {s} : held'[q] = held[q]
    BY <1>1, <2>1 DEF RecordRevenue
  <2>4. /\ owed'[c0] = owed[c0] + AdvanceOn(s)
        /\ \A c \in Cells \ {c0} : owed'[c] = owed[c]
    BY <1>1, <2>1 DEF RecordRevenue
  <2>5. AdvanceOn(s) \in Nat /\ HoldOn(s) \in Nat /\ AdvanceOn(s) <= HoldOn(s)
    BY AdvanceBounded, HoldOnNat
  <2>6. owed'[c0] <= Backing(held', reversal', c0)
    <3>1. Backing(held', reversal, c0) = Backing(held, reversal, c0) + held'[s]
      BY <1>1, <2>2, <2>3, BackingAdds
    <3> HIDE DEF c0
    <3>2. QED
      BY <1>2, <2>2, <2>3, <2>4, <2>5, <3>1
  <2>7. ASSUME NEW c \in Cells \ {c0} PROVE owed'[c] <= Backing(held', reversal', c)
    <3>1. \A q \in Sales : /\ ReversedOf(reversal, q) \in Nat
                           /\ held[q] \in Nat /\ held'[q] \in Nat /\ held[q] <= held'[q]
      BY <1>1, <2>2, <2>3, ReversedNat
    <3>2. \A q \in Sales : held[q] + ReversedOf(reversal, q) <=
                             held'[q] + ReversedOf(reversal', q)
      BY <2>2, <3>1
    <3>3. Backing(held, reversal, c) <= Backing(held', reversal', c)
      BY <1>1, <3>2, BackingGrows
    <3> HIDE DEF c0
    <3>4. QED
      BY <1>2, <2>4, <3>3
  <2>8. QED
    BY <2>6, <2>7
<1>6. CASE cmd_record_refund
  <2>1. PICK v \in Reversals, amount \in Amounts : RecordReversal(v, amount)
    BY <1>6 DEF cmd_record_refund
  <2> DEFINE s0 == SaleOf[v]
  <2>2. owed' = owed /\ s0 \in Sales /\ amount \in Nat
    BY <2>1 DEF RecordReversal
  <2>3. /\ reversal[v] = 0 /\ reversal'[v] = amount
        /\ \A w \in Reversals \ {v} : reversal'[w] = reversal[w]
    BY <1>1, <2>1 DEF RecordReversal, PostReversal
  <2>4. /\ ReversedOf(reversal', s0) = ReversedOf(reversal, s0) + amount
        /\ \A q : q # s0 => ReversedOf(reversal', q) = ReversedOf(reversal, q)
    BY <1>1, <2>2, <2>3, ReversedMoves
  <2>5. /\ held'[s0] = held[s0] - FreedFor(s0, amount)
        /\ \A q \in Sales \ {s0} : held'[q] = held[q]
    BY <1>1, <2>1 DEF RecordReversal
  <2>6. \A q \in Sales : held[q] \in Nat /\ ReversedOf(reversal, q) \in Nat
    BY <1>1, ReversedNat
  <2> HIDE DEF s0
  <2>7. FreedFor(s0, amount) \in Nat /\ FreedFor(s0, amount) <= amount
    BY <2>2, <2>6 DEF FreedFor, Least
  <2>8. ASSUME NEW q \in Sales
        PROVE  held[q] + ReversedOf(reversal, q) <= held'[q] + ReversedOf(reversal', q)
    <3>1. CASE q = s0
      BY <2>2, <2>4, <2>5, <2>6, <2>7, <3>1
    <3>2. CASE q # s0
      BY <2>4, <2>5, <2>6, <3>2
    <3>3. QED
      BY <3>1, <3>2
  <2>9. \A c \in Cells : Backing(held, reversal, c) <= Backing(held', reversal', c)
    BY <1>1, <2>8, BackingGrows
  <2>10. QED
    BY <1>2, <2>2, <2>9
<1>7. CASE cmd_release_reserves
  <2>1. PICK now \in 0 .. clock : ReleaseDue(now)
    BY <1>7 DEF cmd_release_reserves
  <2>2. reversal' = reversal /\ \A c \in Cells : owed'[c] = owed[c] - Repaid(c, now)
    BY <2>1 DEF ReleaseDue
  <2>3. \A c : Released(c, now) \in Nat
    BY ReleasedIs
  <2>4. \A c : Backing(held, reversal, c) = Backing(held', reversal, c) + Released(c, now)
    <3>1. \A s \in Sales : held'[s] = IF s \in Due(now) THEN 0 ELSE held[s]
      BY <2>1 DEF ReleaseDue
    <3>2. QED
      BY <1>1, <3>1, BackingReleased
  <2>5. \A c \in Cells : Repaid(c, now) = IF owed[c] < Released(c, now) THEN owed[c]
                                          ELSE Released(c, now)
    BY DEF Repaid, Least
  <2>6. QED
    BY <1>2, <2>2, <2>3, <2>4, <2>5
<1>8. CASE cmd_set_reserve_policy \/ cmd_set_advance_policy \/ cmd_record_fee
  BY <1>4, <1>8 DEF cmd_set_reserve_policy, DeclareReservePolicy, cmd_set_advance_policy,
                    DeclareAdvancePolicy, cmd_record_fee, RecordPaymentFee, books
<1>9. CASE \E c \in Cells, amount \in Amounts : Spend(c, amount)
  BY <1>4, <1>9 DEF Spend
<1>10. CASE \E c \in Mortal : KillCell(c) \/ ReclaimEstate(c) \/ QuarantineCell(c)
  BY <1>4, <1>10 DEF KillCell, ReclaimEstate, EmptyEstate, QuarantineCell, books
<1>11. CASE Tick \/ UNCHANGED vars
  BY <1>4, <1>11 DEF Tick, vars, books
<1>12. QED
  BY <1>5, <1>6, <1>7, <1>8, <1>9, <1>10, <1>11 DEF Next
-----------------------------------------------------------------------------
(* The profit that is reported is what is left. *)

\* A total is a sum over the table it is the total of.
LEMMA TotalIs ==
  ASSUME NEW S, IsFiniteSet(S), NEW f \in [S -> Int]
  PROVE  Total(f) = SumFunctionOnSet(f, S) /\ Total(f) \in Int
<1>1. Total(f) = SumFunctionOnSet(f, S)
  BY DEF Total, SumFunction
<1>2. QED
  BY <1>1, SumInt

\* A total moves by what its one changed part does.
LEMMA TotalMoves ==
  ASSUME NEW S, IsFiniteSet(S), NEW f \in [S -> Int], NEW g \in [S -> Int], NEW x \in S,
         \A y \in S \ {x} : g[y] = f[y]
  PROVE  Total(g) = Total(f) + g[x] - f[x]
<1>1. SumFunctionOnSet(g, S) = SumFunctionOnSet(f, S) + g[x] - f[x]
  BY SumMoves
<1>2. QED
  BY <1>1, TotalIs

\* The amounts of the sales that were posted.
Gross == SumFunctionOnSet(AmountOf, {s \in Sales : sale[s].posted})

\* Every total of the books is an integer.
LEMMA TotalsInt ==
  ASSUME TypeOK
  PROVE  /\ Total(cash) \in Int /\ Total(held) \in Int /\ Total(owed) \in Int
         /\ Total(reversal) \in Int /\ Total(fee) \in Int /\ Total(Funding) \in Int
         /\ Gross \in Int
<1>1. /\ cash \in [Cells -> Int] /\ held \in [Sales -> Int] /\ owed \in [Cells -> Int]
      /\ reversal \in [Reversals -> Int] /\ fee \in [Fees -> Int]
      /\ Funding \in [Cells -> Int]
  BY TradeAssumption DEF TypeOK
<1>2. Gross \in Int
  <2> DEFINE P == {s \in Sales : sale[s].posted}
  <2>1. IsFiniteSet(P) /\ \A s \in P : AmountOf[s] \in Int
    BY FS_Subset, TradeAssumption
  <2> HIDE DEF P
  <2>2. SumFunctionOnSet(AmountOf, P) \in Int
    BY <2>1, SumInt
  <2>3. QED
    BY <2>2 DEF P, Gross
<1>3. QED
  BY <1>1, <1>2, TotalIs, TradeAssumption

\* The books balance, term by term.
InBalance ==
  Total(cash) + Total(held) + estate - Total(owed) =
    Total(Funding) + (Gross - Total(reversal) - Total(fee) - spent)

\* The property is that the books balance.
LEMMA ProfitIs ==
  ProfitIsWhatIsLeft <=> InBalance /\ \A s \in Sales : Reversed(s) <= AmountOf[s]
  BY DEF ProfitIsWhatIsLeft, InBalance, NetProfit, Gross

\* A sale adds its amount to the gross.
LEMMA GrossMoves ==
  ASSUME TypeOK, NEW s \in Sales, ~sale[s].posted, sale'[s].posted,
         \A q \in Sales \ {s} : sale'[q] = sale[q]
  PROVE  Gross' = Gross + AmountOf[s]
<1> DEFINE P == {q \in Sales : sale[q].posted}
           Q == {q \in Sales : sale'[q].posted}
<1>1. /\ IsFiniteSet(Q) /\ s \in Q /\ Q \ {s} = P
      /\ \A q \in Q : AmountOf[q] \in Int
  BY FS_Subset, TradeAssumption
<1>2. Gross = SumFunctionOnSet(AmountOf, P) /\ Gross' = SumFunctionOnSet(AmountOf, Q)
  BY DEF Gross
<1>3. Gross \in Int /\ AmountOf[s] \in Int
  BY TotalsInt, TradeAssumption
<1> HIDE DEF P, Q
<1>4. SumFunctionOnSet(AmountOf, Q) = AmountOf[s] + SumFunctionOnSet(AmountOf, Q \ {s})
  BY <1>1, SumTakesOut
<1>5. Gross' = AmountOf[s] + Gross
  BY <1>1, <1>2, <1>4
<1>6. QED
  BY <1>3, <1>5

\* A release moves holds to the Cells they were held for, who pay down what
\* they owe with part of it: nothing is gained or lost.
LEMMA ReleaseBalances ==
  ASSUME TypeOK, TypeOK', NEW now \in Nat, ReleaseDue(now)
  PROVE  Total(cash') + Total(held') - Total(owed') =
           Total(cash) + Total(held) - Total(owed)
<1> DEFINE rel == [c \in Cells |-> Released(c, now)]
           rep == [c \in Cells |-> Repaid(c, now)]
           mid == [c \in Cells |-> cash[c] + Released(c, now)]
           due == [s \in Sales |-> IF s \in Due(now) THEN held[s] ELSE 0]
           D   == Due(now)
           own == [c \in Cells |-> {s \in Due(now) : SellerOf[s] = c}]
<1>1. IsFiniteSet(Cells) /\ IsFiniteSet(Sales) /\ IsFiniteSet(D) /\ D \subseteq Sales
  BY ReleasedIs, TradeAssumption
<1>2. /\ cash \in [Cells -> Int] /\ held \in [Sales -> Nat] /\ owed \in [Cells -> Nat]
      /\ cash' \in [Cells -> Int] /\ held' \in [Sales -> Nat] /\ owed' \in [Cells -> Nat]
  BY DEF TypeOK
<1>3. \A c \in Cells : /\ Released(c, now) \in Nat /\ Repaid(c, now) \in Nat
                       /\ owed'[c] = owed[c] - Repaid(c, now)
                       /\ cash'[c] = cash[c] + Released(c, now) - Repaid(c, now)
  <2>1. \A c \in Cells : Released(c, now) \in Nat /\ owed[c] \in Nat
    BY <1>2, ReleasedIs
  <2>2. \A c \in Cells : Repaid(c, now) \in Nat
    BY <2>1 DEF Repaid, Least
  <2>3. QED
    BY <2>1, <2>2 DEF ReleaseDue
<1>4. \A c \in Cells : /\ cash[c] \in Int /\ rel[c] \in Int /\ mid[c] = cash[c] + rel[c]
                       /\ cash'[c] \in Int /\ rep[c] \in Int /\ mid[c] = cash'[c] + rep[c]
                       /\ owed'[c] \in Int /\ owed[c] = owed'[c] + rep[c]
  BY <1>2, <1>3
<1>5. \A s \in Sales : /\ held[s] \in Int /\ held'[s] \in Int /\ due[s] \in Int
                       /\ held[s] = held'[s] + due[s]
                       /\ due[s] = IF s \in D THEN held[s] ELSE 0
                       /\ SellerOf[s] \in Cells
  BY <1>2, TradeAssumption DEF ReleaseDue
<1>6. \A c \in Cells :
        /\ rel[c] = SumFunctionOnSet(held, own[c]) /\ own[c] \subseteq D
        /\ \A s \in D : s \in own[c] <=> SellerOf[s] = c
  BY DEF Released
<1> HIDE DEF rel, rep, mid, due, D, own
<1>7. SumFunctionOnSet(mid, Cells) = SumFunctionOnSet(cash, Cells) + SumFunctionOnSet(rel, Cells)
  BY <1>1, <1>4, SumAdds
<1>8. SumFunctionOnSet(mid, Cells) = SumFunctionOnSet(cash', Cells) + SumFunctionOnSet(rep, Cells)
  BY <1>1, <1>4, SumAdds
<1>9. SumFunctionOnSet(owed, Cells) = SumFunctionOnSet(owed', Cells) + SumFunctionOnSet(rep, Cells)
  BY <1>1, <1>4, SumAdds
<1>10. SumFunctionOnSet(held, Sales) = SumFunctionOnSet(held', Sales) + SumFunctionOnSet(due, Sales)
  BY <1>1, <1>5, SumAdds
<1>11. SumFunctionOnSet(held, D) = SumFunctionOnSet(due, Sales)
  BY <1>1, <1>5, SumWithin
<1>12. SumFunctionOnSet(rel, Cells) = SumFunctionOnSet(held, D)
  <2>1. \A s \in D : held[s] \in Int /\ SellerOf[s] \in Cells
    BY <1>1, <1>5
  <2>2. QED
    BY <1>1, <1>6, <2>1, SumByOwner
<1>13. /\ Total(cash) = SumFunctionOnSet(cash, Cells) /\ Total(cash) \in Int
       /\ Total(cash') = SumFunctionOnSet(cash', Cells) /\ Total(cash') \in Int
       /\ Total(owed) = SumFunctionOnSet(owed, Cells) /\ Total(owed) \in Int
       /\ Total(owed') = SumFunctionOnSet(owed', Cells) /\ Total(owed') \in Int
       /\ Total(held) = SumFunctionOnSet(held, Sales) /\ Total(held) \in Int
       /\ Total(held') = SumFunctionOnSet(held', Sales) /\ Total(held') \in Int
  <2>1. /\ owed \in [Cells -> Int] /\ owed' \in [Cells -> Int]
        /\ held \in [Sales -> Int] /\ held' \in [Sales -> Int]
    BY <1>2
  <2>2. QED
    BY <1>1, <1>2, <2>1, TotalIs
<1>14. SumFunctionOnSet(rel, Cells) \in Int /\ SumFunctionOnSet(rep, Cells) \in Int
  BY <1>1, <1>4, SumInt
<1>15. QED
  BY <1>7, <1>8, <1>9, <1>10, <1>11, <1>12, <1>13, <1>14

\* No step unbalances the books.
LEMMA ProfitStep ==
  ASSUME TypeOK, SalesKept, ProfitIsWhatIsLeft, [Next]_vars
  PROVE  ProfitIsWhatIsLeft'
<1> USE TradeAssumption
<1>1. TypeOK' /\ InBalance /\ \A s \in Sales : Reversed(s) <= AmountOf[s]
  BY TypeStep, ProfitIs
<1>2. /\ cash \in [Cells -> Int] /\ held \in [Sales -> Int] /\ owed \in [Cells -> Int]
      /\ reversal \in [Reversals -> Int] /\ fee \in [Fees -> Int]
      /\ estate \in Int /\ spent \in Int
  BY DEF TypeOK
<1>3. /\ cash' \in [Cells -> Int] /\ held' \in [Sales -> Int] /\ owed' \in [Cells -> Int]
      /\ reversal' \in [Reversals -> Int] /\ fee' \in [Fees -> Int]
      /\ estate' \in Int /\ spent' \in Int
  BY <1>1 DEF TypeOK
<1>4. /\ Total(cash) \in Int /\ Total(held) \in Int /\ Total(owed) \in Int
      /\ Total(reversal) \in Int /\ Total(fee) \in Int /\ Total(Funding) \in Int
      /\ Gross \in Int
  BY TotalsInt
<1>5. SUFFICES InBalance' /\ \A s \in Sales : Reversed(s)' <= AmountOf[s]
  BY DEF ProfitIsWhatIsLeft, InBalance, NetProfit, Gross
<1>6. UNCHANGED reversal => \A s \in Sales : Reversed(s)' <= AmountOf[s]
  BY <1>1 DEF Reversed
<1>7. UNCHANGED sale => Gross' = Gross
  BY DEF Gross
<1>8. ASSUME UNCHANGED <<sale, held, reversal, fee, owed, cash, spent, estate>>
      PROVE  InBalance' /\ \A s \in Sales : Reversed(s)' <= AmountOf[s]
  BY <1>1, <1>6, <1>7, <1>8 DEF InBalance
<1>9. CASE cmd_record_revenue
  <2>1. PICK s \in Sales : RecordRevenue(s)
    BY <1>9 DEF cmd_record_revenue
  <2> DEFINE c0 == SellerOf[s]
  <2>2. UNCHANGED <<reversal, fee, spent, estate>> /\ held[s] = 0 /\ c0 \in Cells
    BY <2>1 DEF RecordRevenue, SalesKept, SaleKept
  <2>3. Gross' = Gross + AmountOf[s]
    <3>1. ~sale[s].posted /\ sale'[s].posted /\ \A q \in Sales \ {s} : sale'[q] = sale[q]
      BY <2>1 DEF RecordRevenue, TypeOK
    <3>2. QED
      BY <3>1, GrossMoves
  <2>4. /\ held'[s] = HoldOn(s) /\ \A q \in Sales \ {s} : held'[q] = held[q]
        /\ owed'[c0] = owed[c0] + AdvanceOn(s)
        /\ \A c \in Cells \ {c0} : owed'[c] = owed[c]
        /\ cash'[c0] = cash[c0] + AmountOf[s] - HoldOn(s) + AdvanceOn(s)
        /\ \A c \in Cells \ {c0} : cash'[c] = cash[c]
    BY <1>2, <2>1 DEF RecordRevenue
  <2>5. /\ AdvanceOn(s) \in Int /\ HoldOn(s) \in Int /\ AmountOf[s] \in Int
        /\ owed[c0] \in Int /\ cash[c0] \in Int
    BY <1>2, AdvanceBounded, HoldOnNat
  <2> HIDE DEF c0
  <2>6. Total(held') = Total(held) + HoldOn(s)
    <3>1. Total(held') = Total(held) + held'[s] - held[s]
      BY <1>2, <1>3, <2>4, TotalMoves
    <3>2. QED
      BY <1>4, <2>2, <2>4, <2>5, <3>1
  <2>7. Total(owed') = Total(owed) + AdvanceOn(s)
    <3>1. Total(owed') = Total(owed) + owed'[c0] - owed[c0]
      BY <1>2, <1>3, <2>2, <2>4, TotalMoves
    <3>2. QED
      BY <1>4, <2>4, <2>5, <3>1
  <2>8. Total(cash') = Total(cash) + AmountOf[s] - HoldOn(s) + AdvanceOn(s)
    <3>1. Total(cash') = Total(cash) + cash'[c0] - cash[c0]
      BY <1>2, <1>3, <2>2, <2>4, TotalMoves
    <3>2. QED
      BY <1>4, <2>4, <2>5, <3>1
  <2>9. InBalance'
    BY <1>1, <1>2, <1>4, <2>2, <2>3, <2>5, <2>6, <2>7, <2>8 DEF InBalance
  <2>10. QED
    BY <1>6, <2>2, <2>9
<1>10. CASE cmd_record_refund
  <2>1. PICK v \in Reversals, amount \in Amounts : RecordReversal(v, amount)
    BY <1>10 DEF cmd_record_refund
  <2> DEFINE s0 == SaleOf[v]
             c0 == SellerOf[s0]
             freed == FreedFor(s0, amount)
  <2>2. /\ UNCHANGED <<sale, fee, owed, spent, estate>>
        /\ s0 \in Sales /\ c0 \in Cells /\ amount \in Nat
    BY <2>1 DEF RecordReversal
  <2>3. /\ reversal[v] = 0 /\ reversal'[v] = amount
        /\ \A w \in Reversals \ {v} : reversal'[w] = reversal[w]
    BY <1>2, <2>1 DEF RecordReversal, PostReversal
  <2>4. /\ held'[s0] = held[s0] - freed
        /\ \A q \in Sales \ {s0} : held'[q] = held[q]
        /\ cash'[c0] = cash[c0] + freed - amount
        /\ \A c \in Cells \ {c0} : cash'[c] = cash[c]
    BY <1>2, <2>1 DEF RecordReversal
  <2>5. freed \in Int /\ held[s0] \in Int /\ cash[c0] \in Int
    BY <1>2, <2>2 DEF FreedFor, Least
  <2>6. amount <= AmountOf[s0] - Reversed(s0)
    BY <2>1 DEF RecordReversal, Reversible
  <2> HIDE DEF c0, s0, freed
  <2>7. Total(held') = Total(held) - freed
    <3>1. Total(held') = Total(held) + held'[s0] - held[s0]
      BY <1>2, <1>3, <2>2, <2>4, TotalMoves
    <3>2. QED
      BY <1>4, <2>4, <2>5, <3>1
  <2>8. Total(cash') = Total(cash) + freed - amount
    <3>1. \A c \in Cells \ {c0} : cash'[c] = cash[c]
      BY <2>4
    <3>2. Total(cash') = Total(cash) + cash'[c0] - cash[c0]
      BY <1>2, <1>3, <2>2, <3>1, TotalMoves
    <3>3. QED
      BY <1>4, <2>2, <2>4, <2>5, <3>2
  <2>9. Total(reversal') = Total(reversal) + amount
    <3>1. Total(reversal') = Total(reversal) + reversal'[v] - reversal[v]
      BY <1>2, <1>3, <2>3, TotalMoves
    <3>2. QED
      BY <1>4, <2>2, <2>3, <3>1
  <2>10. InBalance'
    BY <1>1, <1>2, <1>4, <1>7, <2>2, <2>5, <2>7, <2>8, <2>9 DEF InBalance
  <2>11. ASSUME NEW q \in Sales PROVE Reversed(q)' <= AmountOf[q]
    <3>1. /\ ReversedOf(reversal', s0) = ReversedOf(reversal, s0) + amount
          /\ \A r : r # s0 => ReversedOf(reversal', r) = ReversedOf(reversal, r)
      <4>1. reversal \in [Reversals -> Nat] /\ reversal' \in [Reversals -> Nat]
        BY <1>1 DEF TypeOK
      <4>2. QED
        BY <2>2, <2>3, <4>1, ReversedMoves DEF s0
    <3>2. Reversed(q)' = ReversedOf(reversal', q) /\ Reversed(q) = ReversedOf(reversal, q)
      BY DEF Reversed, ReversedOf
    <3>3. CASE q = s0
      <4>1. Reversed(q)' = Reversed(q) + amount
        BY <3>1, <3>2, <3>3
      <4>2. reversal \in [Reversals -> Nat]
        BY DEF TypeOK
      <4>3. Reversed(q) \in Int /\ AmountOf[q] \in Int
        BY <3>2, <4>2, ReversedNat
      <4>4. QED
        BY <2>2, <2>6, <3>3, <4>1, <4>3
    <3>4. CASE q # s0
      BY <1>1, <3>1, <3>2, <3>4
    <3>5. QED
      BY <3>3, <3>4
  <2>12. QED
    BY <2>10, <2>11
<1>11. CASE cmd_record_fee
  <2>1. PICK f \in Fees, amount \in Amounts : RecordPaymentFee(f, amount)
    BY <1>11 DEF cmd_record_fee
  <2> DEFINE c0 == PayerOf(ChargeOf[f])
  <2>2. /\ UNCHANGED <<sale, held, reversal, owed, spent, estate>>
        /\ c0 \in Cells /\ amount \in Nat /\ fee[f] = 0
    BY <2>1, PayerIsCell DEF RecordPaymentFee
  <2>3. /\ fee'[f] = amount /\ \A g \in Fees \ {f} : fee'[g] = fee[g]
        /\ cash'[c0] = cash[c0] - amount /\ cash[c0] \in Int
        /\ \A c \in Cells \ {c0} : cash'[c] = cash[c]
    BY <1>2, <2>1, <2>2 DEF RecordPaymentFee
  <2> HIDE DEF c0
  <2>4. Total(fee') = Total(fee) + amount
    <3>1. Total(fee') = Total(fee) + fee'[f] - fee[f]
      BY <1>2, <1>3, <2>3, TotalMoves
    <3>2. QED
      BY <1>4, <2>2, <2>3, <3>1
  <2>5. Total(cash') = Total(cash) - amount
    <3>1. \A c \in Cells \ {c0} : cash'[c] = cash[c]
      BY <2>3
    <3>2. Total(cash') = Total(cash) + cash'[c0] - cash[c0]
      BY <1>2, <1>3, <2>2, <3>1, TotalMoves
    <3>3. QED
      BY <1>4, <2>2, <2>3, <3>2
  <2>6. InBalance'
    BY <1>1, <1>2, <1>4, <1>7, <2>2, <2>4, <2>5 DEF InBalance
  <2>7. QED
    BY <1>6, <2>2, <2>6
<1>12. CASE cmd_release_reserves
  <2>1. PICK now \in 0 .. clock : ReleaseDue(now)
    BY <1>12 DEF cmd_release_reserves
  <2>2. UNCHANGED <<sale, reversal, fee, spent, estate>> /\ now \in Nat
    BY <2>1 DEF ReleaseDue, TypeOK
  <2>3. Total(cash') + Total(held') - Total(owed') =
          Total(cash) + Total(held) - Total(owed)
    BY <1>1, <2>1, <2>2, ReleaseBalances
  <2>4. Total(cash') \in Int /\ Total(held') \in Int /\ Total(owed') \in Int
    BY <1>3, TotalIs
  <2>5. InBalance'
    BY <1>1, <1>2, <1>4, <1>7, <2>2, <2>3, <2>4 DEF InBalance
  <2>6. QED
    BY <1>6, <2>2, <2>5
<1>13. CASE \E c \in Cells, amount \in Amounts : Spend(c, amount)
  <2>1. PICK c \in Cells, amount \in Amounts : Spend(c, amount)
    BY <1>13
  <2>2. /\ UNCHANGED <<sale, held, reversal, fee, owed, estate>>
        /\ spent' = spent + amount /\ amount \in Nat
        /\ cash'[c] = cash[c] - amount /\ cash[c] \in Int
        /\ \A d \in Cells \ {c} : cash'[d] = cash[d]
    BY <1>2, <2>1 DEF Spend
  <2>3. Total(cash') = Total(cash) - amount
    <3>1. Total(cash') = Total(cash) + cash'[c] - cash[c]
      BY <1>2, <1>3, <2>2, TotalMoves
    <3>2. QED
      BY <1>4, <2>2, <3>1
  <2>4. InBalance'
    BY <1>1, <1>2, <1>4, <1>7, <2>2, <2>3 DEF InBalance
  <2>5. QED
    BY <1>6, <2>2, <2>4
<1>14. CASE \E c \in Mortal : KillCell(c) \/ ReclaimEstate(c) \/ QuarantineCell(c)
  <2>1. PICK c \in Cells : KillCell(c) \/ ReclaimEstate(c) \/ QuarantineCell(c)
    BY <1>14
  <2>2. CASE EmptyEstate(c)
    <3> DEFINE left == IF cash[c] > 0 THEN cash[c] ELSE 0
    <3>1. /\ UNCHANGED <<sale, held, reversal, fee, owed, spent>>
          /\ estate' = estate + left /\ left \in Int
          /\ cash'[c] = cash[c] - left /\ cash[c] \in Int
          /\ \A d \in Cells \ {c} : cash'[d] = cash[d]
      BY <1>2, <2>2 DEF EmptyEstate
    <3> HIDE DEF left
    <3>2. Total(cash') = Total(cash) - left
      <4>1. Total(cash') = Total(cash) + cash'[c] - cash[c]
        BY <1>2, <1>3, <3>1, TotalMoves
      <4>2. QED
        BY <1>4, <3>1, <4>1
    <3>3. InBalance'
      BY <1>1, <1>2, <1>4, <1>7, <3>1, <3>2 DEF InBalance
    <3>4. QED
      BY <1>6, <3>1, <3>3
  <2>3. CASE QuarantineCell(c)
    BY <1>8, <2>3 DEF QuarantineCell, books
  <2>4. QED
    BY <2>1, <2>2, <2>3 DEF KillCell, ReclaimEstate
<1>15. CASE cmd_set_reserve_policy \/ cmd_set_advance_policy
  BY <1>8, <1>15 DEF cmd_set_reserve_policy, DeclareReservePolicy, cmd_set_advance_policy,
                     DeclareAdvancePolicy, books
<1>16. CASE Tick \/ UNCHANGED vars
  BY <1>8, <1>16 DEF Tick, vars, books
<1>17. QED
  BY <1>9, <1>10, <1>11, <1>12, <1>13, <1>14, <1>15, <1>16 DEF Next

-----------------------------------------------------------------------------
(* The invariant. *)

TradeInvariant ==
  /\ TypeOK
  /\ SalesKept
  /\ ReserveCoversRefunds
  /\ DebtIsBacked
  /\ ProfitIsWhatIsLeft

\* A colony that sold nothing holds, owes and reports nothing.
LEMMA TradeInit == Init => TradeInvariant
<1> USE TradeAssumption
<1> SUFFICES ASSUME Init PROVE TradeInvariant
  OBVIOUS
<1>1. TypeOK
  <2>1. policies \in Seq([share : 1 .. Whole, window : Nat \ {0}, at : Nat])
    BY EmptySeq DEF Init
  <2>2. \A s \in Sales : NotSold \in [posted : BOOLEAN, at : Nat, hold : Nat, until : Nat]
    BY DEF NotSold
  <2>3. sale \in [Sales -> [posted : BOOLEAN, at : Nat, hold : Nat, until : Nat]]
    BY <2>2 DEF Init
  <2>4. cash \in [Cells -> Int] /\ cell \in [Cells -> CellStatuses]
    BY DEF Init, CellStatuses
  <2>5. lending \in (0 .. Whole) \X Nat
    BY DEF Init
  <2>6. QED
    BY <2>1, <2>3, <2>4, <2>5 DEF Init, TypeOK
<1>2. SalesKept
  <2>1. DOMAIN policies = {}
    BY DEF Init
  <2>2. QED
    BY <2>1 DEF Init, SalesKept, SaleKept, NotSold
<1>3. \A s \in Sales : Reversed(s) = 0
  <2>1. \A s \in Sales : ReversedOf(reversal, s) = 0
    BY ReversedNone DEF Init
  <2>2. QED
    BY <2>1 DEF Reversed, ReversedOf
<1>4. ReserveCoversRefunds
  BY <1>3 DEF ReserveCoversRefunds, Init, NotSold, Least
<1>5. DebtIsBacked
  <2>1. held \in [Sales -> Nat] /\ reversal \in [Reversals -> Nat]
    BY <1>1 DEF TypeOK
  <2>2. \A c \in Cells : owed[c] = 0 /\ Backing(held, reversal, c) \in Nat
    BY <2>1, BackingNat DEF Init
  <2>3. QED
    BY <2>2, DebtIs
<1>6. ProfitIsWhatIsLeft
  <2>1. Total(held) = 0 /\ Total(owed) = 0 /\ Total(reversal) = 0 /\ Total(fee) = 0
    <3>1. ASSUME NEW S, IsFiniteSet(S), NEW f, f = [x \in S |-> 0] PROVE Total(f) = 0
      <4>1. f \in [S -> Int] /\ \A x \in S : f[x] = 0
        BY <3>1
      <4>2. SumFunctionOnSet(f, S) = 0
        BY <3>1, <4>1, SumZero
      <4>3. QED
        BY <3>1, <4>1, <4>2, TotalIs
    <3>2. QED
      BY <3>1 DEF Init
  <2>2. Gross = 0
    <3>1. {s \in Sales : sale[s].posted} = {}
      BY DEF Init, NotSold
    <3>2. QED
      BY <3>1, SumEmpty DEF Gross
  <2>3. Total(cash) = Total(Funding) /\ Total(Funding) \in Int /\ estate = 0 /\ spent = 0
    BY <1>1, TotalsInt DEF Init
  <2>4. InBalance
    BY <2>1, <2>2, <2>3 DEF InBalance
  <2>5. QED
    BY <1>3, <2>4, ProfitIs
<1>7. QED
  BY <1>1, <1>2, <1>4, <1>5, <1>6 DEF TradeInvariant

(***************************************************************************)
(* The inductive invariant of sales and what may be given back of them:    *)
(* every verb of revenue.py, liability.py, advances.py and payment_fees.py *)
(* keeps it, whatever the policies and however old a release's clock is.   *)
(***************************************************************************)
THEOREM TradeHolds == Spec => []TradeInvariant
<1>1. TradeInvariant /\ [Next]_vars => TradeInvariant'
  BY TypeStep, KeptStep, CoverStep, DebtStep, ProfitStep DEF TradeInvariant
<1>2. QED
  BY TradeInit, <1>1, PTL DEF Spec

(***************************************************************************)
(* No hold and no debt goes below zero: a reversal frees no more than is   *)
(* held and a repayment takes no more than is owed (liability.py:330,      *)
(* advances.py:212).                                                       *)
(***************************************************************************)
THEOREM TypeCorrect == Spec => []TypeOK
<1>1. TradeInvariant => TypeOK
  BY DEF TradeInvariant
<1>2. QED
  BY TradeHolds, <1>1, PTL

(***************************************************************************)
(* Until its printed date a sale's hold is what was set aside less what    *)
(* was given back: the date liability.held_until derives again at each     *)
(* release is the printed one, for any policies declared since.            *)
(***************************************************************************)
THEOREM ReserveAlwaysCovers == Spec => []ReserveCoversRefunds
<1>1. TradeInvariant => ReserveCoversRefunds
  BY DEF TradeInvariant
<1>2. QED
  BY TradeHolds, <1>1, PTL

(***************************************************************************)
(* What a Cell owes is never more than what its sales still hold and what  *)
(* was refunded of them, for any advance policies (advances.py:173).       *)
(***************************************************************************)
THEOREM DebtAlwaysBacked == Spec => []DebtIsBacked
<1>1. TradeInvariant => DebtIsBacked
  BY DEF TradeInvariant
<1>2. QED
  BY TradeHolds, <1>1, PTL

(***************************************************************************)
(* The reported profit is what the colony has more than it started with,   *)
(* and no sale gives back more than it brought, for any history            *)
(* (profit.py:215, report).                                                *)
(***************************************************************************)
THEOREM ProfitAlwaysLeft == Spec => []ProfitIsWhatIsLeft
<1>1. TradeInvariant => ProfitIsWhatIsLeft
  BY DEF TradeInvariant
<1>2. QED
  BY TradeHolds, <1>1, PTL
=============================================================================
