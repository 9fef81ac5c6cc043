----------------------------- MODULE GrowthProofs -----------------------------
(***************************************************************************)
(* How the colony grows, for any set of Cells, grants, forecasts and       *)
(* limits: capital moves up the ladder within what the pool was given and  *)
(* on evidence that came first (Promotions), Cells are born within their   *)
(* caps and die for a reason (Population), and in a simulated run the      *)
(* slots go round (FlightSimulator).                                       *)
(***************************************************************************)
EXTENDS Promotions, SumTheorems, SequenceTheorems

-----------------------------------------------------------------------------
(* Promotions.  The type invariant, a table at a time. *)

TablesTyped ==
  /\ clock \in Nat
  /\ cell \in [Cells -> {"alive", "dormant", "quarantined", "dead"}]
  /\ flags \subseteq Autonomy
  /\ expires \in [Grants -> Nat]
  /\ experiment \in [Cells -> Nat]

CapitalTyped ==
  /\ funded \in Nat /\ pool \in Nat
  /\ grant \in [Grants -> SUBSET {"granted", "consumed", "expired"}]
  /\ promotions \in Seq(Promotion)

Forecast == [made : Nat, resolved : Nat, score : Nat]
ForecastsTyped == forecast \in [Forecasts -> Forecast]

Process ==
  [kind : {"idle", "operator", "sweep", "starter"}, now : Nat,
   grant : Grants \cup {0}, rung : {0, Live, Pilot}]
ProcessesTyped == proc \in [Allocators -> Process]

\* Together they are the type invariant, before a step and after it,
LEMMA CapitalTypeParts ==
  /\ TypeOK <=> TablesTyped /\ CapitalTyped /\ ForecastsTyped /\ ProcessesTyped
  /\ TypeOK' <=> TablesTyped' /\ CapitalTyped' /\ ForecastsTyped' /\ ProcessesTyped'
  BY DEF TypeOK, TablesTyped, CapitalTyped, ForecastsTyped, ProcessesTyped,
         Forecast, Process

\* and what a step leaves alone it leaves typed.
LEMMA CapitalUnchangedTyped ==
  /\ TablesTyped /\ UNCHANGED <<clock, colony, expires, experiment>> => TablesTyped'
  /\ CapitalTyped /\ UNCHANGED <<funded, pool, grant, promotions>> => CapitalTyped'
  /\ ForecastsTyped /\ UNCHANGED forecast => ForecastsTyped'
  /\ ProcessesTyped /\ UNCHANGED proc => ProcessesTyped'
  BY DEF TablesTyped, CapitalTyped, ForecastsTyped, ProcessesTyped, colony

\* The rows of the promotions table.
LEMMA RowsTyped ==
  ASSUME CapitalTyped
  PROVE  /\ Len(promotions) \in Nat /\ DOMAIN promotions = 1 .. Len(promotions)
         /\ \A i \in DOMAIN promotions : promotions[i] \in Promotion
  BY DEF CapitalTyped

\* A Brier score is a square.
LEMMA BrierTyped ==
  ASSUME NEW f \in Forecasts, NEW occurred PROVE BrierScore(f, occurred) \in Nat
<1>1. ChanceOf[f] \in 1 .. 3
  BY PromotionsAssumption
<1>2. ChanceOf[f] = 1 \/ ChanceOf[f] = 2 \/ ChanceOf[f] = 3
  BY <1>1
<1>3. QED
  BY <1>2 DEF BrierScore

\* What is read of a set of forecasts is a number of them and a total.
LEMMA ScoresTyped ==
  ASSUME ForecastsTyped, NEW fs \in SUBSET Forecasts
  PROVE  Scores(fs) \in Score
<1> DEFINE done == {f \in fs : forecast[f].resolved > 0}
           score == [f \in Forecasts |-> forecast[f].score]
<1>1. IsFiniteSet(done)
  BY PromotionsAssumption, FS_Subset
<1>2. \A f \in done : score[f] \in Nat
  BY DEF ForecastsTyped, Forecast
<1>3. Scores(fs) = [total |-> SumFunctionOnSet(score, done),
                    count |-> Cardinality(done)]
  BY DEF Scores
<1> HIDE DEF done, score
<1>4. SumFunctionOnSet(score, done) \in Nat
  BY <1>1, <1>2, SumInt
<1>5. QED
  BY <1>1, <1>3, <1>4, FS_CardinalityType DEF Score

-----------------------------------------------------------------------------
(* The inductive invariant. *)

\* No process has read a time to come, and none is written.
ReadByNow ==
  /\ \A a \in Allocators : proc[a].now <= clock
  /\ \A i \in DOMAIN promotions : promotions[i].at <= clock

\* A process about to spend a grant has one.
GrantsAreNamed ==
  \A a \in Allocators :
    proc[a].rung # 0 \/ proc[a].kind = "starter" => proc[a].grant \in Grants

\* A grant that was paid is spent.
PaidIsConsumed ==
  \A i \in DOMAIN promotions : "consumed" \in grant[promotions[i].grant]

CapitalInv ==
  /\ TypeOK
  /\ ReadByNow
  /\ GrantsAreNamed
  /\ PaidIsConsumed
  /\ PoolIsACeiling
  /\ PilotsAreEarned

\* The forecasts of c that were registered by a time.
MadeBy(c, instant) ==
  {f \in Forecasts : OwnerOf[f] = c /\ forecast[f].made \in 1 .. instant}

\* The pilot of row i is earned: PilotsAreEarned, of one row.
Earned(i) ==
  LET j == promotions[i].supersedes
      e == promotions[i].evidence
  IN /\ j \in 1 .. i - 1
     /\ promotions[j].rung = Live /\ promotions[j].cell = promotions[i].cell
     /\ \A k \in DOMAIN promotions : k # i => promotions[k].supersedes # j
     /\ e.count \in MinResolved .. Cardinality(
          MadeBy(promotions[i].cell, promotions[j].at))
     /\ e.total < Uninformative * e.count

\* Row by row.
LEMMA PilotsRowByRow ==
  /\ PilotsAreEarned <=>
       \A i \in DOMAIN promotions : promotions[i].rung = Pilot => Earned(i)
  /\ PilotsAreEarned' <=>
       \A i \in DOMAIN promotions' : promotions'[i].rung = Pilot => Earned(i)'
  BY DEF PilotsAreEarned, Earned, MadeBy

\* No promotion is made, and the forecasts that were there when one was made
\* are still those that were.
LEMMA PilotsStayEarned ==
  ASSUME TypeOK, PilotsAreEarned, UNCHANGED promotions,
         \A c \in Cells, i \in DOMAIN promotions :
           MadeBy(c, promotions[i].at)' = MadeBy(c, promotions[i].at)
  PROVE  PilotsAreEarned'
<1>1. CapitalTyped
  BY CapitalTypeParts
<1>2. ASSUME NEW i \in DOMAIN promotions, promotions[i].rung = Pilot
      PROVE  Earned(i)'
  <2> DEFINE j == promotions[i].supersedes
  <2>1. Earned(i)
    BY <1>2, PilotsRowByRow
  <2>2. j \in DOMAIN promotions /\ promotions[i].cell \in Cells
    BY <1>1, <2>1, RowsTyped DEF Earned, Promotion
  <2>3. MadeBy(promotions[i].cell, promotions[j].at)'
          = MadeBy(promotions[i].cell, promotions[j].at)
    BY <2>2
  <2>4. QED
    BY <2>1, <2>3 DEF Earned
<1>3. QED
  BY <1>2, PilotsRowByRow

\* A step that leaves the money, the grants paid and the evidence alone keeps
\* what the invariant says of them.
LEMMA CapitalStays ==
  ASSUME CapitalInv, TypeOK', UNCHANGED <<funded, pool, promotions>>,
         \A g \in Grants : "consumed" \in grant[g] => "consumed" \in grant'[g],
         clock' \in Nat, clock <= clock',
         \A c \in Cells, i \in DOMAIN promotions :
           MadeBy(c, promotions[i].at)' = MadeBy(c, promotions[i].at),
         \A a \in Allocators : proc'[a].now <= clock',
         GrantsAreNamed'
  PROVE  CapitalInv'
<1>1. CapitalTyped /\ TablesTyped /\ TypeOK
  BY CapitalTypeParts DEF CapitalInv
<1>2. ReadByNow'
  BY <1>1, RowsTyped DEF CapitalInv, ReadByNow, Promotion, TablesTyped
<1>3. PaidIsConsumed'
  BY <1>1, RowsTyped DEF CapitalInv, PaidIsConsumed, Promotion
<1>4. PoolIsACeiling'
  BY DEF CapitalInv, PoolIsACeiling
<1>5. PilotsAreEarned'
  BY <1>1, PilotsStayEarned DEF CapitalInv
<1>6. QED
  BY <1>2, <1>3, <1>4, <1>5 DEF CapitalInv

-----------------------------------------------------------------------------
(* An allocation. *)

\* What a pilot may stand on: a live experiment of its Cell on which nothing
\* stands, and which its forecasts bear out.
LEMMA PredecessorMeans ==
  ASSUME TypeOK, NEW c \in Cells, NEW rung \in {Live, Pilot},
         NEW i \in Predecessors(c, rung)
  PROVE  /\ i \in Nat
         /\ rung = Pilot =>
              /\ i \in DOMAIN promotions /\ i \notin Superseded
              /\ promotions[i].rung = Live /\ promotions[i].cell = c
              /\ Scores(FundedOn(i)).count >= MinResolved
              /\ Scores(FundedOn(i)).total < Uninformative * Scores(FundedOn(i)).count
<1>1. CASE rung = Live
  BY <1>1 DEF Predecessors, Live, Pilot
<1>2. CASE rung = Pilot
  <2>1. i \in LatestUnexpanded(c) /\ Supports(i)
    BY <1>2 DEF Predecessors, Live, Pilot
  <2>2. /\ i \in DOMAIN promotions /\ i \notin Superseded
        /\ promotions[i].rung = Live /\ promotions[i].cell = c
    BY <2>1 DEF LatestUnexpanded, Unexpanded
  <2>3. i \in Nat
    BY <2>2, CapitalTypeParts, RowsTyped
  <2>4. QED
    BY <2>1, <2>2, <2>3 DEF Supports
<1>3. QED
  BY <1>1, <1>2

\* The evidence for a promotion is no more than the forecasts registered when
\* the one it expands was funded.
LEMMA EvidenceCameFirst ==
  ASSUME TypeOK, NEW i \in DOMAIN promotions
  PROVE  Scores(FundedOn(i)).count
           <= Cardinality(MadeBy(promotions[i].cell, promotions[i].at))
<1> DEFINE judged == {f \in FundedOn(i) : forecast[f].resolved > 0}
           made == MadeBy(promotions[i].cell, promotions[i].at)
<1>1. Scores(FundedOn(i)).count = Cardinality(judged)
  BY DEF Scores
<1>2. judged \subseteq made
  BY DEF FundedOn, OpenAt, MadeBy
<1>3. IsFiniteSet(made)
  BY PromotionsAssumption, FS_Subset DEF MadeBy
<1> HIDE DEF judged, made
<1>4. Cardinality(judged) <= Cardinality(made)
  BY <1>2, <1>3, FS_Subset
<1>5. QED
  BY <1>1, <1>4 DEF made

\* What an allocation writes, and what it was allowed to.
LEMMA AllocateMeans ==
  ASSUME TypeOK, GrantsAreNamed, NEW a \in Allocators, Allocate(a)
  PROVE  \E g \in Grants, row \in Promotion, i \in Nat :
           /\ row.grant = g /\ row.cell = CellOf[g] /\ row.at = proc[a].now
           /\ row.rung = proc[a].rung /\ row.supersedes = i
           /\ row.auto = (proc[a].kind = "sweep")
           /\ row.rung = Pilot =>
                /\ i \in Predecessors(row.cell, Pilot)
                /\ row.evidence = Scores(FundedOn(i))
           /\ promotions' = Append(promotions, row)
           /\ IsOpen(g, proc[a].now) /\ MayReceive(a, CellOf[g]) /\ PoolCovers(g)
           /\ pool' = pool - AmountOf[g]
           /\ grant' = [grant EXCEPT ![g] = @ \cup {"consumed"}]
           /\ proc' = [proc EXCEPT ![a].rung = 0]
           /\ UNCHANGED <<clock, colony, funded, expires, experiment, forecast>>
<1> DEFINE g == proc[a].grant
           c == CellOf[g]
           rung == proc[a].rung
<1>1. /\ g \in Grants /\ c \in Cells /\ rung \in {Live, Pilot}
      /\ proc[a].now \in Nat /\ ForecastsTyped
  BY PromotionsAssumption, CapitalTypeParts
  DEF Allocate, GrantsAreNamed, ProcessesTyped, Process
<1>2. PICK i \in Predecessors(c, rung) :
        promotions' = Append(promotions,
          [grant |-> g, cell |-> c, rung |-> rung, at |-> proc[a].now,
           supersedes |-> i, auto |-> proc[a].kind = "sweep",
           baseline |-> Scores({f \in Forecasts : OwnerOf[f] = c}),
           evidence |-> IF i = 0 THEN Scores({}) ELSE Scores(FundedOn(i))])
  BY DEF Allocate
<1>3. /\ i \in Nat
      /\ rung = Pilot => i \in DOMAIN promotions
  BY <1>1, PredecessorMeans
<1>4. rung = Pilot => i # 0
  BY <1>3, CapitalTypeParts, RowsTyped
<1>5. /\ Scores({f \in Forecasts : OwnerOf[f] = c}) \in Score
      /\ Scores({}) \in Score /\ Scores(FundedOn(i)) \in Score
  BY <1>1, ScoresTyped DEF FundedOn, OpenAt
<1> DEFINE row ==
      [grant |-> g, cell |-> c, rung |-> rung, at |-> proc[a].now,
       supersedes |-> i, auto |-> proc[a].kind = "sweep",
       baseline |-> Scores({f \in Forecasts : OwnerOf[f] = c}),
       evidence |-> IF i = 0 THEN Scores({}) ELSE Scores(FundedOn(i))]
<1>6. row \in Promotion
  BY <1>1, <1>3, <1>5 DEF Promotion
<1>7. /\ row.grant = g /\ row.cell = c /\ row.at = proc[a].now
      /\ row.rung = rung /\ row.supersedes = i
      /\ row.auto = (proc[a].kind = "sweep")
      /\ row.evidence = IF i = 0 THEN Scores({}) ELSE Scores(FundedOn(i))
  OBVIOUS
<1>8. promotions' = Append(promotions, row)
  BY <1>2
<1>9. row.rung = Pilot =>
        i \in Predecessors(row.cell, Pilot) /\ row.evidence = Scores(FundedOn(i))
  BY <1>4, <1>7
<1> HIDE DEF row
<1>10. /\ IsOpen(g, proc[a].now) /\ MayReceive(a, c) /\ PoolCovers(g)
       /\ pool' = pool - AmountOf[g]
       /\ grant' = [grant EXCEPT ![g] = @ \cup {"consumed"}]
       /\ proc' = [proc EXCEPT ![a].rung = 0]
       /\ UNCHANGED <<clock, colony, funded, expires, experiment, forecast>>
  BY DEF Allocate
<1>11. QED
  BY <1>1, <1>3, <1>6, <1>7, <1>8, <1>9, <1>10

\* A row at the end of the table.
LEMMA RowAppended ==
  ASSUME CapitalTyped, NEW row \in Promotion, promotions' = Append(promotions, row)
  PROVE  /\ promotions' \in Seq(Promotion)
         /\ Len(promotions') = Len(promotions) + 1
         /\ DOMAIN promotions' = 1 .. Len(promotions) + 1
         /\ \A i \in 1 .. Len(promotions) : promotions'[i] = promotions[i]
         /\ promotions'[Len(promotions) + 1] = row
  BY AppendProperties, RowsTyped DEF CapitalTyped

\* What it costs is what the rows cost more.
LEMMA RowsCostMore ==
  ASSUME CapitalTyped, NEW row \in Promotion, promotions' = Append(promotions, row)
  PROVE  SumFunctionOnSet([i \in DOMAIN promotions' |-> AmountOf[promotions'[i].grant]],
                          DOMAIN promotions')
           = AmountOf[row.grant]
             + SumFunctionOnSet([i \in DOMAIN promotions |-> AmountOf[promotions[i].grant]],
                                DOMAIN promotions)
<1> DEFINE n == Len(promotions)
           before == [i \in DOMAIN promotions |-> AmountOf[promotions[i].grant]]
           after == [i \in DOMAIN promotions' |-> AmountOf[promotions'[i].grant]]
<1>1. /\ n \in Nat /\ DOMAIN promotions = 1 .. n /\ DOMAIN promotions' = 1 .. n + 1
      /\ \A i \in 1 .. n : promotions'[i] = promotions[i]
      /\ promotions'[n + 1] = row
  BY RowsTyped, RowAppended
<1>2. \A r \in Promotion : AmountOf[r.grant] \in Nat
  BY PromotionsAssumption DEF Promotion
<1>3. \A i \in 1 .. n : after[i] = before[i]
  BY <1>1
<1>4. after[n + 1] = AmountOf[row.grant]
  BY <1>1
<1>5. \A i \in 1 .. n + 1 : after[i] \in Int
  BY <1>1, <1>2, RowsTyped
<1>6. IsFiniteSet(1 .. n + 1) /\ IsFiniteSet(1 .. n)
  BY <1>1, FS_Interval
<1>7. (1 .. n + 1) \ {n + 1} = 1 .. n /\ n + 1 \in 1 .. n + 1
  BY <1>1
<1> HIDE DEF before, after, n
<1>8. SumFunctionOnSet(after, 1 .. n + 1)
        = after[n + 1] + SumFunctionOnSet(after, 1 .. n)
  <2>1. SumFunctionOnSet(after, 1 .. n + 1)
          = after[n + 1] + SumFunctionOnSet(after, (1 .. n + 1) \ {n + 1})
    BY <1>5, <1>6, <1>7, SumTakesOut
  <2>2. QED
    BY <1>7, <2>1
<1>9. SumFunctionOnSet(after, 1 .. n) = SumFunctionOnSet(before, 1 .. n)
  BY <1>3, <1>6, SumAgrees
<1>10. SumFunctionOnSet(after, 1 .. n + 1)
         = AmountOf[row.grant] + SumFunctionOnSet(before, 1 .. n)
  BY <1>4, <1>8, <1>9
<1>11. QED
  BY <1>1, <1>10 DEF before, after

\* A grant still open was never paid.
LEMMA OpenIsUnpaid ==
  ASSUME PaidIsConsumed, NEW g, NEW now, IsOpen(g, now)
  PROVE  \A i \in DOMAIN promotions : promotions[i].grant # g
  BY DEF PaidIsConsumed, IsOpen

\* An allocation pays a grant once, out of what the pool holds, and a pilot it
\* makes is earned.
LEMMA AllocateKeeps ==
  ASSUME CapitalInv, NEW a \in Allocators, Allocate(a)
  PROVE  CapitalInv'
<1>1. /\ TypeOK /\ GrantsAreNamed /\ PaidIsConsumed /\ ReadByNow /\ PoolIsACeiling
      /\ TablesTyped /\ CapitalTyped /\ ForecastsTyped /\ ProcessesTyped
  BY CapitalTypeParts DEF CapitalInv
<1>2. PICK g \in Grants, row \in Promotion, i \in Nat :
        /\ row.grant = g /\ row.cell = CellOf[g] /\ row.at = proc[a].now
        /\ row.rung = proc[a].rung /\ row.supersedes = i
        /\ row.rung = Pilot =>
             /\ i \in Predecessors(row.cell, Pilot)
             /\ row.evidence = Scores(FundedOn(i))
        /\ promotions' = Append(promotions, row)
        /\ IsOpen(g, proc[a].now) /\ PoolCovers(g)
        /\ pool' = pool - AmountOf[g]
        /\ grant' = [grant EXCEPT ![g] = @ \cup {"consumed"}]
        /\ proc' = [proc EXCEPT ![a].rung = 0]
        /\ UNCHANGED <<clock, colony, funded, expires, experiment, forecast>>
  BY <1>1, AllocateMeans
<1>3. PICK n \in Nat :
        /\ DOMAIN promotions = 1 .. n /\ DOMAIN promotions' = 1 .. n + 1
        /\ \A k \in 1 .. n : promotions'[k] = promotions[k] /\ promotions[k] \in Promotion
        /\ promotions'[n + 1] = row /\ promotions' \in Seq(Promotion)
  BY <1>1, <1>2, RowsTyped, RowAppended
<1>4. AmountOf[g] \in Nat /\ pool \in Nat /\ pool >= AmountOf[g]
  BY <1>1, <1>2, PromotionsAssumption DEF PoolCovers, CapitalTyped
<1>5. TypeOK'
  <2>1. CapitalTyped'
    BY <1>1, <1>2, <1>3, <1>4 DEF CapitalTyped
  <2>2. ProcessesTyped'
    BY <1>1, <1>2 DEF ProcessesTyped, Process
  <2>3. QED
    BY <1>1, <1>2, <2>1, <2>2, CapitalUnchangedTyped, CapitalTypeParts
<1>6. ReadByNow'
  <2>1. \A b \in Allocators : proc'[b].now = proc[b].now
    BY <1>1, <1>2 DEF ProcessesTyped, Process
  <2>2. QED
    BY <1>1, <1>2, <1>3, <2>1 DEF ReadByNow
<1>7. GrantsAreNamed'
  BY <1>1, <1>2 DEF GrantsAreNamed, ProcessesTyped, Process
<1>8. PaidIsConsumed'
  <2>1. /\ \A h \in Grants : grant[h] \subseteq grant'[h]
        /\ "consumed" \in grant'[g]
    BY <1>1, <1>2 DEF CapitalTyped
  <2>2. QED
    BY <1>1, <1>2, <1>3, <2>1 DEF PaidIsConsumed, Promotion
<1>9. PoolIsACeiling'
  <2> DEFINE before == SumFunctionOnSet(
                         [k \in DOMAIN promotions |-> AmountOf[promotions[k].grant]],
                         DOMAIN promotions)
             after == SumFunctionOnSet(
                        [k \in DOMAIN promotions' |-> AmountOf[promotions'[k].grant]],
                        DOMAIN promotions')
  <2>1. after = AmountOf[g] + before
    BY <1>1, <1>2, RowsCostMore
  <2>2. pool + before = funded /\ before \in Int
    <3>1. IsFiniteSet(DOMAIN promotions)
      BY <1>3, FS_Interval
    <3>2. \A k \in DOMAIN promotions : AmountOf[promotions[k].grant] \in Int
      BY <1>3, PromotionsAssumption DEF Promotion
    <3>3. before \in Int
      BY <3>1, <3>2, SumInt
    <3>4. QED
      BY <1>1, <3>3 DEF PoolIsACeiling
  <2> HIDE DEF before, after
  <2>3. pool' + after = funded'
    BY <1>2, <1>4, <2>1, <2>2
  <2>4. \A k \in 1 .. n : promotions[k].grant # g
    BY <1>1, <1>2, <1>3, OpenIsUnpaid
  <2>5. \A k, l \in 1 .. n + 1 :
          k # l => promotions'[k].grant # promotions'[l].grant
    <3>1. \A k, l \in 1 .. n : k # l => promotions[k].grant # promotions[l].grant
      BY <1>1, <1>3 DEF PoolIsACeiling
    <3>2. QED
      BY <1>2, <1>3, <2>4, <3>1
  <2>6. QED
    BY <1>3, <2>3, <2>5 DEF PoolIsACeiling, after
<1>10. PilotsAreEarned'
  <2>1. row.rung = Pilot =>
          /\ i \in 1 .. n /\ i \notin Superseded
          /\ promotions[i].rung = Live /\ promotions[i].cell = row.cell
          /\ row.evidence.count >= MinResolved
          /\ row.evidence.total < Uninformative * row.evidence.count
    BY <1>1, <1>2, <1>3, PredecessorMeans DEF Promotion
  <2>2. row.rung = Pilot =>
          row.evidence.count <= Cardinality(MadeBy(row.cell, promotions[i].at))
    BY <1>2, <1>3, <1>1, <2>1, EvidenceCameFirst
  <2>3. row.rung # Pilot => i = 0
    BY <1>1, <1>2 DEF Allocate, ProcessesTyped, Process, Predecessors
  <2>4. ASSUME row.rung = Pilot PROVE Earned(n + 1)'
    <3>1. /\ i \in 1 .. n + 1 - 1 /\ promotions'[i] = promotions[i]
          /\ promotions'[n + 1].supersedes = i
      BY <1>2, <1>3, <2>1, <2>4
    <3>2. \A k \in DOMAIN promotions' :
            k # n + 1 => promotions'[k].supersedes # i
      BY <1>3, <2>1, <2>4 DEF Superseded
    <3>3. /\ row.evidence.count \in Nat /\ MinResolved \in Nat
          /\ Cardinality(MadeBy(row.cell, promotions[i].at)) \in Nat
      <4>1. IsFiniteSet(MadeBy(row.cell, promotions[i].at))
        BY PromotionsAssumption, FS_Subset DEF MadeBy
      <4>2. QED
        BY <4>1, FS_CardinalityType, PromotionsAssumption DEF Promotion, Score
    <3>4. row.evidence.count \in MinResolved ..
            Cardinality(MadeBy(row.cell, promotions[i].at))
      BY <2>1, <2>2, <2>4, <3>3
    <3>5. MadeBy(promotions[n + 1].cell, promotions[i].at)'
            = MadeBy(row.cell, promotions[i].at)
      BY <1>2, <1>3, <3>1 DEF MadeBy
    <3>6. QED
      BY <1>3, <2>1, <2>4, <3>1, <3>2, <3>4, <3>5 DEF Earned, Uninformative
  <2>5. ASSUME NEW k \in 1 .. n, promotions[k].rung = Pilot PROVE Earned(k)'
    <3> DEFINE j == promotions[k].supersedes
    <3>1. Earned(k) /\ j \in 1 .. n
      BY <1>3, <2>5, PilotsRowByRow DEF CapitalInv, Earned
    <3>2. i # j
      <4>1. j \in Superseded /\ j # 0
        BY <1>3, <3>1 DEF Superseded
      <4>2. QED
        BY <2>1, <2>3, <4>1
    <3>3. /\ promotions'[j] = promotions[j] /\ promotions'[k] = promotions[k]
      BY <1>3, <3>1
    <3>4. \A l \in DOMAIN promotions' : l # k => promotions'[l].supersedes # j
      BY <1>2, <1>3, <3>1, <3>2 DEF Earned
    <3>5. MadeBy(promotions[k].cell, promotions[j].at)'
            = MadeBy(promotions[k].cell, promotions[j].at)
      BY <1>2, <3>3 DEF MadeBy
    <3>6. QED
      BY <3>1, <3>3, <3>4, <3>5 DEF Earned, Uninformative
  <2>6. QED
    BY <1>3, <2>4, <2>5, PilotsRowByRow
<1>11. QED
  BY <1>5, <1>6, <1>7, <1>8, <1>9, <1>10 DEF CapitalInv

-----------------------------------------------------------------------------
(* Every other step. *)

\* A forecast registered or resolved now is no part of what a promotion already
\* made was judged on.
LEMMA ForecastsKeep ==
  ASSUME CapitalInv, NEW f \in Forecasts,
         Register(f) \/ \E occurred \in BOOLEAN : Resolve(f, occurred)
  PROVE  CapitalInv'
<1>1. /\ TypeOK /\ GrantsAreNamed /\ ReadByNow
      /\ TablesTyped /\ CapitalTyped /\ ForecastsTyped /\ ProcessesTyped
  BY CapitalTypeParts DEF CapitalInv
<1>2. clock' = clock + 1 /\ UNCHANGED <<colony, capital, proc>> /\ clock \in Nat
  BY <1>1 DEF Register, Resolve, Stamp, TablesTyped
<1> DEFINE Moved ==
      /\ ForecastsTyped'
      /\ \A g \in Forecasts : \/ forecast'[g].made = forecast[g].made
                              \/ forecast[g].made = 0 /\ forecast'[g].made = clock + 1
<1>3. Moved
  <2>1. CASE Register(f)
    BY <1>1, <1>2, <2>1 DEF Register, Unmade, ForecastsTyped, Forecast
  <2>2. ASSUME NEW occurred \in BOOLEAN, Resolve(f, occurred) PROVE Moved
    <3> DEFINE score == BrierScore(f, occurred)
               marked == [forecast EXCEPT ![f].resolved = clock + 1]
    <3>1. score \in Nat /\ clock + 1 \in Nat
      BY <1>2, BrierTyped
    <3>2. forecast' = [marked EXCEPT ![f].score = score]
      BY <1>2, <2>2 DEF Resolve
    <3> HIDE DEF score
    <3>3. /\ marked \in [Forecasts -> Forecast]
          /\ \A g \in Forecasts : marked[g].made = forecast[g].made
      BY <1>1, <3>1 DEF ForecastsTyped, Forecast
    <3> HIDE DEF marked
    <3>4. /\ forecast' \in [Forecasts -> Forecast]
          /\ \A g \in Forecasts : forecast'[g].made = marked[g].made
      BY <3>1, <3>2, <3>3 DEF Forecast
    <3>5. QED
      BY <3>3, <3>4 DEF ForecastsTyped
  <2>3. QED
    BY <2>1, <2>2
<1>4. TablesTyped'
  BY <1>1, <1>2 DEF TablesTyped, colony, capital
<1>5. TypeOK'
  BY <1>1, <1>2, <1>3, <1>4, CapitalUnchangedTyped, CapitalTypeParts DEF capital
<1>6. ASSUME NEW c \in Cells, NEW i \in DOMAIN promotions
      PROVE  MadeBy(c, promotions[i].at)' = MadeBy(c, promotions[i].at)
  <2>1. promotions[i].at <= clock /\ promotions[i].at \in Nat
    BY <1>1, RowsTyped DEF ReadByNow, Promotion
  <2>2. \A g \in Forecasts : forecast'[g].made \in 1 .. promotions[i].at
                               <=> forecast[g].made \in 1 .. promotions[i].at
    BY <1>2, <1>3, <2>1
  <2>3. QED
    BY <1>2, <2>2 DEF MadeBy, capital
<1>7. \A a \in Allocators : proc'[a].now <= clock'
  BY <1>1, <1>2 DEF ReadByNow, ProcessesTyped, Process
<1>8. GrantsAreNamed'
  BY <1>1, <1>2 DEF GrantsAreNamed
<1>9. QED
  BY <1>2, <1>5, <1>6, <1>7, <1>8, CapitalStays DEF capital

\* The rung that is derived is one of the two.
LEMMA RungEntitled == \A c : EntitledRung(c) \in {Live, Pilot}
  BY DEF EntitledRung

\* What an allocator reads before its transaction is of now, and of a grant.
LEMMA ReadingKeeps ==
  ASSUME CapitalInv, NEW a \in Allocators,
         \/ cmd_allocate(a) \/ cmd_auto_promote(a) \/ cmd_start_experiment(a)
         \/ Leave(a) \/ \E g \in Grants : Judge(a, g)
  PROVE  CapitalInv'
<1>1. /\ TypeOK /\ GrantsAreNamed /\ ReadByNow /\ clock \in Nat
      /\ TablesTyped /\ CapitalTyped /\ ForecastsTyped /\ ProcessesTyped
  BY CapitalTypeParts DEF CapitalInv, TablesTyped
<1>2. UNCHANGED <<clock, colony, capital, forecast>>
  BY DEF cmd_allocate, BeginByHand, cmd_auto_promote, BeginSweep,
         cmd_start_experiment, BeginStart, Leave, Judge
<1> DEFINE Reads ==
      \E q \in Process :
        /\ proc' = [proc EXCEPT ![a] = q]
        /\ q.now <= clock
        /\ q.rung # 0 \/ q.kind = "starter" => q.grant \in Grants
<1>3. Reads
  <2>1. ASSUME NEW g \in Grants, BeginByHand(a, g) PROVE Reads
    <3> DEFINE p == [kind |-> "operator", now |-> clock, grant |-> g,
                     rung |-> EntitledRung(CellOf[g])]
    <3>1. p \in Process /\ p.now <= clock /\ p.grant = g
      BY <1>1, RungEntitled DEF Process
    <3>2. proc' = [proc EXCEPT ![a] = p]
      BY <2>1 DEF BeginByHand
    <3> HIDE DEF p
    <3>3. QED
      BY <3>1, <3>2
  <2>2. ASSUME BeginSweep(a) PROVE Reads
    <3> DEFINE begun == [Idle EXCEPT !.kind = "sweep"]
               p == [begun EXCEPT !.now = clock]
    <3>1. proc' = [proc EXCEPT ![a] = p]
      BY <2>2 DEF BeginSweep
    <3>2. begun \in Process /\ begun.rung = 0 /\ begun.kind = "sweep"
      BY DEF Idle, Process
    <3> HIDE DEF begun
    <3>3. p \in Process /\ p.rung = 0 /\ p.kind = "sweep" /\ p.now <= clock
      BY <1>1, <3>2 DEF Process
    <3> HIDE DEF p
    <3>4. QED
      BY <3>1, <3>3
  <2>3. ASSUME NEW g \in Grants, BeginStart(a, g) PROVE Reads
    <3> DEFINE p == [kind |-> "starter", now |-> clock, grant |-> g, rung |-> 0]
    <3>1. p \in Process /\ p.now <= clock /\ p.grant = g
      BY <1>1 DEF Process
    <3>2. proc' = [proc EXCEPT ![a] = p]
      BY <2>3 DEF BeginStart
    <3> HIDE DEF p
    <3>3. QED
      BY <3>1, <3>2
  <2>4. ASSUME Leave(a) PROVE Reads
    <3>1. CASE proc' = [proc EXCEPT ![a] = Idle]
      <4>1. Idle \in Process /\ Idle.now = 0 /\ Idle.rung = 0 /\ Idle.kind = "idle"
        BY DEF Idle, Process
      <4>2. Idle.now <= clock
        BY <1>1, <4>1
      <4>3. QED
        BY <3>1, <4>1, <4>2
    <3>2. CASE proc[a].kind = "sweep" /\ proc' = [proc EXCEPT ![a].rung = 0]
      <4> DEFINE p == [proc[a] EXCEPT !.rung = 0]
      <4>1. /\ p \in Process /\ p.now = proc[a].now /\ p.rung = 0
            /\ p.kind = "sweep" /\ proc' = [proc EXCEPT ![a] = p]
        BY <1>1, <3>2 DEF ProcessesTyped, Process
      <4>2. p.now <= clock
        BY <1>1, <4>1 DEF ReadByNow
      <4> HIDE DEF p
      <4>3. QED
        BY <4>1, <4>2
    <3>3. QED
      BY <2>4, <3>1, <3>2 DEF Leave
  <2>5. ASSUME NEW g \in Grants, Judge(a, g) PROVE Reads
    <3> DEFINE p == [proc[a] EXCEPT !.grant = g, !.rung = EntitledRung(CellOf[g])]
    <3>1. p \in Process /\ p.now = proc[a].now /\ p.grant = g
      BY <1>1, RungEntitled DEF ProcessesTyped, Process
    <3>2. proc' = [proc EXCEPT ![a] = p]
      BY <1>1, <2>5 DEF Judge, ProcessesTyped, Process
    <3>3. p.now <= clock
      BY <1>1, <3>1 DEF ReadByNow
    <3> HIDE DEF p
    <3>4. QED
      BY <3>1, <3>2, <3>3
  <2> HIDE DEF Reads
  <2>6. QED
    BY <2>1, <2>2, <2>3, <2>4, <2>5
    DEF cmd_allocate, cmd_auto_promote, cmd_start_experiment
<1>4. PICK p \in Process :
        /\ proc' = [proc EXCEPT ![a] = p]
        /\ p.now <= clock
        /\ p.rung # 0 \/ p.kind = "starter" => p.grant \in Grants
  BY <1>3
<1>5. ProcessesTyped'
  BY <1>1, <1>4 DEF ProcessesTyped, Process
<1>6. TypeOK'
  BY <1>1, <1>2, <1>5, CapitalUnchangedTyped, CapitalTypeParts DEF capital
<1>7. \A b \in Allocators : proc'[b] = IF b = a THEN p ELSE proc[b]
  BY <1>1, <1>4 DEF ProcessesTyped
<1>8. \A b \in Allocators : proc'[b].now <= clock'
  BY <1>1, <1>2, <1>4, <1>7 DEF ReadByNow
<1>9. GrantsAreNamed'
  BY <1>1, <1>4, <1>7 DEF GrantsAreNamed
<1>10. \A c \in Cells, i \in DOMAIN promotions :
        MadeBy(c, promotions[i].at)' = MadeBy(c, promotions[i].at)
  BY <1>2 DEF MadeBy, capital
<1>11. QED
  BY <1>1, <1>2, <1>6, <1>8, <1>9, <1>10, CapitalStays DEF capital

\* A Cell may run one of three rungs.
LEMMA EntitledTyped ==
  ASSUME CapitalTyped, NEW c PROVE EntitledToRun(c) \in Nat
<1> DEFINE S == {1} \cup RungsOf(c)
<1>1. S \subseteq {1, 7, 8} /\ 1 \in S
  BY RowsTyped DEF RungsOf, Promotion, Live, Pilot
<1>2. \E x \in S : \A y \in S : x >= y
  BY <1>1
<1>3. Max(S) \in S
  BY <1>2 DEF Max
<1>4. QED
  BY <1>1, <1>3 DEF EntitledToRun

\* A start from a grant spends it, and promotes nothing.
LEMMA StartKeeps ==
  ASSUME CapitalInv, NEW a \in Allocators, StartFromGrant(a)
  PROVE  CapitalInv'
<1> DEFINE g == proc[a].grant
<1>1. /\ TypeOK /\ GrantsAreNamed /\ ReadByNow /\ clock \in Nat
      /\ TablesTyped /\ CapitalTyped /\ ForecastsTyped /\ ProcessesTyped
  BY CapitalTypeParts DEF CapitalInv, TablesTyped
<1>2. /\ g \in Grants
      /\ experiment' = [experiment EXCEPT ![CellOf[g]] = EntitledToRun(CellOf[g])]
      /\ grant' = [grant EXCEPT ![g] = @ \cup {"consumed"}]
      /\ proc' = [proc EXCEPT ![a] = Idle]
      /\ UNCHANGED <<clock, colony, funded, pool, expires, promotions, forecast>>
  BY <1>1 DEF StartFromGrant, GrantsAreNamed
<1> HIDE DEF g
<1>3. EntitledToRun(CellOf[g]) \in Nat
  BY <1>1, EntitledTyped
<1>4. TablesTyped'
  BY <1>1, <1>2, <1>3 DEF TablesTyped, colony
<1>5. /\ CapitalTyped'
      /\ \A h \in Grants : "consumed" \in grant[h] => "consumed" \in grant'[h]
  BY <1>1, <1>2 DEF CapitalTyped
<1>6. /\ ProcessesTyped' /\ GrantsAreNamed'
      /\ \A b \in Allocators : proc'[b].now <= clock'
  BY <1>1, <1>2 DEF ProcessesTyped, Process, GrantsAreNamed, Idle, ReadByNow
<1>7. TypeOK'
  BY <1>1, <1>2, <1>4, <1>5, <1>6, CapitalUnchangedTyped, CapitalTypeParts
<1>8. \A c \in Cells, i \in DOMAIN promotions :
        MadeBy(c, promotions[i].at)' = MadeBy(c, promotions[i].at)
  BY <1>2 DEF MadeBy
<1>9. QED
  BY <1>1, <1>2, <1>5, <1>6, <1>7, <1>8, CapitalStays

\* A step that neither moves money nor writes rows: only a grant's status or
\* expiry, a flag, a Cell's standing or its experiment.
LEMMA AroundKeeps ==
  ASSUME CapitalInv, TablesTyped', CapitalTyped',
         UNCHANGED <<clock, funded, pool, promotions, forecast, proc>>,
         \A g \in Grants : "consumed" \in grant[g] => "consumed" \in grant'[g]
  PROVE  CapitalInv'
<1>1. /\ TypeOK /\ GrantsAreNamed /\ ReadByNow /\ clock \in Nat
      /\ TablesTyped /\ CapitalTyped /\ ForecastsTyped /\ ProcessesTyped
  BY CapitalTypeParts DEF CapitalInv, TablesTyped
<1>2. TypeOK'
  BY <1>1, CapitalUnchangedTyped, CapitalTypeParts
<1>3. /\ GrantsAreNamed' /\ \A b \in Allocators : proc'[b].now <= clock'
  BY <1>1 DEF GrantsAreNamed, ReadByNow
<1>4. \A c \in Cells, i \in DOMAIN promotions :
        MadeBy(c, promotions[i].at)' = MadeBy(c, promotions[i].at)
  BY DEF MadeBy
<1>5. QED
  BY <1>1, <1>2, <1>3, <1>4, CapitalStays

\* The operator fills the pool.
LEMMA FundingKeeps ==
  ASSUME CapitalInv, NEW amount \in Funds, FundPool(amount) PROVE CapitalInv'
<1>1. /\ TypeOK /\ GrantsAreNamed /\ ReadByNow /\ PaidIsConsumed
      /\ TablesTyped /\ CapitalTyped /\ ForecastsTyped /\ ProcessesTyped
  BY CapitalTypeParts DEF CapitalInv
<1>2. /\ amount \in Nat /\ funded' = funded + amount /\ pool' = pool + amount
      /\ UNCHANGED <<clock, colony, grant, expires, promotions, experiment, forecast,
                     proc>>
  BY PromotionsAssumption DEF FundPool
<1>3. TypeOK'
  <2>1. CapitalTyped'
    BY <1>1, <1>2 DEF CapitalTyped
  <2>2. QED
    BY <1>1, <1>2, <2>1, CapitalUnchangedTyped, CapitalTypeParts
<1>4. PoolIsACeiling'
  <2> DEFINE paid == SumFunctionOnSet(
                       [k \in DOMAIN promotions |-> AmountOf[promotions[k].grant]],
                       DOMAIN promotions)
  <2>1. paid \in Int
    <3>1. IsFiniteSet(DOMAIN promotions)
      BY <1>1, RowsTyped, FS_Interval
    <3>2. \A k \in DOMAIN promotions : AmountOf[promotions[k].grant] \in Int
      BY <1>1, RowsTyped, PromotionsAssumption DEF Promotion
    <3>3. QED
      BY <3>1, <3>2, SumInt
  <2>2. pool + paid = funded /\ paid' = paid
    BY <1>2 DEF CapitalInv, PoolIsACeiling
  <2> HIDE DEF paid
  <2>3. pool' + paid' = funded'
    BY <1>1, <1>2, <2>1, <2>2 DEF CapitalTyped
  <2>4. QED
    BY <1>2, <2>3 DEF paid, CapitalInv, PoolIsACeiling
<1>5. PilotsAreEarned'
  <2>1. \A c \in Cells, i \in DOMAIN promotions :
          MadeBy(c, promotions[i].at)' = MadeBy(c, promotions[i].at)
    BY <1>2 DEF MadeBy
  <2>2. QED
    BY <1>1, <1>2, <2>1, PilotsStayEarned DEF CapitalInv
<1>6. ReadByNow' /\ GrantsAreNamed' /\ PaidIsConsumed'
  BY <1>1, <1>2 DEF ReadByNow, GrantsAreNamed, PaidIsConsumed
<1>7. QED
  BY <1>3, <1>4, <1>5, <1>6 DEF CapitalInv


\* Every step keeps it.
LEMMA CapitalStep == CapitalInv /\ [Next]_vars => CapitalInv'
<1> SUFFICES ASSUME CapitalInv, [Next]_vars PROVE CapitalInv'
  OBVIOUS
<1>1. TablesTyped /\ CapitalTyped /\ TypeOK
  BY CapitalTypeParts DEF CapitalInv
<1>2. CASE cmd_fund_pool
  BY <1>2, FundingKeeps DEF cmd_fund_pool
<1>3. ASSUME NEW flag \in Toggled, SetAutonomy(flag) PROVE CapitalInv'
  <2>1. flags' \subseteq Autonomy
    BY <1>1, <1>3, PromotionsAssumption DEF SetAutonomy, TablesTyped, Autonomy
  <2>2. TablesTyped' /\ CapitalTyped'
    BY <1>1, <1>3, <2>1 DEF SetAutonomy, TablesTyped, CapitalTyped, capital
  <2>3. QED
    BY <1>3, <2>2, AroundKeeps DEF SetAutonomy, capital
<1>4. ASSUME NEW c \in Cells, Conclude(c) PROVE CapitalInv'
  <2>1. TablesTyped' /\ CapitalTyped'
    BY <1>1, <1>4 DEF Conclude, TablesTyped, CapitalTyped, colony
  <2>2. QED
    BY <1>4, <2>1, AroundKeeps DEF Conclude
<1>5. CASE cmd_predict
  BY <1>5, ForecastsKeep DEF cmd_predict
<1>6. CASE cmd_resolve_prediction
  BY <1>6, ForecastsKeep DEF cmd_resolve_prediction
<1>7. ASSUME NEW a \in Allocators,
             \/ cmd_allocate(a) \/ cmd_auto_promote(a) \/ cmd_start_experiment(a)
             \/ Leave(a) \/ \E g \in Grants : Judge(a, g)
      PROVE  CapitalInv'
  BY <1>7, ReadingKeeps
<1>8. ASSUME NEW a \in Allocators, Allocate(a) PROVE CapitalInv'
  BY <1>8, AllocateKeeps
<1>9. ASSUME NEW a \in Allocators, StartFromGrant(a) PROVE CapitalInv'
  BY <1>9, StartKeeps
<1>10. ASSUME NEW g \in Grants, Approve(g) PROVE CapitalInv'
  <2>1. TablesTyped'
    BY <1>1, <1>10, PromotionsAssumption DEF Approve, TablesTyped, colony
  <2>2. /\ CapitalTyped'
        /\ \A h \in Grants : "consumed" \in grant[h] => "consumed" \in grant'[h]
    BY <1>1, <1>10 DEF Approve, CapitalTyped
  <2>3. QED
    BY <1>10, <2>1, <2>2, AroundKeeps DEF Approve
<1>11. ASSUME NEW g \in Grants, Lapse(g) PROVE CapitalInv'
  <2>1. TablesTyped'
    BY <1>1, <1>11 DEF Lapse, TablesTyped, colony
  <2>2. /\ CapitalTyped'
        /\ \A h \in Grants : "consumed" \in grant[h] => "consumed" \in grant'[h]
    BY <1>1, <1>11 DEF Lapse, CapitalTyped
  <2>3. QED
    BY <1>11, <2>1, <2>2, AroundKeeps DEF Lapse
<1>12. ASSUME NEW c \in Cells, NEW s \in Standings, ChangeStatus(c, s)
       PROVE  CapitalInv'
  <2>1. TablesTyped' /\ CapitalTyped'
    BY <1>1, <1>12, PromotionsAssumption
    DEF ChangeStatus, TablesTyped, CapitalTyped
  <2>2. QED
    BY <1>12, <2>1, AroundKeeps DEF ChangeStatus
<1>13. CASE UNCHANGED vars
  <2>1. TablesTyped' /\ CapitalTyped'
    BY <1>1, <1>13 DEF TablesTyped, CapitalTyped, vars, colony, capital
  <2>2. QED
    BY <1>13, <2>1, AroundKeeps DEF vars, capital
<1>14. QED
  BY <1>2, <1>3, <1>4, <1>5, <1>6, <1>7, <1>8, <1>9, <1>10, <1>11, <1>12, <1>13
  DEF Next, cmd_set_autonomy, cmd_conclude_experiment

\* Nothing is promoted at the start.
LEMMA CapitalInit == Init => CapitalInv
<1> SUFFICES ASSUME Init PROVE CapitalInv
  OBVIOUS
<1>1. promotions = <<>> /\ DOMAIN promotions = {}
  BY DEF Init
<1>2. TypeOK
  <2>1. TablesTyped /\ CapitalTyped
    BY PromotionsAssumption DEF Init, TablesTyped, CapitalTyped, Autonomy
  <2>2. ForecastsTyped /\ ProcessesTyped
    BY DEF Init, ForecastsTyped, Forecast, Unmade, ProcessesTyped, Process, Idle
  <2>3. QED
    BY <2>1, <2>2, CapitalTypeParts
<1>3. PoolIsACeiling
  <2>1. SumFunctionOnSet(
          [i \in DOMAIN promotions |-> AmountOf[promotions[i].grant]],
          DOMAIN promotions) = 0
    BY <1>1, SumEmpty
  <2>2. QED
    BY <1>1, <2>1 DEF Init, PoolIsACeiling
<1>4. ReadByNow /\ GrantsAreNamed /\ PaidIsConsumed /\ PilotsAreEarned
  BY <1>1 DEF Init, Idle, ReadByNow, GrantsAreNamed, PaidIsConsumed, PilotsAreEarned
<1>5. QED
  BY <1>2, <1>3, <1>4 DEF CapitalInv

LEMMA CapitalAlways == Spec => []CapitalInv
<1>1. QED
  BY CapitalInit, CapitalStep, PTL DEF Spec

-----------------------------------------------------------------------------
(* What the promotions promise. *)

\* The tables of promotion.py, prediction.py and experiments.py keep their types.
THEOREM CapitalTypeCorrect == Spec => []TypeOK
<1>1. CapitalInv => TypeOK
  BY DEF CapitalInv
<1>2. QED
  BY <1>1, CapitalAlways, PTL

\* Whatever number of allocators race for whatever grants, the pool is what the
\* operator put in less what was promoted, it never goes below nothing, and no
\* grant is paid twice (promotion._allocate_locked).
THEOREM PoolAlwaysACeiling == Spec => []PoolIsACeiling
<1>1. CapitalInv => PoolIsACeiling
  BY DEF CapitalInv
<1>2. QED
  BY <1>1, CapitalAlways, PTL

\* However stale the time an allocator goes by, an expanded pilot stands alone
\* on a live experiment of its Cell and on forecasts made before it was funded
\* (outcome.assess).
THEOREM PilotsAlwaysEarned == Spec => []PilotsAreEarned
<1>1. CapitalInv => PilotsAreEarned
  BY DEF CapitalInv
<1>2. QED
  BY <1>1, CapitalAlways, PTL

\* Only an allocation writes a row.
LEMMA OnlyAllocateWrites ==
  ASSUME [Next]_vars, ~ \E a \in Allocators : Allocate(a)
  PROVE  UNCHANGED promotions
BY DEF Next, vars, capital, cmd_fund_pool, FundPool, cmd_set_autonomy, SetAutonomy,
       cmd_conclude_experiment, Conclude, cmd_predict, Register,
       cmd_resolve_prediction, Resolve, cmd_allocate, BeginByHand,
       cmd_auto_promote, BeginSweep, cmd_start_experiment, BeginStart, Leave,
       StartFromGrant, Judge, Approve, Lapse, ChangeStatus

\* What consent an allocation has when it writes.
LEMMA ConsentToAllocate ==
  ASSUME CapitalInv, NEW a \in Allocators, Allocate(a)
  PROVE  LET p == promotions'[Len(promotions')]
         IN /\ cell[p.cell] \notin {"quarantined", "dead"}
            /\ "real_spending" \in flags
            /\ p.auto => "auto_promotion" \in flags
<1>1. TypeOK /\ GrantsAreNamed /\ CapitalTyped
  BY CapitalTypeParts DEF CapitalInv
<1>2. PICK g \in Grants, row \in Promotion, i \in Nat :
        /\ row.cell = CellOf[g] /\ row.auto = (proc[a].kind = "sweep")
        /\ promotions' = Append(promotions, row)
        /\ MayReceive(a, CellOf[g])
  BY <1>1, AllocateMeans
<1>3. promotions'[Len(promotions')] = row
  BY <1>1, <1>2, RowAppended, RowsTyped
<1>4. QED
  BY <1>2, <1>3 DEF MayReceive, FlagHolds

\* A promotion is made only under the flags, and to a Cell, as they stand when
\* it is written and not as they stood when the allocator read them
\* (promotion._allocate_locked).
THEOREM CapitalAlwaysMovesByConsent == Spec => CapitalMovesByConsent
<1> DEFINE Consent ==
      Len(promotions') > Len(promotions) =>
        LET p == promotions'[Len(promotions')]
        IN /\ cell[p.cell] \notin {"quarantined", "dead"}
           /\ "real_spending" \in flags
           /\ p.auto => "auto_promotion" \in flags
<1>1. CapitalInv /\ [Next]_vars => Consent
  <2>1. SUFFICES ASSUME CapitalInv, [Next]_vars, Len(promotions') > Len(promotions)
                 PROVE  Consent
    OBVIOUS
  <2>2. Len(promotions) \in Nat
    BY RowsTyped, CapitalTypeParts DEF CapitalInv
  <2>3. PICK a \in Allocators : Allocate(a)
    BY <2>1, <2>2, OnlyAllocateWrites
  <2>4. QED
    BY <2>1, <2>3, ConsentToAllocate
<1>2. CapitalInv /\ [Next]_vars => [Consent]_vars
  BY <1>1
<1>3. Spec => [][Consent]_vars
  BY <1>2, CapitalAlways, PTL DEF Spec
<1>4. QED
  BY <1>3 DEF CapitalMovesByConsent

-----------------------------------------------------------------------------
(* Population beside Promotions: a colony of the same Cells. *)
CONSTANTS Auditors, GenomeOf, BudgetOf, NoCell, MaxLiving, MaxActive, MaxBirths,
          LineageShare, MaxGain, Does, MaxWarrants, MaxEpoch

VARIABLES epoch, order, life, founder, bornIn, cash, committed, held, revenue,
          spend, brier, running, warrants, signed, cause

Births == INSTANCE Population WITH cell <- life

-----------------------------------------------------------------------------
(* Population.  First, what is called by two names here. *)

\* How many there are of something does not depend on who counts.
LEMMA SameCounts ==
  /\ \A S : Births!Cardinality(S) = Cardinality(S)
  /\ \A S : Births!IsFiniteSet(S) <=> IsFiniteSet(S)
  BY DEF Births!Cardinality, Cardinality, Births!IsFiniteSet, IsFiniteSet

\* A colony's births are recorded, none of them in an epoch to come.
BornByNow == \A c \in Cells : bornIn[c] <= epoch

\* Nobody is about to be killed on an estimate nobody else signed.
EstimatesAreSigned ==
  \A c \in Cells : <<c, "negative_ev">> \in warrants =>
    \E a \in Auditors \ {c} : <<c, a>> \in signed

\* The inductive invariant of Population.
ColonyInv ==
  /\ Births!TypeOK
  /\ BornByNow
  /\ EstimatesAreSigned
  /\ Births!BirthsFit
  /\ Births!SlotsAreHeldByTheLiving

\* Every set of Cells is finite.
LEMMA CellsFinite ==
  ASSUME Births!PopulationConstants, NEW S, S \subseteq Cells
  PROVE  IsFiniteSet(S) /\ Cardinality(S) \in Nat
<1>1. IsFiniteSet(Cells)
  BY SameCounts DEF Births!PopulationConstants
<1>2. QED
  BY <1>1, FS_Subset, FS_CardinalityType

\* What a licence to be born has checked.
LEMMA LicenceMeans ==
  ASSUME Births!PopulationConstants, Births!TypeOK,
         NEW displacer, NEW exclude, NEW v \in Births!BirthLicence(displacer, exclude)
  PROVE  /\ Cardinality(Births!BirthsInEpoch) < MaxBirths
         /\ Cardinality(Births!Living(Births!After(v))) < MaxLiving
         /\ v # NoCell =>
              /\ v \in Births!Living(life) \ exclude
              /\ Births!Finding(v) # "none" /\ committed[v] = 0
<1> DEFINE caps == Births!BindingCaps(life)
           eligible == Births!Candidates("active" \in caps, exclude)
<1>1. ~(Births!Cardinality(Births!BirthsInEpoch) >= MaxBirths)
  BY DEF Births!BirthLicence
<1>2. \/ caps = {} /\ v = NoCell
      \/ v \in Births!FirstBorn(eligible) /\ Births!BindingCaps(Births!Dead(v)) = {}
  BY DEF Births!BirthLicence
<1>3. v \in eligible => v \in Cells
  BY DEF Births!Candidates, Births!Living
<1>4. Births!BindingCaps(Births!After(v)) = {}
  BY <1>2, <1>3 DEF Births!After, Births!FirstBorn, Births!PopulationConstants
<1>5. ~(Cardinality(Births!Living(Births!After(v))) >= MaxLiving)
  BY <1>4, SameCounts DEF Births!BindingCaps
<1>6. Births!BirthsInEpoch \subseteq Cells
  BY DEF Births!BirthsInEpoch, Births!Range, Births!TypeOK
<1>7. Births!Living(Births!After(v)) \subseteq Cells
  BY DEF Births!Living
<1>8. v # NoCell => v \in eligible
  BY <1>2 DEF Births!FirstBorn
<1>9. v \in eligible =>
        /\ v \in Births!Living(life) \ exclude
        /\ Births!Finding(v) # "none" /\ ~Births!HasFundsCommitted(v)
  BY DEF Births!Candidates
<1>10. v # NoCell =>
         /\ v \in Births!Living(life) \ exclude
         /\ Births!Finding(v) # "none" /\ committed[v] = 0
  BY <1>8, <1>9 DEF Births!HasFundsCommitted
<1>11. /\ Cardinality(Births!BirthsInEpoch) \in Nat
       /\ Cardinality(Births!Living(Births!After(v))) \in Nat
  BY <1>6, <1>7, CellsFinite
<1>12. MaxBirths \in Nat /\ MaxLiving \in Nat
  BY DEF Births!PopulationConstants
<1> HIDE DEF caps, eligible
<1>13. QED
  BY <1>1, <1>5, <1>10, <1>11, <1>12, SameCounts

\* What is left when somebody, or nobody, is evicted.
LEMMA EvictionTypes ==
  ASSUME Births!PopulationConstants, Births!TypeOK, NEW v \in Cells \cup {NoCell}
  PROVE  /\ Births!After(v) \in [Cells -> Births!Statuses]
         /\ \A c \in Cells \ {v} : Births!After(v)[c] = life[c]
         /\ v \in Cells => v # NoCell /\ Births!After(v)[v] = "dead"
         /\ Births!CashAfter(v) \in [Cells -> Nat]
         /\ \A c \in Cells \ {v} : Births!CashAfter(v)[c] = cash[c]
         /\ Births!RunningAfter(v) \subseteq Cells
  BY DEF Births!After, Births!Dead, Births!CashAfter, Births!RunningAfter,
         Births!TypeOK, Births!Statuses, Births!PopulationConstants

\* The columns that only a birth or a death writes keep their types.
PeopleTyped ==
  /\ epoch \in 0 .. MaxEpoch
  /\ order \in Seq(Cells)
  /\ life \in [Cells -> Births!Statuses]
  /\ founder \in [Cells -> Cells]
  /\ bornIn \in [Cells -> 0 .. MaxEpoch]

\* So do the books,
BooksTyped ==
  /\ cash \in [Cells -> Nat] /\ committed \in [Cells -> {0, 1}]
  /\ held \in [Cells -> Nat] /\ revenue \in [Cells -> Int]
  /\ spend \in [Cells -> Nat]
  /\ brier \in [Cells -> {0, 1, Births!Unscored}]

\* and the records of experiments and deaths.
DeathsTyped ==
  /\ running \subseteq Cells
  /\ warrants \subseteq Cells \X Births!Causes /\ signed \subseteq Cells \X Cells
  /\ cause \in [Cells -> Births!Causes \cup {"none"}]

\* Together they are the type invariant.
LEMMA TypeParts == Births!TypeOK <=> PeopleTyped /\ BooksTyped /\ DeathsTyped
  BY DEF Births!TypeOK, PeopleTyped, BooksTyped, DeathsTyped

\* They are too after the step.
LEMMA TypePartsNext ==
  Births!TypeOK' <=> PeopleTyped' /\ BooksTyped' /\ DeathsTyped'
  BY DEF Births!TypeOK, PeopleTyped, BooksTyped, DeathsTyped

\* What a step leaves alone it leaves typed.
LEMMA UnchangedTyped ==
  /\ PeopleTyped /\ UNCHANGED Births!people => PeopleTyped'
  /\ BooksTyped /\ UNCHANGED Births!books => BooksTyped'
  /\ DeathsTyped /\ UNCHANGED <<running, Births!deaths>> => DeathsTyped'
  BY DEF PeopleTyped, BooksTyped, DeathsTyped, Births!people, Births!books,
         Births!deaths, Births!Statuses, Births!Causes, Births!Findings,
         Births!Unscored

\* A birth, with whatever it evicts, writes typed columns.
LEMMA BornTyped ==
  ASSUME Births!PopulationConstants, Births!TypeOK,
         NEW c \in Cells, NEW f \in Cells, NEW v \in Cells \cup {NoCell},
         Births!Born(c, f, v)
  PROVE  PeopleTyped' /\ DeathsTyped'
<1>1. /\ Births!After(v) \in [Cells -> Births!Statuses]
      /\ Births!RunningAfter(v) \subseteq Cells
  BY EvictionTypes
<1>2. PeopleTyped /\ DeathsTyped
  BY TypeParts
<1>3. order' \in Seq(Cells)
  BY <1>2, AppendProperties DEF Births!Born, PeopleTyped
<1>4. PeopleTyped'
  BY <1>1, <1>2, <1>3 DEF Births!Born, PeopleTyped, Births!Statuses
<1>5. /\ cause' = IF v = NoCell THEN cause ELSE [cause EXCEPT ![v] = "displaced"]
      /\ running' = Births!RunningAfter(v)
      /\ UNCHANGED <<warrants, signed>>
  BY DEF Births!Born, Births!Bury
<1>6. DeathsTyped'
  BY <1>1, <1>2, <1>5 DEF DeathsTyped, Births!Causes
<1>7. QED
  BY <1>4, <1>6

\* Whoever is evicted is a Cell.
LEMMA LicenceTypes ==
  ASSUME Births!PopulationConstants, Births!TypeOK,
         NEW displacer, NEW exclude, NEW v \in Births!BirthLicence(displacer, exclude)
  PROVE  v \in Cells \cup {NoCell} /\ v \notin exclude \cap Cells
<1>1. v # NoCell => v \in Births!Living(life) \ exclude
  BY LicenceMeans
<1>2. QED
  BY <1>1 DEF Births!Living, Births!PopulationConstants

\* The two births keep the columns' types: a parent never pays what it has not.
LEMMA CreateTyped ==
  ASSUME Births!PopulationConstants, Births!TypeOK, NEW c \in Cells,
         Births!cmd_create_cell(c)
  PROVE  Births!TypeOK'
<1>1. PICK displacer \in BOOLEAN : Births!CreateCell(c, displacer)
  BY DEF Births!cmd_create_cell
<1>2. PICK v \in Births!BirthLicence(displacer, {}) :
        /\ Births!Born(c, c, v)
        /\ cash' = [Births!CashAfter(v) EXCEPT ![c] = BudgetOf[c]]
  BY <1>1 DEF Births!CreateCell
<1>3. v \in Cells \cup {NoCell}
  BY LicenceTypes
<1>4. PeopleTyped' /\ DeathsTyped'
  BY <1>2, <1>3, BornTyped
<1>5. Births!CashAfter(v) \in [Cells -> Nat]
  BY <1>3, EvictionTypes
<1>6. BooksTyped
  BY TypeParts
<1>7. BooksTyped'
  BY <1>2, <1>5, <1>6 DEF Births!Born, BooksTyped, Births!PopulationConstants
<1>8. QED
  BY <1>4, <1>7, TypePartsNext

LEMMA ReproduceTyped ==
  ASSUME Births!PopulationConstants, Births!TypeOK, NEW c \in Cells,
         Births!cmd_reproduce(c)
  PROVE  Births!TypeOK'
<1>1. PICK p \in Cells \ {c}, displacer \in BOOLEAN : Births!Reproduce(c, p, displacer)
  BY DEF Births!cmd_reproduce
<1>2. PICK v \in Births!BirthLicence(displacer, {p}) :
        /\ Births!CanFund(p, c)
        /\ Births!Born(c, founder[p], v)
        /\ cash' = [Births!CashAfter(v) EXCEPT ![c] = BudgetOf[c],
                                               ![p] = @ - BudgetOf[c]]
  BY <1>1 DEF Births!Reproduce
<1>3. v \in Cells \cup {NoCell} /\ v # p
  BY LicenceTypes, <1>1
<1>4. founder[p] \in Cells /\ BooksTyped
  BY TypeParts DEF PeopleTyped
<1>5. PeopleTyped' /\ DeathsTyped'
  BY <1>2, <1>3, <1>4, BornTyped
<1>6. Births!CashAfter(v) \in [Cells -> Nat] /\ Births!CashAfter(v)[p] = cash[p]
  BY <1>3, EvictionTypes
<1>7. BudgetOf[c] \in Nat /\ cash[p] >= BudgetOf[c] /\ cash[p] \in Nat
  BY <1>2, <1>4 DEF Births!CanFund, Births!PopulationConstants, BooksTyped
<1>8. cash' \in [Cells -> Nat]
  BY <1>2, <1>6, <1>7
<1>9. BooksTyped'
  BY <1>2, <1>4, <1>8 DEF Births!Born, BooksTyped
<1>10. QED
  BY <1>5, <1>9, TypePartsNext

\* What a Cell earns, spends and predicts keeps the books' types.
LEMMA BooksStayTyped ==
  ASSUME Births!PopulationConstants, Births!TypeOK, NEW c \in Cells,
         \/ Births!Commit(c) \/ \E consumed \in BOOLEAN : Births!Resolve(c, consumed)
         \/ Births!Sell(c) \/ Births!Refund(c) \/ Births!ReleaseHold(c)
         \/ Births!cmd_resolve_prediction(c)
         \/ Births!ReclaimSettledEstate(c)
  PROVE  Births!TypeOK'
<1>1. PeopleTyped /\ BooksTyped /\ DeathsTyped
  BY TypeParts
<1>2. ASSUME Births!Commit(c) PROVE BooksTyped'
  BY <1>1, <1>2 DEF Births!Commit, BooksTyped
<1>3. ASSUME NEW consumed \in BOOLEAN, Births!Resolve(c, consumed) PROVE BooksTyped'
  BY <1>1, <1>3 DEF Births!Resolve, BooksTyped
<1>4. ASSUME Births!Sell(c) PROVE BooksTyped'
  BY <1>1, <1>4 DEF Births!Sell, BooksTyped
<1>5. ASSUME Births!Refund(c) PROVE BooksTyped'
  BY <1>1, <1>5 DEF Births!Refund, BooksTyped
<1>6. ASSUME Births!ReleaseHold(c) PROVE BooksTyped'
  BY <1>1, <1>6 DEF Births!ReleaseHold, BooksTyped
<1>7. ASSUME Births!cmd_resolve_prediction(c) PROVE BooksTyped'
  BY <1>1, <1>7
  DEF Births!cmd_resolve_prediction, Births!ResolvePrediction, BooksTyped
<1>8. ASSUME Births!ReclaimSettledEstate(c) PROVE BooksTyped'
  <2>1. Births!CashAfter(c) \in [Cells -> Nat]
    BY EvictionTypes
  <2>2. QED
    BY <1>1, <1>8, <2>1 DEF Births!ReclaimSettledEstate, BooksTyped
<1>9. UNCHANGED <<Births!people, running, Births!deaths>>
  BY DEF Births!Commit, Births!Resolve, Births!Sell, Births!Refund,
         Births!ReleaseHold, Births!cmd_resolve_prediction,
         Births!ResolvePrediction, Births!ReclaimSettledEstate
<1>10. QED
  BY <1>1, <1>2, <1>3, <1>4, <1>5, <1>6, <1>7, <1>8, <1>9, UnchangedTyped,
     TypePartsNext

\* A death, decided on before, keeps the types of what it writes.
LEMMA KillTyped ==
  ASSUME Births!PopulationConstants, Births!TypeOK, NEW c \in Cells,
         NEW why \in Births!Findings \cup {"negative_ev"}, Births!Kill(c, why)
  PROVE  Births!TypeOK'
<1>1. PeopleTyped /\ BooksTyped /\ DeathsTyped
  BY TypeParts
<1>2. Births!CashAfter(c) \in [Cells -> Nat] /\ Births!RunningAfter(c) \subseteq Cells
  BY EvictionTypes
<1>3. PeopleTyped'
  BY <1>1 DEF Births!Kill, Births!Dead, PeopleTyped, Births!Statuses
<1>4. BooksTyped'
  BY <1>1, <1>2 DEF Births!Kill, BooksTyped
<1>5. DeathsTyped'
  BY <1>1, <1>2
  DEF Births!Kill, Births!Bury, DeathsTyped, Births!Causes, Births!Findings
<1>6. QED
  BY <1>3, <1>4, <1>5, TypePartsNext

\* Every step of the colony keeps the columns' types.
LEMMA ColonyTyped ==
  ASSUME Births!PopulationConstants, Births!TypeOK, [Births!Next]_(Births!vars)
  PROVE  Births!TypeOK'
<1>1. PeopleTyped /\ BooksTyped /\ DeathsTyped
  BY TypeParts
<1>2. ASSUME NEW c \in Cells, Births!CellStep(c) PROVE Births!TypeOK'
  <2>1. ASSUME \/ Births!Sleep(c) \/ Births!Wake(c) \/ Births!Quarantine(c)
               \/ Births!ClearQuarantine(c)
        PROVE  Births!TypeOK'
    <3>1. PICK target \in {"alive", "dormant", "quarantined"} :
            /\ life' = [life EXCEPT ![c] = target]
            /\ UNCHANGED <<epoch, order, founder, bornIn, Births!books, running,
                           Births!deaths>>
      BY <2>1
      DEF Births!Sleep, Births!Wake, Births!Quarantine, Births!ClearQuarantine,
          Births!Transition
    <3>2. PeopleTyped'
      BY <1>1, <3>1 DEF PeopleTyped, Births!Statuses
    <3>3. QED
      BY <1>1, <3>1, <3>2, UnchangedTyped, TypePartsNext
  <2>2. ASSUME Births!cmd_start_experiment(c) \/ Births!cmd_conclude_experiment(c)
        PROVE  Births!TypeOK'
    <3>1. /\ running' \subseteq Cells
          /\ UNCHANGED <<Births!people, Births!books, Births!deaths>>
      BY <1>1, <2>2
      DEF Births!cmd_start_experiment, Births!cmd_conclude_experiment,
          Births!StartExperiment, Births!ConcludeExperiment, DeathsTyped
    <3>2. DeathsTyped'
      BY <1>1, <3>1
      DEF DeathsTyped, Births!deaths, Births!Causes, Births!Findings
    <3>3. QED
      BY <1>1, <3>1, <3>2, UnchangedTyped, TypePartsNext
  <2>3. ASSUME Births!cmd_reap(c) PROVE Births!TypeOK'
    <3>1. /\ Births!Finding(c) \in Births!Causes
          /\ warrants' = warrants \cup {<<c, Births!Finding(c)>>}
          /\ UNCHANGED <<Births!people, Births!books, running, signed, cause>>
      BY <2>3 DEF Births!cmd_reap, Births!Find, Births!Finding, Births!Causes,
                  Births!Findings
    <3>2. DeathsTyped'
      BY <1>1, <3>1 DEF DeathsTyped, Births!Causes, Births!Findings
    <3>3. QED
      BY <1>1, <3>1, <3>2, UnchangedTyped, TypePartsNext
  <2>4. ASSUME NEW a \in Cells, Births!Concur(c, a) PROVE Births!TypeOK'
    <3>1. /\ signed' = signed \cup {<<c, a>>}
          /\ warrants' = warrants \cup {<<c, "negative_ev">>}
          /\ UNCHANGED <<Births!people, Births!books, running, cause>>
      BY <2>4 DEF Births!Concur
    <3>2. DeathsTyped'
      BY <1>1, <3>1 DEF DeathsTyped, Births!Causes, Births!Findings
    <3>3. QED
      BY <1>1, <3>1, <3>2, UnchangedTyped, TypePartsNext
  <2>5. QED
    BY <1>2, <2>1, <2>2, <2>3, <2>4, CreateTyped, ReproduceTyped, BooksStayTyped,
       KillTyped
    DEF Births!CellStep
<1>3. ASSUME Births!TurnEpoch PROVE Births!TypeOK'
  <2>1. PeopleTyped'
    BY <1>1, <1>3 DEF Births!TurnEpoch, PeopleTyped, Births!Statuses,
                      Births!PopulationConstants
  <2>2. QED
    BY <1>1, <1>3, <2>1, UnchangedTyped, TypePartsNext DEF Births!TurnEpoch
<1>4. ASSUME NEW w \in warrants, Births!Crash(w) PROVE Births!TypeOK'
  <2>1. DeathsTyped'
    BY <1>1, <1>4 DEF Births!Crash, DeathsTyped, Births!Causes, Births!Findings
  <2>2. QED
    BY <1>1, <1>4, <2>1, UnchangedTyped, TypePartsNext DEF Births!Crash
<1>5. ASSUME UNCHANGED Births!vars PROVE Births!TypeOK'
  BY <1>1, <1>5, UnchangedTyped, TypePartsNext DEF Births!vars
<1>6. QED
  BY <1>2, <1>3, <1>4, <1>5 DEF Births!Next

-----------------------------------------------------------------------------
(* Births fit, and slots are held by the living. *)

\* How a birth changes who lives, and who was born when.
LEMMA BornEffect ==
  ASSUME Births!PopulationConstants, Births!TypeOK, BornByNow,
         NEW c \in Cells, life[c] = "unborn", NEW f, NEW displacer, NEW exclude,
         NEW v \in Births!BirthLicence(displacer, exclude), Births!Born(c, f, v)
  PROVE  /\ c \notin Births!Living(Births!After(v))
         /\ Births!Living(life') = Births!Living(Births!After(v)) \cup {c}
         /\ {d \in Births!Range(order') : bornIn'[d] = epoch}
              \subseteq Births!BirthsInEpoch \cup {c}
         /\ \A e \in 0 .. epoch - 1 :
              {d \in Births!Range(order') : bornIn'[d] = e}
                \subseteq {d \in Births!Range(order) : bornIn[d] = e}
<1>1. v \in Cells \cup {NoCell} /\ v # c
  BY LicenceTypes, LicenceMeans DEF Births!Living, Births!PopulationConstants
<1>2. /\ Births!After(v) \in [Cells -> Births!Statuses]
      /\ Births!After(v)[c] = "unborn"
  BY <1>1, EvictionTypes
<1>3. c \notin Births!Living(Births!After(v))
  BY <1>2 DEF Births!Living
<1>4. life' = [Births!After(v) EXCEPT ![c] = "alive"]
  BY DEF Births!Born
<1>5. Births!Living(life') = Births!Living(Births!After(v)) \cup {c}
  BY <1>2, <1>4 DEF Births!Living
<1>6. order' = Append(order, c) /\ bornIn' = [bornIn EXCEPT ![c] = epoch]
  BY DEF Births!Born
<1>7. order \in Seq(Cells) /\ bornIn \in [Cells -> 0 .. MaxEpoch]
  BY TypeParts DEF PeopleTyped
<1>8. /\ Births!Range(order) \subseteq Cells
      /\ Births!Range(order') = Births!Range(order) \cup {c}
  <2>1. /\ Len(order') = Len(order) + 1 /\ Len(order) \in Nat
        /\ DOMAIN order = 1 .. Len(order) /\ DOMAIN order' = 1 .. Len(order')
        /\ \A i \in 1 .. Len(order) : order'[i] = order[i] /\ order[i] \in Cells
        /\ order'[Len(order) + 1] = c
    BY <1>6, <1>7
  <2>2. DOMAIN order' = DOMAIN order \cup {Len(order) + 1}
    BY <2>1
  <2>3. QED
    BY <2>1, <2>2 DEF Births!Range
<1>9. /\ bornIn'[c] = epoch /\ epoch \notin 0 .. epoch - 1
      /\ \A d \in Cells \ {c} : bornIn'[d] = bornIn[d]
  BY <1>6, <1>7, TypeParts DEF PeopleTyped
<1>10. QED
  BY <1>3, <1>5, <1>8, <1>9 DEF Births!BirthsInEpoch

\* A licensed birth keeps the caps and the slots.
LEMMA BirthFits ==
  ASSUME Births!PopulationConstants, ColonyInv, Births!TypeOK',
         NEW c \in Cells, life[c] = "unborn", NEW f, NEW displacer, NEW exclude,
         NEW v \in Births!BirthLicence(displacer, exclude), Births!Born(c, f, v)
  PROVE  ColonyInv'
<1>1. /\ Cardinality(Births!BirthsInEpoch) < MaxBirths
      /\ Cardinality(Births!Living(Births!After(v))) < MaxLiving
      /\ MaxBirths \in Nat /\ MaxLiving \in Nat /\ epoch \in Nat /\ epoch' = epoch
      /\ Births!TypeOK /\ BornByNow
  BY LicenceMeans, TypeParts
  DEF ColonyInv, Births!PopulationConstants, Births!Born, PeopleTyped
<1>2. /\ c \notin Births!Living(Births!After(v))
      /\ Births!Living(life') = Births!Living(Births!After(v)) \cup {c}
      /\ {d \in Births!Range(order') : bornIn'[d] = epoch}
           \subseteq Births!BirthsInEpoch \cup {c}
      /\ \A e \in 0 .. epoch - 1 :
           {d \in Births!Range(order') : bornIn'[d] = e}
             \subseteq {d \in Births!Range(order) : bornIn[d] = e}
  BY <1>1, BornEffect
<1>3. Cardinality(Births!Living(life')) <= MaxLiving
  <2>1. Births!Living(Births!After(v)) \subseteq Cells
    BY DEF Births!Living
  <2>2. /\ IsFiniteSet(Births!Living(Births!After(v)))
        /\ Cardinality(Births!Living(Births!After(v))) \in Nat
    BY <2>1, CellsFinite
  <2>3. QED
    BY <1>1, <1>2, <2>2, FS_AddElement
<1>4. ASSUME NEW e \in 0 .. epoch
      PROVE  Cardinality({d \in Births!Range(order') : bornIn'[d] = e}) <= MaxBirths
  <2> DEFINE now == {d \in Births!Range(order') : bornIn'[d] = e}
             before == {d \in Births!Range(order) : bornIn[d] = e}
  <2>1. before \subseteq Cells /\ Births!BirthsInEpoch \subseteq Cells
    BY <1>1, TypeParts DEF Births!BirthsInEpoch, Births!Range, PeopleTyped
  <2>2. /\ IsFiniteSet(before) /\ Cardinality(before) <= MaxBirths
        /\ Cardinality(before) \in Nat
    BY <2>1, CellsFinite, SameCounts DEF ColonyInv, Births!BirthsFit
  <2>3. /\ IsFiniteSet(Births!BirthsInEpoch \cup {c})
        /\ Cardinality(Births!BirthsInEpoch \cup {c}) <= MaxBirths
    BY <1>1, <2>1, CellsFinite, FS_AddElement
  <2>4. CASE e = epoch
    <3>1. now \subseteq Births!BirthsInEpoch \cup {c}
      BY <1>2, <2>4
    <3> HIDE DEF now, before
    <3>2. /\ Cardinality(now) <= Cardinality(Births!BirthsInEpoch \cup {c})
          /\ Cardinality(now) \in Nat
          /\ Cardinality(Births!BirthsInEpoch \cup {c}) \in Nat
      BY <2>3, <3>1, FS_Subset, FS_CardinalityType
    <3>3. Cardinality(now) <= MaxBirths
      BY <1>1, <2>3, <3>2
    <3>4. QED
      BY <3>3 DEF now
  <2>5. CASE e # epoch
    <3>1. now \subseteq before
      BY <1>1, <1>2, <2>5
    <3> HIDE DEF now, before
    <3>2. Cardinality(now) <= Cardinality(before) /\ Cardinality(now) \in Nat
      BY <2>2, <3>1, FS_Subset, FS_CardinalityType
    <3>3. Cardinality(now) <= MaxBirths
      BY <1>1, <2>2, <3>2
    <3>4. QED
      BY <3>3 DEF now
  <2>6. QED
    BY <2>4, <2>5
<1>5. Births!BirthsFit'
  BY <1>1, <1>3, <1>4, SameCounts DEF Births!BirthsFit
<1>6. Births!SlotsAreHeldByTheLiving'
  <2>1. /\ running' = running \ {v} /\ running \subseteq Births!Living(life)
        /\ Cardinality(running) <= MaxParallel /\ MaxParallel \in Nat
    BY SameCounts
    DEF Births!Born, Births!Bury, Births!RunningAfter, ColonyInv,
        Births!SlotsAreHeldByTheLiving, Births!PopulationConstants
  <2>2. \A d \in Cells \ {v} : Births!After(v)[d] = life[d]
    BY <1>1, LicenceTypes, EvictionTypes
  <2>3. running' \subseteq Births!Living(life')
    BY <1>2, <2>1, <2>2 DEF Births!Living
  <2>4. running \subseteq Cells
    BY <2>1 DEF Births!Living
  <2>5. /\ Cardinality(running') <= Cardinality(running)
        /\ Cardinality(running') \in Nat /\ Cardinality(running) \in Nat
    BY <2>1, <2>4, CellsFinite, FS_Subset
  <2>6. QED
    BY <2>1, <2>3, <2>5, SameCounts DEF Births!SlotsAreHeldByTheLiving
<1>7. BornByNow'
  <2>1. bornIn' = [bornIn EXCEPT ![c] = epoch] /\ bornIn \in [Cells -> 0 .. MaxEpoch]
    BY <1>1, TypeParts DEF Births!Born, PeopleTyped
  <2>2. QED
    BY <1>1, <2>1 DEF BornByNow
<1>8. EstimatesAreSigned'
  BY DEF ColonyInv, EstimatesAreSigned, Births!Born
<1>9. QED
  BY <1>5, <1>6, <1>7, <1>8 DEF ColonyInv

\* A step without a birth keeps the invariant if what runs is alive after it
\* and what it means to kill on an estimate is signed for.
LEMMA NoBirth ==
  ASSUME Births!PopulationConstants, ColonyInv, Births!TypeOK',
         epoch' \in {epoch, epoch + 1}, UNCHANGED <<order, bornIn>>,
         Births!Living(life') \subseteq Births!Living(life),
         running' \subseteq Births!Living(life'), Cardinality(running') <= MaxParallel,
         EstimatesAreSigned'
  PROVE  ColonyInv'
<1>1. PeopleTyped /\ BornByNow /\ MaxLiving \in Nat /\ MaxBirths \in Nat
  BY TypeParts DEF ColonyInv, Births!PopulationConstants
<1>2. Cardinality(Births!Living(life')) <= MaxLiving
  <2>1. Births!Living(life) \subseteq Cells
    BY DEF Births!Living
  <2>2. /\ Cardinality(Births!Living(life)) <= MaxLiving
        /\ IsFiniteSet(Births!Living(life)) /\ Cardinality(Births!Living(life)) \in Nat
    BY <2>1, CellsFinite, SameCounts DEF ColonyInv, Births!BirthsFit
  <2>3. /\ Cardinality(Births!Living(life')) <= Cardinality(Births!Living(life))
        /\ Cardinality(Births!Living(life')) \in Nat
    BY <2>2, FS_Subset, FS_CardinalityType
  <2>4. QED
    BY <1>1, <2>2, <2>3
<1>3. BornByNow'
  BY <1>1 DEF BornByNow, PeopleTyped
<1>4. ASSUME NEW e \in 0 .. epoch'
      PROVE  Cardinality({d \in Births!Range(order') : bornIn'[d] = e}) <= MaxBirths
  <2>1. CASE e \in 0 .. epoch
    BY <2>1, SameCounts DEF ColonyInv, Births!BirthsFit
  <2>2. CASE e \notin 0 .. epoch
    <3>1. \A d \in Cells : bornIn[d] # e
      BY <1>1, <1>4, <2>2 DEF BornByNow, PeopleTyped
    <3>2. Births!Range(order') \subseteq Cells
      BY <1>1 DEF Births!Range, PeopleTyped
    <3>3. {d \in Births!Range(order') : bornIn'[d] = e} = {}
      BY <3>1, <3>2
    <3>4. QED
      BY <1>1, <3>3, FS_EmptySet
  <2>3. QED
    BY <2>1, <2>2
<1>5. Births!BirthsFit'
  BY <1>2, <1>4, SameCounts DEF Births!BirthsFit
<1>6. Births!SlotsAreHeldByTheLiving'
  BY SameCounts DEF Births!SlotsAreHeldByTheLiving
<1>7. QED
  BY <1>3, <1>5, <1>6 DEF ColonyInv

\* The two births, as the lemmas above read them.
LEMMA BirthsAreBorn ==
  ASSUME Births!PopulationConstants, Births!TypeOK, NEW c \in Cells
  PROVE  /\ Births!cmd_create_cell(c) =>
              \E displacer \in BOOLEAN : \E v \in Births!BirthLicence(displacer, {}) :
                life[c] = "unborn" /\ Births!Born(c, c, v)
         /\ Births!cmd_reproduce(c) =>
              \E p \in Cells, displacer \in BOOLEAN :
                \E v \in Births!BirthLicence(displacer, {p}) :
                  /\ life[c] = "unborn" /\ Births!LineageLicensed(founder[p], v)
                  /\ founder[p] \in Cells /\ Births!Born(c, founder[p], v)
  BY DEF Births!cmd_create_cell, Births!CreateCell, Births!cmd_reproduce,
         Births!Reproduce, Births!TypeOK

\* Every step of the colony keeps its invariant.
LEMMA ColonyStep ==
  ASSUME Births!PopulationConstants, ColonyInv, [Births!Next]_(Births!vars)
  PROVE  ColonyInv'
<1>1. /\ Births!TypeOK /\ Births!TypeOK' /\ PeopleTyped /\ DeathsTyped
      /\ epoch \in Int /\ MaxParallel \in Nat
  BY ColonyTyped, TypeParts DEF ColonyInv, PeopleTyped, Births!PopulationConstants
<1>2. /\ running \subseteq Births!Living(life) /\ Cardinality(running) <= MaxParallel
      /\ running \subseteq Cells /\ EstimatesAreSigned
  BY <1>1, SameCounts DEF ColonyInv, Births!SlotsAreHeldByTheLiving, DeathsTyped
<1>3. ASSUME UNCHANGED <<order, bornIn, running, warrants, signed>>,
             epoch' \in {epoch, epoch + 1},
             Births!Living(life') = Births!Living(life)
      PROVE  ColonyInv'
  <2>1. EstimatesAreSigned'
    BY <1>2, <1>3 DEF EstimatesAreSigned
  <2>2. QED
    BY <1>1, <1>2, <1>3, <2>1, NoBirth
<1>4. ASSUME UNCHANGED <<epoch, order, bornIn, life, running>>, EstimatesAreSigned'
      PROVE  ColonyInv'
  BY <1>1, <1>2, <1>4, NoBirth
<1>5. ASSUME NEW c \in Cells, Births!CellStep(c) PROVE ColonyInv'
  <2>1. ASSUME Births!cmd_create_cell(c) \/ Births!cmd_reproduce(c) PROVE ColonyInv'
    <3>1. PICK f \in Cells, displacer \in BOOLEAN, exclude \in SUBSET Cells :
            \E v \in Births!BirthLicence(displacer, exclude) :
              life[c] = "unborn" /\ Births!Born(c, f, v)
      BY <1>1, <2>1, BirthsAreBorn
    <3>2. QED
      BY <1>1, <3>1, BirthFits
  <2>2. ASSUME \/ Births!Sleep(c) \/ Births!Wake(c) \/ Births!Quarantine(c)
               \/ Births!ClearQuarantine(c)
        PROVE  ColonyInv'
    <3>1. PICK target \in {"alive", "dormant", "quarantined"} :
            /\ life' = [life EXCEPT ![c] = target]
            /\ life[c] \in {"alive", "dormant", "quarantined"}
            /\ UNCHANGED <<epoch, order, founder, bornIn, running, Births!deaths>>
      BY <2>2
      DEF Births!Sleep, Births!Wake, Births!Quarantine, Births!ClearQuarantine,
          Births!Transition
    <3>2. Births!Living(life') = Births!Living(life)
      BY <1>1, <3>1 DEF Births!Living, PeopleTyped
    <3>3. QED
      BY <1>3, <3>1, <3>2 DEF Births!deaths
  <2>3. ASSUME \/ Births!Commit(c)
               \/ \E consumed \in BOOLEAN : Births!Resolve(c, consumed)
               \/ Births!Sell(c) \/ Births!Refund(c) \/ Births!ReleaseHold(c)
               \/ Births!cmd_resolve_prediction(c)
               \/ Births!ReclaimSettledEstate(c)
        PROVE  ColonyInv'
    <3>1. UNCHANGED <<Births!people, running, Births!deaths>>
      BY <2>3
      DEF Births!Commit, Births!Resolve, Births!Sell, Births!Refund,
          Births!ReleaseHold, Births!cmd_resolve_prediction,
          Births!ResolvePrediction, Births!ReclaimSettledEstate
    <3>2. QED
      BY <1>3, <3>1 DEF Births!people, Births!deaths
  <2>4. ASSUME Births!cmd_start_experiment(c) PROVE ColonyInv'
    <3>1. /\ life[c] = "alive" /\ ~(Cardinality(running) >= MaxParallel)
          /\ c \notin running /\ running' = running \cup {c}
          /\ UNCHANGED <<Births!people, Births!deaths>>
          /\ IsFiniteSet(running) /\ Cardinality(running) \in Nat
      BY <1>1, <1>2, <2>4, SameCounts, CellsFinite
      DEF Births!cmd_start_experiment, Births!StartExperiment, Births!RunningCount
    <3>2. running' \subseteq Births!Living(life')
      BY <1>2, <3>1 DEF Births!Living, Births!people
    <3>3. Cardinality(running') <= MaxParallel
      BY <1>1, <3>1, FS_AddElement
    <3>4. EstimatesAreSigned'
      BY <1>2, <3>1 DEF EstimatesAreSigned, Births!deaths
    <3>5. QED
      BY <1>1, <3>1, <3>2, <3>3, <3>4, NoBirth DEF Births!people
  <2>5. ASSUME Births!cmd_conclude_experiment(c) PROVE ColonyInv'
    <3>1. /\ running' = running \ {c} /\ UNCHANGED <<Births!people, Births!deaths>>
      BY <2>5 DEF Births!cmd_conclude_experiment, Births!ConcludeExperiment
    <3>2. /\ Cardinality(running') <= Cardinality(running)
          /\ Cardinality(running) \in Nat /\ Cardinality(running') \in Nat
      BY <1>2, <3>1, CellsFinite, FS_Subset
    <3>3. EstimatesAreSigned'
      BY <1>2, <3>1 DEF EstimatesAreSigned, Births!deaths
    <3>4. running' \subseteq Births!Living(life') /\ Cardinality(running') <= MaxParallel
      BY <1>1, <1>2, <3>1, <3>2 DEF Births!people
    <3>5. QED
      BY <1>1, <3>1, <3>3, <3>4, NoBirth DEF Births!people
  <2>6. ASSUME Births!cmd_reap(c) PROVE ColonyInv'
    <3>1. /\ Births!Finding(c) # "negative_ev"
          /\ warrants' = warrants \cup {<<c, Births!Finding(c)>>}
          /\ UNCHANGED <<Births!people, running, signed>>
      BY <2>6 DEF Births!cmd_reap, Births!Find, Births!Finding
    <3>2. EstimatesAreSigned'
      BY <1>2, <3>1 DEF EstimatesAreSigned
    <3>3. QED
      BY <1>4, <3>1, <3>2 DEF Births!people
  <2>7. ASSUME NEW a \in Cells, Births!Concur(c, a) PROVE ColonyInv'
    <3>1. /\ a \in Auditors \ {c} /\ signed' = signed \cup {<<c, a>>}
          /\ warrants' = warrants \cup {<<c, "negative_ev">>}
          /\ UNCHANGED <<Births!people, running>>
      BY <2>7 DEF Births!Concur, Births!MayConcur
    <3>2. EstimatesAreSigned'
      BY <1>2, <3>1 DEF EstimatesAreSigned
    <3>3. QED
      BY <1>4, <3>1, <3>2 DEF Births!people
  <2>8. ASSUME NEW why \in Births!Findings \cup {"negative_ev"}, Births!Kill(c, why)
        PROVE  ColonyInv'
    <3>1. /\ warrants' = warrants \ {<<c, why>>}
          /\ UNCHANGED <<epoch, order, bornIn, signed>>
          /\ \/ UNCHANGED <<life, running>>
             \/ /\ life' = [life EXCEPT ![c] = "dead"]
                /\ running' = running \ {c}
      BY <2>8 DEF Births!Kill, Births!Dead, Births!Bury, Births!RunningAfter
    <3>2. EstimatesAreSigned'
      BY <1>2, <3>1 DEF EstimatesAreSigned
    <3>3. CASE UNCHANGED <<life, running>>
      BY <1>4, <3>1, <3>2, <3>3
    <3>4. CASE life' = [life EXCEPT ![c] = "dead"] /\ running' = running \ {c}
      <4>1. Births!Living(life') = Births!Living(life) \ {c}
        BY <1>1, <3>4 DEF Births!Living, PeopleTyped
      <4>2. /\ Cardinality(running') <= Cardinality(running)
            /\ Cardinality(running) \in Nat /\ Cardinality(running') \in Nat
        BY <1>2, <3>4, CellsFinite, FS_Subset
      <4>3. running' \subseteq Births!Living(life')
        BY <1>2, <3>4, <4>1
      <4>4. Cardinality(running') <= MaxParallel
        BY <1>1, <1>2, <4>2
      <4>5. QED
        BY <1>1, <3>1, <3>2, <4>1, <4>3, <4>4, NoBirth
    <3>5. QED
      BY <3>1, <3>3, <3>4
  <2>9. QED
    BY <1>5, <2>1, <2>2, <2>3, <2>4, <2>5, <2>6, <2>7, <2>8 DEF Births!CellStep
<1>6. ASSUME Births!TurnEpoch PROVE ColonyInv'
  BY <1>3, <1>6 DEF Births!TurnEpoch, Births!deaths
<1>7. ASSUME NEW w \in warrants, Births!Crash(w) PROVE ColonyInv'
  <2>1. EstimatesAreSigned'
    BY <1>2, <1>7 DEF Births!Crash, EstimatesAreSigned
  <2>2. QED
    BY <1>4, <1>7, <2>1 DEF Births!Crash, Births!people
<1>8. ASSUME UNCHANGED Births!vars PROVE ColonyInv'
  BY <1>3, <1>8 DEF Births!vars, Births!people, Births!deaths
<1>9. QED
  BY <1>5, <1>6, <1>7, <1>8 DEF Births!Next

\* A colony starts with nobody in it.
LEMMA ColonyInit ==
  ASSUME Births!PopulationConstants, Births!Init PROVE ColonyInv
<1>1. Births!TypeOK
  BY DEF Births!Init, Births!TypeOK, Births!Statuses, Births!Causes,
         Births!Findings, Births!Unscored, Births!PopulationConstants
<1>2. BornByNow /\ EstimatesAreSigned
  BY DEF Births!Init, BornByNow, EstimatesAreSigned
<1>3. Births!Living(life) = {} /\ running = {} /\ order = <<>>
  BY DEF Births!Init, Births!Living
<1>4. Births!Range(order) = {}
  BY <1>3 DEF Births!Range
<1>5. Births!BirthsFit
  <2>1. \A e : {c \in Births!Range(order) : bornIn[c] = e} = {}
    BY <1>4
  <2>2. MaxLiving \in Nat /\ MaxBirths \in Nat /\ Births!Cardinality({}) = 0
    BY SameCounts, FS_EmptySet DEF Births!PopulationConstants
  <2>3. QED
    BY <1>3, <2>1, <2>2 DEF Births!BirthsFit
<1>6. Births!SlotsAreHeldByTheLiving
  BY <1>3, SameCounts, FS_EmptySet
  DEF Births!SlotsAreHeldByTheLiving, Births!PopulationConstants
<1>7. QED
  BY <1>1, <1>2, <1>5, <1>6 DEF ColonyInv

\* So the invariant always holds.
LEMMA ColonyAlways ==
  ASSUME Births!PopulationConstants PROVE Births!Spec => []ColonyInv
<1>1. Births!Init => ColonyInv
  BY ColonyInit
<1>2. ColonyInv /\ [Births!Next]_(Births!vars) => ColonyInv'
  BY ColonyStep
<1>3. QED
  BY <1>1, <1>2, PTL DEF Births!Spec

\* The columns of Population keep their types: no Cell pays what it has not, and
\* every status, cause and record is one the code knows.
THEOREM ColonyTypeCorrect ==
  ASSUME Births!PopulationConstants PROVE Births!Spec => []Births!TypeOK
<1>1. ColonyInv => Births!TypeOK
  BY DEF ColonyInv
<1>2. QED
  BY <1>1, ColonyAlways, PTL

\* Whatever races, evicts and fails, the colony never outgrows its limit and no
\* epoch sees more births than it may (population.check_birth_licence).
THEOREM BirthsAlwaysFit ==
  ASSUME Births!PopulationConstants PROVE Births!Spec => []Births!BirthsFit
<1>1. ColonyInv => Births!BirthsFit
  BY DEF ColonyInv
<1>2. QED
  BY <1>1, ColonyAlways, PTL

\* Deaths of every kind give their slots back (experiments.ExperimentCoroner).
THEOREM SlotsAlwaysHeld ==
  ASSUME Births!PopulationConstants
  PROVE  Births!Spec => []Births!SlotsAreHeldByTheLiving
<1>1. ColonyInv => Births!SlotsAreHeldByTheLiving
  BY DEF ColonyInv
<1>2. QED
  BY <1>1, ColonyAlways, PTL

-----------------------------------------------------------------------------
(* What a birth leaves of the lineages, and what a death must answer for. *)

\* Only a birth makes a Cell that was not there, and it makes one.
LEMMA WhoIsBorn ==
  ASSUME Births!PopulationConstants, Births!TypeOK, [Births!Next]_(Births!vars),
         NEW c \in Cells, Births!NewlyBorn(c)
  PROVE  Births!cmd_create_cell(c) \/ Births!cmd_reproduce(c)
<1>1. life[c] = "unborn" /\ life'[c] # "unborn" /\ PeopleTyped
  BY TypeParts DEF Births!NewlyBorn
<1>2. ASSUME NEW d \in Cells, Births!CellStep(d)
      PROVE  Births!cmd_create_cell(c) \/ Births!cmd_reproduce(c)
  <2>1. ASSUME NEW f, NEW displacer, NEW exclude,
               NEW v \in Births!BirthLicence(displacer, exclude), Births!Born(d, f, v)
        PROVE  d = c
    <3>1. v \in Cells \cup {NoCell} /\ v # c
      BY <1>1, LicenceTypes, LicenceMeans DEF Births!Living, Births!PopulationConstants
    <3>2. /\ Births!After(v) \in [Cells -> Births!Statuses]
          /\ Births!After(v)[c] = "unborn"
      BY <1>1, <3>1, EvictionTypes
    <3>3. QED
      BY <1>1, <2>1, <3>2 DEF Births!Born
  <2>2. CASE Births!cmd_create_cell(d) \/ Births!cmd_reproduce(d)
    <3>1. \E f, displacer, exclude :
            \E v \in Births!BirthLicence(displacer, exclude) : Births!Born(d, f, v)
      BY <2>2, BirthsAreBorn
    <3>2. d = c
      BY <2>1, <3>1
    <3>3. QED
      BY <2>2, <3>2
  <2>3. CASE \/ Births!Sleep(d) \/ Births!Wake(d) \/ Births!Quarantine(d)
             \/ Births!ClearQuarantine(d)
    <3>1. PICK target \in {"alive", "dormant", "quarantined"} :
            /\ life' = [life EXCEPT ![d] = target]
            /\ life[d] \in {"alive", "dormant", "quarantined"}
      BY <2>3
      DEF Births!Sleep, Births!Wake, Births!Quarantine, Births!ClearQuarantine,
          Births!Transition
    <3>2. QED
      BY <1>1, <3>1 DEF PeopleTyped
  <2>4. CASE \E why \in Births!Findings \cup {"negative_ev"} : Births!Kill(d, why)
    <3>1. \/ UNCHANGED life
          \/ d \in Births!Living(life) /\ life' = [life EXCEPT ![d] = "dead"]
      BY <2>4 DEF Births!Kill, Births!Dead
    <3>2. QED
      BY <1>1, <3>1 DEF PeopleTyped, Births!Living
  <2>5. UNCHANGED life =>
          Births!cmd_create_cell(c) \/ Births!cmd_reproduce(c)
    BY <1>1
  <2>6. CASE \/ Births!Commit(d)
             \/ \E consumed \in BOOLEAN : Births!Resolve(d, consumed)
             \/ Births!Sell(d) \/ Births!Refund(d) \/ Births!ReleaseHold(d)
             \/ Births!cmd_resolve_prediction(d)
             \/ Births!ReclaimSettledEstate(d)
             \/ Births!cmd_start_experiment(d) \/ Births!cmd_conclude_experiment(d)
             \/ Births!cmd_reap(d) \/ \E a \in Cells : Births!Concur(d, a)
    BY <2>5, <2>6
    DEF Births!Commit, Births!Resolve, Births!Sell, Births!Refund,
        Births!ReleaseHold, Births!cmd_resolve_prediction,
        Births!ResolvePrediction, Births!ReclaimSettledEstate,
        Births!cmd_start_experiment, Births!StartExperiment,
        Births!cmd_conclude_experiment, Births!ConcludeExperiment,
        Births!cmd_reap, Births!Find, Births!Concur, Births!people
  <2>7. QED
    BY <1>2, <2>2, <2>3, <2>4, <2>6 DEF Births!CellStep
<1>3. UNCHANGED life => Births!cmd_create_cell(c) \/ Births!cmd_reproduce(c)
  BY <1>1
<1>4. QED
  BY <1>2, <1>3
  DEF Births!Next, Births!TurnEpoch, Births!Crash, Births!vars, Births!people

\* A child's lineage keeps to its share of the colony the child is born into.
LEMMA ChildKeepsTheShare ==
  ASSUME Births!PopulationConstants, ColonyInv, [Births!Next]_(Births!vars),
         NEW c \in Cells, Births!NewlyBorn(c), founder'[c] # c
  PROVE  100 * Cardinality({d \in Births!Living(life') : founder'[d] = founder'[c]})
           <= LineageShare * Cardinality(Births!Living(life'))
<1>1. Births!TypeOK /\ BornByNow /\ PeopleTyped
  BY TypeParts DEF ColonyInv
<1>2. ~Births!cmd_create_cell(c)
  BY <1>1, BirthsAreBorn DEF Births!Born, PeopleTyped
<1>3. PICK p \in Cells, displacer \in BOOLEAN :
        \E v \in Births!BirthLicence(displacer, {p}) :
          /\ life[c] = "unborn" /\ Births!LineageLicensed(founder[p], v)
          /\ founder[p] \in Cells /\ Births!Born(c, founder[p], v)
  BY <1>1, <1>2, WhoIsBorn, BirthsAreBorn
<1> DEFINE f == founder[p]
<1>4. PICK v \in Births!BirthLicence(displacer, {p}) :
        /\ life[c] = "unborn" /\ Births!LineageLicensed(f, v)
        /\ f \in Cells /\ Births!Born(c, f, v)
  BY <1>3
<1> DEFINE living == Births!Living(Births!After(v))
           lineage == Births!Lineage(Births!After(v), f)
<1>5. c \notin living /\ Births!Living(life') = living \cup {c}
  BY <1>1, <1>4, BornEffect
<1>6. founder' = [founder EXCEPT ![c] = f] /\ founder'[c] = f
  BY <1>1, <1>4 DEF Births!Born, PeopleTyped
<1>7. {d \in Births!Living(life') : founder'[d] = founder'[c]} = lineage \cup {c}
  BY <1>1, <1>5, <1>6 DEF Births!Lineage, Births!Living, PeopleTyped
<1>8. 100 * (Cardinality(lineage) + 1) <= LineageShare * (Cardinality(living) + 1)
  BY <1>4, SameCounts DEF Births!LineageLicensed
<1>9. /\ living \subseteq Cells /\ lineage \subseteq Cells /\ c \notin lineage
  BY <1>5 DEF Births!Living, Births!Lineage
<1> HIDE DEF f, living, lineage
<1>10. /\ Cardinality(living \cup {c}) = Cardinality(living) + 1
       /\ Cardinality(lineage \cup {c}) = Cardinality(lineage) + 1
  BY <1>5, <1>9, CellsFinite, FS_AddElement
<1>11. QED
  BY <1>5, <1>7, <1>8, <1>10

\* A death answers for what it is called: an eviction made room for a birth by
\* one Cell that was failing and had nothing in flight, and an estimate was
\* signed by another.
LEMMA DeathIsAccountable ==
  ASSUME Births!PopulationConstants, ColonyInv, [Births!Next]_(Births!vars),
         NEW v \in Cells, Births!NewlyDead(v)
  PROVE  /\ cause'[v] = "displaced" =>
              /\ \E c \in Cells : Births!NewlyBorn(c)
              /\ \A d \in Cells \ {v} : ~Births!NewlyDead(d)
              /\ Births!Finding(v) # "none" /\ committed[v] = 0
         /\ cause'[v] = "negative_ev" =>
              \E a \in Auditors \ {v} : <<v, a>> \in signed
<1> DEFINE Goal ==
      /\ cause'[v] = "displaced" =>
           /\ \E c \in Cells : Births!NewlyBorn(c)
           /\ \A d \in Cells \ {v} : ~Births!NewlyDead(d)
           /\ Births!Finding(v) # "none" /\ committed[v] = 0
      /\ cause'[v] = "negative_ev" =>
           \E a \in Auditors \ {v} : <<v, a>> \in signed
<1>1. /\ life[v] # "dead" /\ life'[v] = "dead" /\ Births!TypeOK
      /\ PeopleTyped /\ DeathsTyped /\ EstimatesAreSigned
  BY TypeParts DEF Births!NewlyDead, ColonyInv
<1>2. ASSUME NEW c \in Cells, Births!CellStep(c) PROVE Goal
  <2>1. CASE Births!cmd_create_cell(c) \/ Births!cmd_reproduce(c)
    <3>1. PICK f, displacer, exclude :
            \E w \in Births!BirthLicence(displacer, exclude) :
              life[c] = "unborn" /\ Births!Born(c, f, w)
      BY <1>1, <2>1, BirthsAreBorn
    <3>2. PICK w \in Births!BirthLicence(displacer, exclude) :
            life[c] = "unborn" /\ Births!Born(c, f, w)
      BY <3>1
    <3>3. /\ w \in Cells \cup {NoCell}
          /\ w # NoCell => Births!Finding(w) # "none" /\ committed[w] = 0
      BY <1>1, LicenceTypes, LicenceMeans
    <3>4. /\ Births!After(w) \in [Cells -> Births!Statuses]
          /\ \A d \in Cells \ {w} : Births!After(w)[d] = life[d]
          /\ life' = [Births!After(w) EXCEPT ![c] = "alive"]
      BY <1>1, <3>2, <3>3, EvictionTypes DEF Births!Born
    <3>5. /\ v = w /\ v # NoCell
          /\ \A d \in Cells \ {v} : ~Births!NewlyDead(d)
      BY <1>1, <3>4 DEF Births!NewlyDead, Births!PopulationConstants
    <3>6. Births!NewlyBorn(c)
      BY <3>2, <3>4 DEF Births!NewlyBorn
    <3>7. cause' = [cause EXCEPT ![v] = "displaced"]
      BY <3>2, <3>5 DEF Births!Born, Births!Bury
    <3>8. cause'[v] = "displaced"
      BY <1>1, <3>7 DEF DeathsTyped
    <3>9. QED
      BY <3>3, <3>5, <3>6, <3>8
  <2>2. CASE \E why \in Births!Findings \cup {"negative_ev"} : Births!Kill(c, why)
    <3>1. PICK why \in Births!Findings \cup {"negative_ev"} : Births!Kill(c, why)
      BY <2>2
    <3>2. c \in Births!Living(life) /\ life' = [life EXCEPT ![c] = "dead"] /\ v = c
      BY <1>1, <3>1 DEF Births!Kill, Births!Dead, PeopleTyped
    <3>3. cause' = [cause EXCEPT ![c] = why] /\ <<c, why>> \in warrants
      BY <3>1, <3>2 DEF Births!Kill, Births!Bury, Births!PopulationConstants
    <3>4. cause'[v] = why /\ why # "displaced"
      BY <1>1, <3>2, <3>3 DEF DeathsTyped, Births!Findings
    <3>5. QED
      BY <1>1, <3>2, <3>3, <3>4 DEF EstimatesAreSigned
  <2>3. CASE \/ Births!Sleep(c) \/ Births!Wake(c) \/ Births!Quarantine(c)
             \/ Births!ClearQuarantine(c)
    <3>1. PICK target \in {"alive", "dormant", "quarantined"} :
            life' = [life EXCEPT ![c] = target]
      BY <2>3
      DEF Births!Sleep, Births!Wake, Births!Quarantine, Births!ClearQuarantine,
          Births!Transition
    <3>2. QED
      BY <1>1, <3>1 DEF PeopleTyped
  <2>4. CASE \/ Births!Commit(c)
             \/ \E consumed \in BOOLEAN : Births!Resolve(c, consumed)
             \/ Births!Sell(c) \/ Births!Refund(c) \/ Births!ReleaseHold(c)
             \/ Births!cmd_resolve_prediction(c)
             \/ Births!ReclaimSettledEstate(c)
             \/ Births!cmd_start_experiment(c) \/ Births!cmd_conclude_experiment(c)
             \/ Births!cmd_reap(c) \/ \E a \in Cells : Births!Concur(c, a)
    <3>1. UNCHANGED life
      BY <2>4
      DEF Births!Commit, Births!Resolve, Births!Sell, Births!Refund,
          Births!ReleaseHold, Births!cmd_resolve_prediction,
          Births!ResolvePrediction, Births!ReclaimSettledEstate,
          Births!cmd_start_experiment, Births!StartExperiment,
          Births!cmd_conclude_experiment, Births!ConcludeExperiment,
          Births!cmd_reap, Births!Find, Births!Concur, Births!people
    <3>2. QED
      BY <1>1, <3>1
  <2>5. QED
    BY <1>2, <2>1, <2>2, <2>3, <2>4 DEF Births!CellStep
<1>3. UNCHANGED life => Goal
  BY <1>1
<1> HIDE DEF Goal
<1>4. Goal
  BY <1>2, <1>3
  DEF Births!Next, Births!TurnEpoch, Births!Crash, Births!vars, Births!people
<1>5. QED
  BY <1>4 DEF Goal

\* A child never leaves its lineage with more than its share of the colony,
\* whatever was evicted for it (lineage.check_lineage_licence).
THEOREM ChildrenAlwaysKeepTheShare ==
  ASSUME Births!PopulationConstants
  PROVE  Births!Spec => Births!ChildrenKeepTheShare
<1> DEFINE Share ==
      \A c \in Cells : Births!NewlyBorn(c) /\ founder'[c] # c =>
        100 * Births!Cardinality({d \in Births!Living(life') :
                                    founder'[d] = founder'[c]})
          <= LineageShare * Births!Cardinality(Births!Living(life'))
<1>1. ColonyInv /\ [Births!Next]_(Births!vars) => [Share]_(Births!vars)
  BY ChildKeepsTheShare, SameCounts
<1>2. QED
  BY <1>1, ColonyAlways, PTL DEF Births!Spec, Births!ChildrenKeepTheShare

\* No death is for nothing: an eviction and a death on an estimate each answer
\* for themselves (displacement.candidates, death.kill_for_negative_ev).
THEOREM DeathsAlwaysAccountable ==
  ASSUME Births!PopulationConstants
  PROVE  Births!Spec => Births!DeathsAreAccountable
<1> DEFINE Accountable ==
      \A v \in Cells : Births!NewlyDead(v) =>
        /\ cause'[v] = "displaced" =>
             /\ \E c \in Cells : Births!NewlyBorn(c)
             /\ \A d \in Cells \ {v} : ~Births!NewlyDead(d)
             /\ Births!Finding(v) # "none" /\ committed[v] = 0
        /\ cause'[v] = "negative_ev" =>
             \E a \in Auditors \ {v} : <<v, a>> \in signed
<1>1. ColonyInv /\ [Births!Next]_(Births!vars) => [Accountable]_(Births!vars)
  BY DeathIsAccountable
<1>2. QED
  BY <1>1, ColonyAlways, PTL DEF Births!Spec, Births!DeathsAreAccountable

-----------------------------------------------------------------------------
(* FlightSimulator beside both: a run has a colony of its own. *)
CONSTANTS Arms, Drills, Founders, Epochs, Slots, FloodLimit, ShiftAt, MinTries,
          TopNiches, Fraction, Sliver, Calls, Segments, Offers, Styles, Prices, Noise,
          MaxBorn

VARIABLES arm, drill, phase, status, failures, born, births, member, genome,
          sliver, made, autopromotion, pending, flagged, granted, decided, rows,
          served, tried, wins, gain, parents, ahead

Run == INSTANCE FlightSimulator WITH Population <- Founders, cell <- member

-----------------------------------------------------------------------------
(* FlightSimulator. *)

\* Again, how many there are does not depend on who counts.
LEMMA SameCountsInARun == \A S : Run!Cardinality(S) = Cardinality(S)
  BY DEF Run!Cardinality, Cardinality

Genomes == [market : Int \cup Segments, offer : Offers, price : Int \cup Prices,
            style : Styles]

Requests == Run!Cells \X (0 .. Epochs)

RunTyped ==
  /\ epoch \in 0 .. Epochs
  /\ born \in Int /\ member \in [Run!Cells -> {"unborn", "alive", "dead"}]
  /\ genome \in [Run!Cells -> Genomes]
  /\ sliver \in [Run!Cells -> Nat] /\ made \in [Run!Cells -> Nat]
  /\ pending \subseteq Requests /\ flagged \subseteq Requests
  /\ decided \subseteq Requests
  /\ running \in SUBSET Run!Cells
  /\ rows \in Nat /\ served \in [Run!Cells -> 0 .. rows]
  /\ ahead \in [Run!Cells -> SUBSET Run!Cells]

\* Whoever lives has what is left of the sliver after the calls it has made,
EveryCallIsPaid == \A c \in Run!Alive : sliver[c] + made[c] = Sliver

\* so while something is left it has been given a grant before the slots are,
EveryoneHasAsked ==
  autopromotion =>
    /\ phase = "reviewing" =>
         \A c \in Run!Alive : made[c] < Sliver => <<c, epoch>> \in granted \cup flagged
    /\ phase = "starting" =>
         \A c \in Run!Alive : made[c] < Sliver => <<c, epoch>> \in granted

\* and who has gone ahead of somebody had an experiment after them.
AheadCameLater ==
  \A d \in Run!Cells : \A c \in ahead[d] : served[d] < served[c]

RunInv == RunTyped /\ EveryCallIsPaid /\ EveryoneHasAsked /\ AheadCameLater

\* A Cell that is born has the whole sliver and has made no call.
LEMMA BornFunded ==
  ASSUME Run!FlightSimulatorConstants, RunTyped, EveryCallIsPaid,
         NEW c, NEW f, NEW content \in Genomes, Run!Birth(c, f, content)
  PROVE  /\ member' \in [Run!Cells -> {"unborn", "alive", "dead"}]
         /\ genome' \in [Run!Cells -> Genomes]
         /\ sliver' \in [Run!Cells -> Nat] /\ made' \in [Run!Cells -> Nat]
         /\ EveryCallIsPaid'
<1>1. /\ member' = [member EXCEPT ![c] = "alive"]
      /\ genome' = [genome EXCEPT ![c] = content]
      /\ sliver' = [sliver EXCEPT ![c] = Sliver]
      /\ made' = [made EXCEPT ![c] = 0]
  BY DEF Run!Birth, Run!FundEligibility, Run!Funded
<1>2. Sliver \in Nat
  BY DEF Run!FlightSimulatorConstants
<1>3. EveryCallIsPaid'
  <2>1. SUFFICES ASSUME NEW d \in Run!Cells, member'[d] = "alive"
                 PROVE  sliver'[d] + made'[d] = Sliver
    BY DEF EveryCallIsPaid, Run!Alive
  <2>2. CASE d = c
    BY <1>1, <1>2, <2>2 DEF RunTyped
  <2>3. CASE d # c
    BY <1>1, <2>1, <2>3 DEF RunTyped, EveryCallIsPaid, Run!Alive
  <2>4. QED
    BY <2>2, <2>3
<1>4. /\ member' \in [Run!Cells -> {"unborn", "alive", "dead"}]
      /\ genome' \in [Run!Cells -> Genomes]
  BY <1>1 DEF RunTyped
<1>5. sliver' \in [Run!Cells -> Nat] /\ made' \in [Run!Cells -> Nat]
  BY <1>1, <1>2 DEF RunTyped
<1>6. QED
  BY <1>3, <1>4, <1>5

\* Whatever is drawn is a genome.
LEMMA FoundersWhole ==
  ASSUME Run!FlightSimulatorConstants, NEW i \in Int
  PROVE  Run!FounderGenome(i) \in Genomes
BY DEF Run!FlightSimulatorConstants, Run!FounderGenome, Genomes

LEMMA VariationsWhole ==
  ASSUME NEW g \in Genomes, NEW h \in Run!Variations(g)
  PROVE  h \in Genomes
<1>1. CASE h \in Run!MarketVariations(g)
  BY <1>1 DEF Run!MarketVariations, Genomes
<1>2. CASE h \in Run!OfferVariations(g)
  BY <1>2 DEF Run!OfferVariations, Genomes
<1>3. CASE h \in Run!StyleVariations(g)
  BY <1>3 DEF Run!StyleVariations, Genomes
<1>4. CASE h \in Run!PriceVariations(g)
  BY <1>4 DEF Run!PriceVariations, Genomes
<1>5. QED
  BY <1>1, <1>2, <1>3, <1>4 DEF Run!Variations

\* What a Cell's wakes cost it is a number, and no more than it has: who has
\* something left after them had enough for all of them.
LEMMA CallsCounted ==
  ASSUME Run!FlightSimulatorConstants, RunTyped, NEW c \in Run!Cells
  PROVE  /\ Run!CallsMade(c) \in Nat /\ Run!CallsMade(c) <= sliver[c]
         /\ Run!CallsMade(c) < sliver[c] => Run!DecisionCalls(c) < sliver[c]
<1> DEFINE n == Run!Cardinality({q \in decided : q[1] = c})
           k == Run!CallsPerWake(c)
<1>1. n \in Nat
  <2>1. IsFiniteSet(Run!Cells \X (0 .. Epochs))
    <3>1. IsFiniteSet(1 .. MaxBorn) /\ IsFiniteSet(0 .. Epochs)
      BY FS_Interval DEF Run!FlightSimulatorConstants
    <3>2. QED
      BY <3>1, FS_Product DEF Run!Cells
  <2>2. {q \in decided : q[1] = c} \subseteq Run!Cells \X (0 .. Epochs)
    BY DEF RunTyped, Requests
  <2>3. QED
    BY <2>1, <2>2, FS_Subset, FS_CardinalityType, SameCountsInARun
<1>2. k \in 1 .. 3
  BY DEF RunTyped, Genomes, Run!CallsPerWake, Run!FlightSimulatorConstants
<1>3. Run!DecisionCalls(c) = k * n
  BY DEF Run!DecisionCalls
<1> HIDE DEF n, k
<1>4. k * n \in Nat
  BY <1>1, <1>2
<1>5. sliver[c] \in Nat
  BY DEF RunTyped
<1>6. Run!CallsMade(c) = IF Run!DecisionCalls(c) + k < sliver[c]
                         THEN Run!DecisionCalls(c) + k ELSE sliver[c]
  BY DEF Run!CallsMade, k
<1>7. QED
  BY <1>2, <1>3, <1>4, <1>5, <1>6

-----------------------------------------------------------------------------
(* The order in which the slots are given out. *)

LEMMA StartableFinite ==
  ASSUME Run!FlightSimulatorConstants, RunTyped, NEW S \in SUBSET Run!Startable
  PROVE  IsFiniteSet(S) /\ Cardinality(S) \in Nat /\ S \subseteq Run!Cells
<1>1. IsFiniteSet(1 .. MaxBorn)
  BY FS_Interval DEF Run!FlightSimulatorConstants
<1>2. S \subseteq 1 .. MaxBorn
  BY DEF Run!Startable, Run!Alive, Run!Cells
<1>3. QED
  BY <1>1, <1>2, FS_Subset, FS_CardinalityType DEF Run!Cells

\* Who comes before has the lower place.
LEMMA PlacesInOrder ==
  ASSUME Run!FlightSimulatorConstants, RunTyped,
         NEW c \in Run!Startable, NEW d \in Run!Startable, Run!Before(c, d)
  PROVE  Run!SlotOrder(c) < Run!SlotOrder(d)
<1> DEFINE before(x) == {e \in Run!Startable : Run!Before(e, x)}
<1>1. Run!Startable \subseteq Run!Cells /\ \A x \in Run!Cells : x \in Int /\ served[x] \in Int
  <2>1. \A x \in Run!Cells : x \in Int /\ served[x] \in Int
    BY DEF RunTyped, Run!Cells, Run!FlightSimulatorConstants
  <2>2. QED
    BY <2>1, StartableFinite
<1>2. \A e \in Run!Startable : Run!Before(e, c) => Run!Before(e, d)
  BY <1>1 DEF Run!Before
<1>3. c \notin before(c) /\ c \in before(d) /\ before(c) \subseteq before(d)
  BY <1>1, <1>2 DEF Run!Before
<1>4. /\ IsFiniteSet(before(d))
      /\ Cardinality(before(c)) \in Nat /\ Cardinality(before(d)) \in Nat
  <2>1. before(c) \in SUBSET Run!Startable /\ before(d) \in SUBSET Run!Startable
    OBVIOUS
  <2> HIDE DEF before
  <2>2. QED
    BY <2>1, StartableFinite
<1>5. Run!SlotOrder(c) = Cardinality(before(c)) /\ Run!SlotOrder(d) = Cardinality(before(d))
  BY SameCountsInARun DEF Run!SlotOrder
<1> HIDE DEF before
<1>6. Cardinality(before(c)) < Cardinality(before(d))
  BY <1>3, <1>4, FS_Subset
<1>7. QED
  BY <1>5, <1>6

\* One of two comes before the other, and a place is a number.
LEMMA PlacesDiffer ==
  ASSUME Run!FlightSimulatorConstants, RunTyped
  PROVE  /\ \A c \in Run!Startable : Run!SlotOrder(c) \in Nat /\ ~Run!Before(c, c)
         /\ \A c, d \in Run!Startable : c = d \/ Run!Before(c, d) \/ Run!Before(d, c)
<1>1. Run!Startable \subseteq Run!Cells /\ \A x \in Run!Cells : x \in Int /\ served[x] \in Int
  <2>1. \A x \in Run!Cells : x \in Int /\ served[x] \in Int
    BY DEF RunTyped, Run!Cells, Run!FlightSimulatorConstants
  <2>2. QED
    BY <2>1, StartableFinite
<1>2. ASSUME NEW c \in Run!Startable PROVE Run!SlotOrder(c) \in Nat
  <2>1. {e \in Run!Startable : Run!Before(e, c)} \in SUBSET Run!Startable
    OBVIOUS
  <2>2. QED
    BY <2>1, StartableFinite, SameCountsInARun DEF Run!SlotOrder
<1>3. QED
  BY <1>1, <1>2 DEF Run!Before

\* How many run is a number.
LEMMA RunningCounted ==
  ASSUME Run!FlightSimulatorConstants, RunTyped PROVE Run!Cardinality(running) \in Nat
<1>1. IsFiniteSet(1 .. MaxBorn)
  BY FS_Interval DEF Run!FlightSimulatorConstants
<1>2. QED
  BY <1>1, FS_Subset, FS_CardinalityType, SameCountsInARun DEF RunTyped, Run!Cells

\* Who gets a slot came before everyone who does not.
LEMMA NobodyJumps ==
  ASSUME Run!FlightSimulatorConstants, RunTyped,
         NEW c \in Run!Lucky, NEW d \in Run!Startable \ Run!Lucky
  PROVE  served[c] <= served[d]
<1>1. /\ c \in Run!Startable /\ d \in Run!Startable /\ c # d
      /\ Run!Cardinality(running) + Run!SlotOrder(c) < Slots
      /\ ~ (Run!Cardinality(running) + Run!SlotOrder(d) < Slots)
  BY DEF Run!Lucky
<1>2. /\ Run!SlotOrder(c) \in Nat /\ Run!SlotOrder(d) \in Nat
      /\ Run!Cardinality(running) \in Nat /\ Slots \in Nat
  BY <1>1, PlacesDiffer, RunningCounted DEF Run!FlightSimulatorConstants
<1>3. ~ (Run!SlotOrder(d) < Run!SlotOrder(c))
  BY <1>1, <1>2
<1>4. Run!Before(c, d)
  BY <1>1, <1>3, PlacesDiffer, PlacesInOrder
<1>5. c \in Run!Cells /\ d \in Run!Cells
  BY <1>1 DEF Run!Startable, Run!Alive
<1>6. served[c] \in Nat /\ served[d] \in Nat
  BY <1>5 DEF RunTyped
<1>7. QED
  BY <1>4, <1>6 DEF Run!Before

\* The places of those who get one are the first.
LEMMA PlacesAreRows ==
  ASSUME Run!FlightSimulatorConstants, RunTyped, NEW c \in Run!Lucky
  PROVE  /\ Run!Cardinality(Run!Lucky) \in Nat
         /\ Run!SlotOrder(c) \in 0 .. Run!Cardinality(Run!Lucky) - 1
<1> DEFINE before == {e \in Run!Startable : Run!Before(e, c)}
<1>1. c \in Run!Startable /\ Run!Lucky \in SUBSET Run!Startable
  BY DEF Run!Lucky
<1>2. ASSUME NEW e \in before PROVE e \in Run!Lucky \ {c}
  <2>1. e \in Run!Startable /\ Run!Before(e, c)
    OBVIOUS
  <2>2. Run!SlotOrder(e) < Run!SlotOrder(c)
    BY <1>1, <2>1, PlacesInOrder
  <2>3. /\ Run!SlotOrder(c) \in Nat /\ Run!SlotOrder(e) \in Nat
        /\ Run!Cardinality(running) \in Nat /\ Slots \in Nat
    BY <1>1, <2>1, PlacesDiffer, RunningCounted DEF Run!FlightSimulatorConstants
  <2>4. Run!Cardinality(running) + Run!SlotOrder(c) < Slots
    BY DEF Run!Lucky
  <2>5. Run!Cardinality(running) + Run!SlotOrder(e) < Slots
    BY <2>2, <2>3, <2>4
  <2>6. QED
    BY <1>1, <2>1, <2>5, PlacesDiffer DEF Run!Lucky
<1>3. Run!SlotOrder(c) = Cardinality(before)
  BY SameCountsInARun DEF Run!SlotOrder
<1> HIDE DEF before
<1>4. before \subseteq Run!Lucky /\ c \notin before
  BY <1>2
<1>5. /\ IsFiniteSet(Run!Lucky) /\ Cardinality(Run!Lucky) \in Nat
      /\ Cardinality(before) \in Nat
  BY <1>1, <1>4, StartableFinite
<1>6. Cardinality(before) < Cardinality(Run!Lucky)
  BY <1>4, <1>5, FS_Subset
<1>7. QED
  BY <1>3, <1>5, <1>6, SameCountsInARun

-----------------------------------------------------------------------------
(* The steps of a run. *)

\* Giving out the slots: who is passed over keeps its row, who is not has a new
\* one, below every row there was.
LEMMA StartingKeeps ==
  ASSUME Run!FlightSimulatorConstants, RunInv, Run!StartExperiments PROVE RunInv'
<1>1. /\ RunTyped /\ EveryCallIsPaid /\ AheadCameLater
      /\ Run!Lucky \subseteq Run!Startable /\ Run!Startable \subseteq Run!Cells
  BY DEF RunInv, Run!Lucky, Run!Startable, Run!Alive
<1>2. /\ running' = running \cup Run!Lucky
      /\ rows' = rows + Run!Cardinality(Run!Lucky)
      /\ served' = [c \in Run!Cells |-> IF c \in Run!Lucky THEN rows + 1 + Run!SlotOrder(c)
                                        ELSE served[c]]
      /\ ahead' = [c \in Run!Cells |-> IF c \in Run!Startable \ Run!Lucky
                                       THEN ahead[c] \cup Run!Lucky ELSE {}]
      /\ phase' = "evaluating"
      /\ UNCHANGED <<epoch, born, member, genome, sliver, made, pending, flagged, decided>>
  BY DEF Run!StartExperiments, Run!cells
<1>3. /\ Run!Cardinality(Run!Lucky) \in Nat
      /\ \A c \in Run!Lucky :
           Run!SlotOrder(c) \in 0 .. Run!Cardinality(Run!Lucky) - 1
  <2>1. Run!Cardinality(Run!Lucky) \in Nat
    BY <1>1, StartableFinite, SameCountsInARun
  <2>2. QED
    BY <1>1, <2>1, PlacesAreRows
<1>4. rows \in Nat /\ \A c \in Run!Cells : served[c] \in 0 .. rows
  BY <1>1 DEF RunTyped
<1>5. \A c \in Run!Cells :
        /\ c \in Run!Lucky => served'[c] \in rows + 1 .. rows'
        /\ c \notin Run!Lucky => served'[c] = served[c]
  BY <1>2, <1>3, <1>4
<1>6. RunTyped'
  <2>1. rows' \in Nat /\ rows <= rows'
    BY <1>2, <1>3, <1>4
  <2>2. served' \in [Run!Cells -> 0 .. rows']
    <3>1. \A c \in Run!Cells : served'[c] \in 0 .. rows'
      BY <1>4, <1>5, <2>1
    <3>2. QED
      BY <1>2, <3>1
  <2>3. ahead' \in [Run!Cells -> SUBSET Run!Cells]
    BY <1>1, <1>2 DEF RunTyped
  <2>4. QED
    BY <1>1, <1>2, <2>1, <2>2, <2>3 DEF RunTyped
<1>7. EveryCallIsPaid' /\ EveryoneHasAsked'
  BY <1>1, <1>2 DEF EveryCallIsPaid, EveryoneHasAsked, Run!Alive
<1>8. ASSUME NEW d \in Run!Cells, NEW c \in ahead'[d] PROVE served'[d] < served'[c]
  <2>1. d \in Run!Startable \ Run!Lucky /\ c \in ahead[d] \cup Run!Lucky /\ c \in Run!Cells
    BY <1>1, <1>2, <1>8 DEF RunTyped
  <2>2. served'[d] = served[d] /\ served[d] \in 0 .. rows
    BY <1>4, <1>5, <2>1
  <2>3. CASE c \in Run!Lucky
    BY <1>4, <1>5, <2>1, <2>2, <2>3
  <2>4. CASE c \notin Run!Lucky
    BY <1>1, <1>5, <2>1, <2>2, <2>4 DEF AheadCameLater
  <2>5. QED
    BY <2>3, <2>4
<1>9. QED
  BY <1>6, <1>7, <1>8 DEF RunInv, AheadCameLater

\* A step that leaves the slots alone: what each Cell has still pays for what it
\* may ask, and no step but the tick and the review comes to where a grant is.
LEMMA RunKeeps ==
  ASSUME RunInv, UNCHANGED <<rows, served, ahead>>, running' \subseteq running,
         epoch' \in 0 .. Epochs, born' \in Int,
         member' \in [Run!Cells -> {"unborn", "alive", "dead"}],
         genome' \in [Run!Cells -> Genomes],
         sliver' \in [Run!Cells -> Nat], made' \in [Run!Cells -> Nat],
         pending' \subseteq Requests, flagged' \subseteq Requests,
         decided' \subseteq Requests, EveryCallIsPaid', EveryoneHasAsked'
  PROVE  RunInv'
BY DEF RunInv, RunTyped, AheadCameLater, Requests, Genomes, Run!Cells

\* Neither does one that leaves the queue and the colony alone besides.
LEMMA RunRests ==
  ASSUME RunInv, running' \subseteq running, epoch' \in 0 .. Epochs,
         UNCHANGED <<rows, served, ahead, born, member, genome, sliver, made, pending,
                     flagged, decided>>,
         \/ phase' \notin {"reviewing", "starting"}
         \/ UNCHANGED <<phase, epoch, autopromotion, granted>>
  PROVE  RunInv'
<1>1. EveryCallIsPaid' /\ EveryoneHasAsked'
  BY DEF RunInv, EveryCallIsPaid, EveryoneHasAsked, Run!Alive
<1>2. QED
  BY <1>1, RunKeeps DEF RunInv, RunTyped

\* A tick asks for everyone who keeps something of its sliver, and approves what
\* is not flagged; a review approves what is.
LEMMA WakesArePaid ==
  ASSUME Run!FlightSimulatorConstants, RunInv, Run!RunWakes, UNCHANGED member
  PROVE  /\ sliver' \in [Run!Cells -> Nat] /\ made' \in [Run!Cells -> Nat]
         /\ EveryCallIsPaid'
<1>1. /\ RunTyped /\ EveryCallIsPaid
      /\ sliver' = [c \in Run!Cells |-> sliver[c] - Run!CallsMade(c)]
      /\ made' = [c \in Run!Cells |-> made[c] + Run!CallsMade(c)]
  BY DEF RunInv, Run!RunWakes
<1>2. ASSUME NEW c \in Run!Cells
      PROVE  /\ sliver'[c] \in Nat /\ made'[c] \in Nat
             /\ sliver'[c] + made'[c] = sliver[c] + made[c]
  BY <1>1, CallsCounted DEF RunTyped
<1>3. QED
  BY <1>1, <1>2 DEF EveryCallIsPaid, Run!Alive

LEMMA TickAsks ==
  ASSUME Run!FlightSimulatorConstants, RunInv, Run!Tick PROVE RunInv'
<1>1. /\ phase' = "reviewing"
      /\ UNCHANGED <<epoch, born, member, genome, autopromotion, rows, served, running, ahead>>
      /\ RunTyped /\ EveryCallIsPaid
  BY DEF Run!Tick, Run!slots, RunInv
<1>2. CASE Run!EligibleCells = {}
  <2>1. UNCHANGED <<sliver, made, pending, flagged, granted, decided>>
    BY <1>2 DEF Run!Tick, Run!queue
  <2>2. ASSUME NEW c \in Run!Alive PROVE ~ (made'[c] < Sliver)
    <3>1. sliver[c] \in Nat /\ made[c] \in Nat /\ sliver[c] + made[c] = Sliver
      BY <1>1 DEF RunTyped, EveryCallIsPaid, Run!Alive
    <3>2. ~ (sliver[c] > 0)
      BY <1>2 DEF Run!EligibleCells
    <3>3. QED
      BY <2>1, <3>1, <3>2
  <2>3. EveryCallIsPaid' /\ EveryoneHasAsked'
    BY <1>1, <2>1, <2>2 DEF EveryCallIsPaid, EveryoneHasAsked, Run!Alive
  <2>4. QED
    BY <1>1, <2>1, <2>3, RunKeeps DEF RunTyped
<1>3. CASE Run!EligibleCells # {}
  <2>1. Run!RunWakes
    BY <1>3 DEF Run!Tick
  <2>2. ASSUME autopromotion, NEW c \in Run!Alive, made'[c] < Sliver
        PROVE  <<c, epoch>> \in granted' \cup flagged'
    <3>1. c \in Run!Cells /\ sliver[c] \in Nat /\ made[c] \in Nat
          /\ sliver[c] + made[c] = Sliver
      BY <1>1 DEF RunTyped, EveryCallIsPaid, Run!Alive
    <3>2. made'[c] = made[c] + Run!CallsMade(c)
      BY <2>1, <3>1 DEF Run!RunWakes
    <3>3. /\ Run!CallsMade(c) \in Nat
          /\ Run!CallsMade(c) < sliver[c] => Run!DecisionCalls(c) < sliver[c]
      BY <1>1, <3>1, CallsCounted
    <3>4. Run!CallsMade(c) < sliver[c] /\ sliver[c] > 0
      BY <2>2, <3>1, <3>2, <3>3
    <3>5. sliver[c] > Run!DecisionCalls(c)
      <4>1. Run!DecisionCalls(c) < sliver[c]
        BY <3>3, <3>4
      <4>2. QED
        BY <4>1
    <3>6. <<c, epoch>> \in Run!Proposals
      BY <2>2, <3>4, <3>5 DEF Run!Proposals, Run!EligibleCells
    <3>7. QED
      BY <2>1, <2>2, <3>6 DEF Run!RunWakes
  <2>3. EveryoneHasAsked'
    BY <1>1, <2>2 DEF EveryoneHasAsked, Run!Alive
  <2>4. Run!Proposals \subseteq Requests
    BY <1>1 DEF Run!Proposals, Run!EligibleCells, Run!Alive, RunTyped, Requests
  <2>5. /\ pending' \subseteq Requests /\ flagged' \subseteq Requests
        /\ decided' \subseteq Requests
    BY <1>1, <2>1, <2>4 DEF Run!RunWakes, Run!ToWake, Run!Flooding, RunTyped
  <2>6. QED
    BY <1>1, <2>1, <2>3, <2>5, WakesArePaid, RunKeeps DEF RunTyped
<1>4. QED
  BY <1>2, <1>3

LEMMA ReviewGrants ==
  ASSUME RunInv, Run!Review PROVE RunInv'
<1>1. /\ phase = "reviewing" /\ phase' = "starting"
      /\ granted' = granted \cup flagged
      /\ UNCHANGED <<epoch, born, member, genome, sliver, made, autopromotion, rows, served,
                     running, ahead>>
  BY DEF Run!Review, Run!Reviewed, Run!cells, Run!slots
<1>2. EveryCallIsPaid' /\ EveryoneHasAsked'
  BY <1>1 DEF RunInv, EveryCallIsPaid, EveryoneHasAsked, Run!Alive
<1>3. /\ pending' \subseteq Requests /\ flagged' \subseteq Requests
      /\ decided' \subseteq Requests
  BY DEF Run!Review, Run!Reviewed, Run!ToWake, RunInv, RunTyped
<1>4. QED
  BY <1>1, <1>2, <1>3, RunKeeps DEF RunInv, RunTyped

\* A founder or a child comes, and elsewhere the colony is as it was.
LEMMA BirthKeeps ==
  ASSUME Run!FlightSimulatorConstants, RunInv,
         NEW c \in Int, NEW f, NEW content \in Genomes, Run!Birth(c, f, content),
         phase' \notin {"reviewing", "starting"},
         UNCHANGED <<epoch, rows, served, running, ahead, pending, flagged, decided>>
  PROVE  RunInv'
<1>1. RunTyped /\ EveryCallIsPaid /\ EveryoneHasAsked' /\ born' \in Int
  BY DEF RunInv, EveryoneHasAsked, Run!Birth
<1>2. QED
  BY <1>1, BornFunded, RunKeeps DEF RunTyped

\* Every step of a run keeps the invariant.
LEMMA RunStep ==
  ASSUME Run!FlightSimulatorConstants, RunInv, [Run!Next]_Run!vars PROVE RunInv'
<1>1. RunTyped /\ EveryCallIsPaid
  BY DEF RunInv
<1>2. CASE Run!Found
  <2>1. /\ phase' \notin {"reviewing", "starting"}
        /\ UNCHANGED <<epoch, rows, served, running, ahead, pending, flagged, decided>>
    BY <1>2 DEF Run!Found, Run!slots, Run!queue
  <2>2. CASE UNCHANGED Run!cells
    BY <1>1, <2>1, <2>2, RunRests DEF Run!cells, RunTyped
  <2>3. CASE Run!Birth(born + 1, born + 1, Run!FounderGenome(born))
    BY <1>1, <2>1, <2>3, FoundersWhole, BirthKeeps DEF RunTyped
  <2>4. QED
    BY <1>2, <2>2, <2>3 DEF Run!Found
<1>3. CASE Run!Tick
  BY <1>3, TickAsks
<1>4. CASE Run!Review
  BY <1>4, ReviewGrants
<1>5. CASE Run!StartExperiments
  BY <1>5, StartingKeeps
<1>6. CASE Run!EvaluateNext
  <2>1. /\ phase' \in {"evaluating", "selecting", "advancing"}
        /\ running' \subseteq running
        /\ UNCHANGED <<epoch, born, member, genome, sliver, made, rows, served, ahead,
                       pending, flagged, decided>>
    BY <1>6 DEF Run!EvaluateNext, Run!Evaluate, Run!FailEpoch, Run!queue
  <2>2. QED
    BY <1>1, <2>1, RunRests DEF RunTyped
<1>7. CASE Run!Select
  <2>1. /\ phase' = "reproducing"
        /\ UNCHANGED <<epoch, born, member, genome, sliver, made, rows, served, running,
                       ahead, pending, flagged, decided>>
    BY <1>7 DEF Run!Select, Run!cells, Run!slots, Run!queue
  <2>2. QED
    BY <1>1, <2>1, RunRests DEF RunTyped
<1>8. CASE Run!ReproduceNext
  <2>1. /\ phase' = "reproducing"
        /\ UNCHANGED <<epoch, rows, served, running, ahead, pending, flagged, decided>>
    BY <1>8 DEF Run!ReproduceNext, Run!slots, Run!queue
  <2>2. CASE UNCHANGED Run!cells
    BY <1>1, <2>1, <2>2, RunRests DEF Run!cells, RunTyped
  <2>3. ASSUME NEW c \in parents, Run!MayReproduce(c), Run!Reproduce(c) PROVE RunInv'
    <3>1. PICK content \in Run!Variations(genome[c]) :
            Run!Birth(born + 1, founder[c], content)
      BY <2>3 DEF Run!Reproduce
    <3>2. content \in Genomes
      BY <1>1, <2>3, <3>1, VariationsWhole DEF RunTyped, Run!MayReproduce, Run!Alive
    <3>3. QED
      BY <1>1, <2>1, <3>1, <3>2, BirthKeeps DEF RunTyped
  <2>4. QED
    BY <1>8, <2>2, <2>3 DEF Run!ReproduceNext
<1>9. CASE Run!Hook
  <2>1. /\ phase' = "advancing"
        /\ UNCHANGED <<epoch, rows, served, running, ahead, pending, flagged, decided>>
    BY <1>9 DEF Run!Hook, Run!slots, Run!queue
  <2>2. CASE UNCHANGED Run!cells
    BY <1>1, <2>1, <2>2, RunRests DEF Run!cells, RunTyped
  <2>3. CASE Run!Kill
    <3>1. /\ member' \in [Run!Cells -> {"unborn", "alive", "dead"}]
          /\ sliver' \in [Run!Cells -> Nat] /\ UNCHANGED <<born, genome, made>>
          /\ EveryCallIsPaid'
      BY <1>1, <2>3 DEF Run!Kill, RunTyped, EveryCallIsPaid, Run!Alive
    <3>2. EveryoneHasAsked'
      BY <2>1 DEF EveryoneHasAsked
    <3>3. QED
      BY <1>1, <2>1, <3>1, <3>2, RunKeeps DEF RunTyped
  <2>4. QED
    BY <1>9, <2>2, <2>3 DEF Run!Hook, Run!Withdraw
<1>10. CASE Run!Advance
  <2>1. /\ phase' \in {"ticking", "done"}
        /\ UNCHANGED <<born, member, genome, sliver, made, rows, served, running, ahead,
                       pending, flagged, decided>>
    BY <1>10 DEF Run!Advance, Run!slots, Run!queue
  <2>2. epoch' \in 0 .. Epochs
    BY <1>1, <1>10 DEF Run!Advance, RunTyped, Run!FlightSimulatorConstants
  <2>3. QED
    BY <1>1, <2>1, <2>2, RunRests DEF RunTyped
<1>11. CASE UNCHANGED Run!vars
  <2>1. UNCHANGED <<epoch, phase, born, member, genome, sliver, made, autopromotion, pending,
                    granted, flagged, decided, rows, served, running, ahead>>
    BY <1>11 DEF Run!vars, Run!cells, Run!queue, Run!slots
  <2>2. QED
    BY <1>1, <2>1, RunRests DEF RunTyped
<1>12. QED
  BY <1>2, <1>3, <1>4, <1>5, <1>6, <1>7, <1>8, <1>9, <1>10, <1>11 DEF Run!Next

LEMMA RunStarts == ASSUME Run!FlightSimulatorConstants, Run!Init PROVE RunInv
<1>1. Run!Unborn \in Genomes
  BY DEF Run!FlightSimulatorConstants, Run!Unborn, Genomes
<1>2. RunTyped
  BY <1>1 DEF Run!FlightSimulatorConstants, Run!Init, RunTyped
<1>3. EveryCallIsPaid /\ EveryoneHasAsked /\ AheadCameLater
  BY DEF Run!Init, EveryCallIsPaid, EveryoneHasAsked, AheadCameLater, Run!Alive
<1>4. QED
  BY <1>2, <1>3 DEF RunInv

LEMMA RunAlways ==
  ASSUME Run!FlightSimulatorConstants PROVE Run!Spec => []RunInv
<1>1. Run!Init => RunInv
  BY RunStarts
<1>2. RunInv /\ [Run!Next]_Run!vars => RunInv'
  BY RunStep
<1>3. QED
  BY <1>1, <1>2, PTL DEF Run!Spec

\* However large its lineage, and whatever drills and failed epochs came before,
\* whoever lives has an experiment to run when the slots are given out, until it
\* has made as many calls as its one-off funding pays for
\* (runner._fund_scheduler_eligibility, _review_flood_flagged_experiments).
THEOREM EveryCellAlwaysMayExperiment ==
  ASSUME Run!FlightSimulatorConstants
  PROVE  Run!Spec => []Run!EveryCellMayExperiment
<1>1. ASSUME RunInv PROVE Run!EveryCellMayExperiment
  BY <1>1 DEF RunInv, RunTyped, EveryoneHasAsked, Run!EveryCellMayExperiment,
              Run!Startable, Run!Alive
<1>2. QED
  BY <1>1, RunAlways, PTL

\* The slots go round among any number of Cells, and for any number of slots
\* (runner._grants_in_slot_order).
THEOREM NobodyEverOvertakenTwice ==
  ASSUME Run!FlightSimulatorConstants
  PROVE  Run!Spec => Run!NobodyIsOvertakenTwice
<1> DEFINE Fair ==
      \A c \in running' \ running, d \in Run!Alive :
        d \notin running' /\ d \in Run!Startable => c \notin ahead[d]
<1>1. ASSUME RunInv, [Run!Next]_Run!vars PROVE Fair
  <2>1. SUFFICES ASSUME NEW c \in running' \ running, NEW d \in Run!Alive,
                        d \notin running', d \in Run!Startable, c \in ahead[d]
                 PROVE  FALSE
    OBVIOUS
  <2>2. Run!StartExperiments
    BY <1>1, <2>1 DEF Run!Next, Run!vars, Run!slots, Run!Found, Run!Tick, Run!Review,
       Run!EvaluateNext, Run!Evaluate, Run!FailEpoch, Run!Select, Run!ReproduceNext,
       Run!Hook, Run!Advance
  <2>3. c \in Run!Lucky /\ d \in Run!Startable \ Run!Lucky
    BY <2>1, <2>2 DEF Run!StartExperiments
  <2>4. served[c] <= served[d] /\ c \in Run!Cells /\ d \in Run!Cells
    BY <1>1, <2>3, NobodyJumps DEF RunInv, Run!Lucky, Run!Startable, Run!Alive
  <2>5. served[d] < served[c] /\ served[c] \in Nat /\ served[d] \in Nat
    BY <1>1, <2>1, <2>4 DEF RunInv, RunTyped, AheadCameLater
  <2>6. QED
    BY <2>4, <2>5
<1>2. QED
  BY <1>1, RunAlways, PTL DEF Run!Spec, Run!NobodyIsOvertakenTwice
=============================================================================
