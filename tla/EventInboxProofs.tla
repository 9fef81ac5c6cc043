-------------------------- MODULE EventInboxProofs --------------------------
(***************************************************************************)
(* The inbox and the outbox, for any number of events, Cells, workers and  *)
(* dispatchers: types, the isolation of dead letters and the order of      *)
(* delivery; and, when one worker runs as in the CLI, that effects are     *)
(* applied once per key and that the inbox delivers what it promises.      *)
(***************************************************************************)
EXTENDS EventInbox, SumTheorems, SequenceTheorems

-----------------------------------------------------------------------------
(* Enumerating a finite set of rows in order. *)

Increasing(s) == \A i, j \in DOMAIN s : i < j => s[i] < s[j]

\* A set of naturals that is not empty has a least element.
LEMMA LeastExists ==
  ASSUME NEW S, IsFiniteSet(S), S \subseteq Nat, S # {}
  PROVE  \E m \in S : \A x \in S : m <= x
<1> DEFINE HasLeast(T) == T # {} => \E m \in T : \A x \in T : m <= x
           Good == {T \in SUBSET S : HasLeast(T)}
<1>1. ASSUME NEW T \in SUBSET S, \A U \in SUBSET T : U # T => U \in Good
      PROVE  T \in Good
  <2>1. CASE T = {}
    BY <2>1
  <2>2. CASE T # {}
    <3>1. PICK x \in T : TRUE
      BY <2>2
    <3>2. T \ {x} \in SUBSET T /\ T \ {x} # T
      BY <3>1
    <3>3. HasLeast(T \ {x})
      BY <1>1, <3>2
    <3>4. CASE T \ {x} = {}
      BY <3>1, <3>4
    <3>5. CASE T \ {x} # {}
      <4>1. PICK m \in T \ {x} : \A y \in T \ {x} : m <= y
        BY <3>3, <3>5
      <4>2. m \in Nat /\ x \in Nat /\ \A y \in T : y \in Nat
        BY <3>1, <4>1
      <4>3. CASE x <= m
        <5>1. \A y \in T : x <= y
          BY <4>1, <4>2, <4>3
        <5>2. QED
          BY <3>1, <5>1
      <4>4. CASE ~(x <= m)
        <5>1. \A y \in T : m <= y
          BY <4>1, <4>2, <4>4
        <5>2. QED
          BY <4>1, <5>1
      <4>5. QED
        BY <4>3, <4>4
    <3>6. QED
      BY <3>4, <3>5
  <2>3. QED
    BY <2>1, <2>2
<1> HIDE DEF Good
<1>2. S \in Good
  BY <1>1, SubsetInduction
<1>3. QED
  BY <1>2 DEF Good

\* A finite set of naturals can be listed in increasing order.
LEMMA OrderExists ==
  ASSUME NEW S, IsFiniteSet(S), S \subseteq Nat
  PROVE  \E s \in [1 .. Cardinality(S) -> S] : Increasing(s)
<1> DEFINE Listed(T) == \E s \in [1 .. Cardinality(T) -> T] : Increasing(s)
           Good == {T \in SUBSET S : Listed(T)}
<1>1. ASSUME NEW T \in SUBSET S, \A U \in SUBSET T : U # T => U \in Good
      PROVE  T \in Good
  <2>1. IsFiniteSet(T) /\ T \subseteq Nat
    BY FS_Subset
  <2>2. CASE T = {}
    <3>1. Cardinality(T) = 0
      BY <2>2, FS_EmptySet
    <3>2. [i \in 1 .. 0 |-> 0] \in [1 .. Cardinality(T) -> T]
      BY <3>1
    <3>3. Increasing([i \in 1 .. 0 |-> 0])
      BY DEF Increasing
    <3>4. QED
      BY <3>2, <3>3
  <2>3. CASE T # {}
    <3>1. PICK m \in T : \A x \in T : m <= x
      BY <2>1, <2>3, LeastExists
    <3> DEFINE U == T \ {m}
               n == Cardinality(U)
    <3>2. U \in SUBSET T /\ U # T
      BY <3>1
    <3>3. PICK s \in [1 .. n -> U] : Increasing(s)
      BY <1>1, <3>2
    <3>4. n \in Nat /\ Cardinality(T) = n + 1
      <4>1. IsFiniteSet(U) /\ Cardinality(U) = Cardinality(T) - 1
        BY <2>1, <3>1, FS_RemoveElement
      <4>2. n \in Nat /\ Cardinality(T) \in Nat
        BY <2>1, <4>1, FS_CardinalityType
      <4>3. QED
        BY <4>1, <4>2
    <3>5. \A x \in U : m < x /\ x \in T /\ x \in Nat
      BY <2>1, <3>1
    <3> HIDE DEF n, U
    <3> DEFINE t == [i \in 1 .. (n + 1) |-> IF i = 1 THEN m ELSE s[i - 1]]
    <3>6. t \in [1 .. (n + 1) -> T]
      BY <3>1, <3>3, <3>4, <3>5
    <3>7. ASSUME NEW i \in 1 .. (n + 1), NEW j \in 1 .. (n + 1), i < j
          PROVE  t[i] < t[j]
      <4>1. j - 1 \in 1 .. n /\ t[j] = s[j - 1] /\ s[j - 1] \in U
        BY <3>3, <3>4, <3>7
      <4>2. CASE i = 1
        BY <3>5, <4>1, <4>2
      <4>3. CASE i # 1
        <5>1. i - 1 \in 1 .. n /\ t[i] = s[i - 1] /\ i - 1 < j - 1
          BY <3>4, <3>7, <4>3
        <5>2. QED
          BY <3>3, <4>1, <5>1 DEF Increasing
      <4>4. QED
        BY <4>2, <4>3
    <3>8. Increasing(t)
      BY <3>6, <3>7 DEF Increasing
    <3>9. QED
      BY <3>4, <3>6, <3>8
  <2>4. QED
    BY <2>2, <2>3
<1> HIDE DEF Good
<1>2. S \in Good
  BY <1>1, SubsetInduction
<1>3. QED
  BY <1>2 DEF Good

\* What a dispatcher reads is every row it selects, in rowid order.
LEMMA InOrderLists ==
  ASSUME NEW S, IsFiniteSet(S), S \subseteq Nat
  PROVE  /\ InOrder(S) \in [1 .. Cardinality(S) -> S] /\ InOrder(S) \in Seq(S)
         /\ S # {} => InOrder(S) # <<>>
         /\ Increasing(InOrder(S))
         /\ \A x \in S : \E i \in DOMAIN InOrder(S) : InOrder(S)[i] = x
<1> DEFINE n == Cardinality(S)
           s == InOrder(S)
<1>1. s \in [1 .. n -> S] /\ Increasing(s)
  BY OrderExists DEF InOrder, Increasing
<1>2. n \in Nat
  BY FS_CardinalityType
<1>3. IsFiniteSet(1 .. n) /\ Cardinality(1 .. n) = n
  BY <1>2, FS_Interval
<1> HIDE DEF n, s
<1>4. ASSUME NEW i \in 1 .. n, NEW j \in 1 .. n, s[i] = s[j] PROVE i = j
  <2>1. s[i] \in Nat /\ s[j] \in Nat
    BY <1>1
  <2>2. ~(i < j) /\ ~(j < i)
    BY <1>1, <1>4, <2>1 DEF Increasing
  <2>3. QED
    BY <1>2, <2>2
<1>5. s \in Injection(1 .. n, S)
  BY <1>1, <1>4 DEF Injection, IsInjective
<1>6. s \in Surjection(1 .. n, S)
  BY <1>3, <1>5, FS_Injection DEF n
<1>7. s \in Seq(S)
  BY <1>1, <1>2
<1>8. \A x \in S : \E i \in DOMAIN s : s[i] = x
  BY <1>1, <1>6 DEF Surjection
<1>9. S # {} => s # <<>>
  <2>1. s = <<>> => DOMAIN s = {}
    OBVIOUS
  <2>2. QED
    BY <1>8, <2>1
<1>10. QED
  BY <1>1, <1>7, <1>8, <1>9 DEF n, s

-----------------------------------------------------------------------------
(* Types. *)

EventRows == [status : InboxStatuses \cup {"absent"}, attempts : Nat]
OutboxRows == [event : Events, published : BOOLEAN]
Jobs == {Free} \cup [at : {"delivered", "failed"}, event : Events]

\* A dispatcher sleeps, or has rows of an outbox of n rows to publish.
DispatcherTyped(p, n) ==
  \/ p = Asleep
  \/ p \in [at : {"publish", "mark"}, rows : Seq(1 .. n)] /\ p.rows # <<>>

TablesTyped ==
  /\ inbox \in [Events -> EventRows]
  /\ cell \in [Cells -> CellStatuses]
  /\ producer \in [Events -> {"new", "looked", "done"}]
  /\ worker \in [Workers -> Jobs]
  /\ applied \in [Events -> Nat]
  /\ replays \in 0 .. MaxReplays

OutboxTyped ==
  /\ outbox \in Seq(OutboxRows)
  /\ delivered \subseteq 1 .. Len(outbox)
  /\ DOMAIN dispatcher = Dispatchers
  /\ \A d \in Dispatchers : DispatcherTyped(dispatcher[d], Len(outbox))

\* The types of the inbox's tables and of the outbox's.
LEMMA TypesSplit == TablesTyped /\ OutboxTyped => TypeOK
<1>1. outbox \in Seq(OutboxRows) => DOMAIN outbox = 1 .. Len(outbox)
  BY LenProperties
<1>2. QED
  BY <1>1 DEF TypeOK, TablesTyped, OutboxTyped, EventRows, OutboxRows, Jobs,
              DispatcherTyped

\* The inbox's tables keep their types.
LEMMA TablesStep == TablesTyped /\ [Next]_vars => TablesTyped'
<1> SUFFICES ASSUME TablesTyped, [Next]_vars PROVE TablesTyped'
  OBVIOUS
<1> USE DEF TablesTyped
<1>1. ASSUME NEW e \in Events, LookUpKey(e) PROVE TablesTyped'
  BY <1>1 DEF LookUpKey
<1>2. ASSUME NEW e \in Events, Enqueue(e) PROVE TablesTyped'
  <2>1. inbox' \in [Events -> EventRows]
    BY <1>2 DEF Enqueue, EventRows, InboxStatuses
  <2>2. QED
    BY <1>2, <2>1 DEF Enqueue
<1>3. ASSUME NEW e \in Events, ReplayDeadLetter(e) PROVE TablesTyped'
  <2>1. inbox' \in [Events -> EventRows]
    BY <1>3 DEF ReplayDeadLetter, EventRows, InboxStatuses
  <2>2. replays' \in 0 .. MaxReplays
    BY <1>3, InboxAssumption DEF ReplayDeadLetter
  <2>3. QED
    BY <1>3, <2>1, <2>2 DEF ReplayDeadLetter
<1>4. \A w \in Workers : worker[w].at # "free" =>
        worker[w].at \in {"delivered", "failed"} /\ worker[w].event \in Events
  BY DEF Jobs, Free
<1>5. ASSUME NEW w \in Workers, WorkerStep(w) \/ WorkerCrashes(w) PROVE TablesTyped'
  <2>1. CASE \E e \in Events : Deliver(w, e)
    BY <2>1 DEF Deliver, Jobs
  <2>2. CASE Process(w)
    <3>1. worker[w].event \in Events
      BY <1>4, <2>2 DEF Process
    <3>2. inbox' \in [Events -> EventRows]
      BY <2>2, <3>1 DEF Process, EventRows, InboxStatuses
    <3>3. applied' \in [Events -> Nat]
      BY <2>2, <3>1 DEF Process
    <3>4. QED
      BY <2>2, <3>2, <3>3 DEF Process, Jobs
  <2>3. CASE HandlerFails(w)
    <3>1. worker[w] \in [at : {"delivered", "failed"}, event : Events]
      BY <2>3 DEF HandlerFails, Jobs, Free
    <3>2. [worker[w] EXCEPT !.at = "failed"] \in Jobs
      BY <3>1 DEF Jobs
    <3>3. worker' = [worker EXCEPT ![w] = [worker[w] EXCEPT !.at = "failed"]]
      BY <2>3 DEF HandlerFails
    <3>4. worker' \in [Workers -> Jobs]
      BY <3>2, <3>3
    <3>5. QED
      BY <2>3, <3>4 DEF HandlerFails
  <2>4. CASE RecordFailure(w)
    <3>1. worker[w].event \in Events
      BY <1>4, <2>4 DEF RecordFailure
    <3>2. inbox' \in [Events -> EventRows]
      BY <2>4, <3>1 DEF RecordFailure, EventRows, InboxStatuses, NextAttempt
    <3>3. cell' \in [Cells -> CellStatuses]
      BY <2>4 DEF RecordFailure, Quarantine, CellStatuses
    <3>4. QED
      BY <2>4, <3>2, <3>3 DEF RecordFailure, Jobs
  <2>5. CASE WorkerCrashes(w)
    BY <2>5 DEF WorkerCrashes, Jobs
  <2>6. QED
    BY <1>5, <2>1, <2>2, <2>3, <2>4, <2>5 DEF WorkerStep
<1>6. ASSUME NEW c \in Cells, NEW s \in CellStatuses, MoveCell(c, s) PROVE TablesTyped'
  BY <1>6 DEF MoveCell
<1>7. CASE (\E d \in Dispatchers : DispatchStep(d) \/ DispatcherStops(d)) \/ UNCHANGED vars
  BY <1>7 DEF DispatchStep, ReadOutbox, Publish, MarkPublished, DispatcherStops, vars
<1>8. QED
  BY <1>1, <1>2, <1>3, <1>5, <1>6, <1>7 DEF Next

-----------------------------------------------------------------------------
(* The outbox. *)

\* A row that comes before one of these has been delivered, or is one of these
\* and comes before it here.
Covers(rows, seen, n) ==
  \A i \in DOMAIN rows, k \in 1 .. n : k < rows[i] =>
    k \in seen \/ \E j \in DOMAIN rows : j < i /\ rows[j] = k

\* Rows are published in order, and marked when they have been.
OutboxInv ==
  /\ OutboxTyped
  /\ \A i \in DOMAIN outbox : outbox[i].published => i \in delivered
  /\ \A d \in Dispatchers : dispatcher[d] # Asleep =>
       /\ Covers(dispatcher[d].rows, delivered, Len(outbox))
       /\ dispatcher[d].at = "mark" => Head(dispatcher[d].rows) \in delivered
  /\ DeliveredInOrder

\* The facts about a dispatcher at work that its next step needs.
LEMMA AtWork ==
  ASSUME OutboxInv, NEW d \in Dispatchers, dispatcher[d] # Asleep
  PROVE  LET rows == dispatcher[d].rows IN
           /\ dispatcher[d].at \in {"publish", "mark"}
           /\ rows \in Seq(1 .. Len(outbox)) /\ rows # <<>>
           /\ Len(rows) \in Nat \ {0} /\ DOMAIN rows = 1 .. Len(rows)
           /\ Head(rows) = rows[1] /\ rows[1] \in 1 .. Len(outbox)
           /\ Covers(rows, delivered, Len(outbox))
           /\ dispatcher[d].at = "mark" => rows[1] \in delivered
           /\ Len(outbox) \in Nat /\ DOMAIN outbox = 1 .. Len(outbox)
<1> DEFINE rows == dispatcher[d].rows
           S == 1 .. Len(outbox)
<1>1. /\ dispatcher[d].at \in {"publish", "mark"}
      /\ rows \in Seq(S) /\ rows # <<>>
  BY DEF OutboxInv, OutboxTyped, DispatcherTyped
<1>2. /\ Covers(rows, delivered, Len(outbox))
      /\ dispatcher[d].at = "mark" => Head(rows) \in delivered
  BY DEF OutboxInv
<1>3. Len(outbox) \in Nat /\ DOMAIN outbox = 1 .. Len(outbox)
  BY LenProperties DEF OutboxInv, OutboxTyped
<1> HIDE DEF rows, S
<1>4. /\ Len(rows) \in Nat \ {0} /\ DOMAIN rows = 1 .. Len(rows)
  BY <1>1, LenProperties, EmptySeq
<1>5. Head(rows) = rows[1]
  BY <1>1, <1>4
<1>6. rows[1] \in S
  BY <1>1, <1>4, ElementOfSeq
<1>7. QED
  BY <1>1, <1>2, <1>3, <1>4, <1>5, <1>6 DEF rows, S

\* A list of rows is one of a longer outbox too, and misses nothing of it.
LEMMA StillTyped ==
  ASSUME NEW n \in Nat, NEW p, DispatcherTyped(p, n)
  PROVE  DispatcherTyped(p, n + 1)
<1> DEFINE S == 1 .. n
           T == 1 .. (n + 1)
<1>1. S \subseteq T
  OBVIOUS
<1> HIDE DEF S, T
<1>2. \A s \in Seq(S) : s \in Seq(T)
  BY <1>1, SeqMonotonic
<1>3. QED
  BY <1>2 DEF DispatcherTyped, S, T

\* A row added at the end is behind all that has been listed.
LEMMA StillCovers ==
  ASSUME NEW n \in Nat, NEW rows \in Seq(1 .. n), NEW seen, Covers(rows, seen, n)
  PROVE  Covers(rows, seen, n + 1)
<1>1. \A i \in DOMAIN rows : rows[i] \in 1 .. n
  BY LenProperties
<1>2. ASSUME NEW i \in DOMAIN rows, NEW k \in 1 .. (n + 1), k < rows[i]
      PROVE  k \in 1 .. n
  BY <1>1, <1>2
<1>3. QED
  BY <1>2 DEF Covers

\* New rows come last and have not been published.
LEMMA OutboxGrows ==
  ASSUME OutboxInv, NEW e \in Events,
         outbox' = Append(outbox, [event |-> e, published |-> FALSE]),
         UNCHANGED <<dispatcher, delivered>>
  PROVE  OutboxInv'
<1> DEFINE n == Len(outbox)
           new == [event |-> e, published |-> FALSE]
<1>1. /\ outbox \in Seq(OutboxRows) /\ n \in Nat /\ DOMAIN outbox = 1 .. n
      /\ delivered \subseteq 1 .. n
  BY LenProperties DEF OutboxInv, OutboxTyped
<1>2. new \in OutboxRows /\ ~new.published
  BY DEF OutboxRows
<1> HIDE DEF new
<1>3. /\ outbox' \in Seq(OutboxRows) /\ Len(outbox') = n + 1
      /\ \A i \in 1 .. n : outbox'[i] = outbox[i]
      /\ outbox'[n + 1] = new
  BY <1>1, <1>2, AppendProperties DEF new
<1>4. DOMAIN outbox' = 1 .. (n + 1)
  BY <1>3, LenProperties
<1>5. dispatcher' = dispatcher /\ delivered' = delivered
  OBVIOUS
<1> HIDE DEF n
<1>6. OutboxTyped'
  <2>1. DOMAIN dispatcher = Dispatchers
    BY DEF OutboxInv, OutboxTyped
  <2>2. delivered \subseteq 1 .. (n + 1)
    BY <1>1
  <2>3. \A d \in Dispatchers : DispatcherTyped(dispatcher[d], n)
    BY DEF OutboxInv, OutboxTyped, n
  <2>4. \A d \in Dispatchers : DispatcherTyped(dispatcher[d], n + 1)
    BY <1>1, <2>3, StillTyped
  <2>5. QED
    BY <1>3, <1>5, <2>1, <2>2, <2>4 DEF OutboxTyped
<1>7. \A i \in DOMAIN outbox' : outbox'[i].published => i \in delivered'
  BY <1>1, <1>3, <1>4 DEF OutboxInv
<1>8. ASSUME NEW d \in Dispatchers, dispatcher'[d] # Asleep
      PROVE  /\ Covers(dispatcher'[d].rows, delivered', Len(outbox'))
             /\ dispatcher'[d].at = "mark" => Head(dispatcher'[d].rows) \in delivered'
  <2>1. /\ Covers(dispatcher[d].rows, delivered, n)
        /\ dispatcher[d].at = "mark" => Head(dispatcher[d].rows) \in delivered
    BY <1>5, <1>8 DEF OutboxInv, n
  <2>2. dispatcher[d].rows \in Seq(1 .. n)
    BY <1>5, <1>8, AtWork DEF n
  <2>3. Covers(dispatcher[d].rows, delivered, n + 1)
    BY <1>1, <2>1, <2>2, StillCovers
  <2>4. QED
    BY <1>3, <1>5, <2>1, <2>3
<1>9. DeliveredInOrder'
  <2>1. ASSUME NEW i \in DOMAIN outbox', NEW j \in DOMAIN outbox', i < j, j \in delivered
        PROVE  i \in delivered
    <3>1. i \in DOMAIN outbox /\ j \in DOMAIN outbox
      BY <1>1, <1>4, <2>1
    <3>2. QED
      BY <2>1, <3>1 DEF OutboxInv, DeliveredInOrder
  <2>2. QED
    BY <2>1 DEF DeliveredInOrder
<1>10. QED
  BY <1>6, <1>7, <1>8, <1>9 DEF OutboxInv

\* A dispatcher that reads takes every row that nobody has marked.
LEMMA ReadingCovers ==
  ASSUME OutboxInv, NEW d \in Dispatchers, ReadOutbox(d)
  PROVE  OutboxInv'
<1> DEFINE n == Len(outbox)
           rows == InOrder(Unpublished)
<1>1. /\ outbox \in Seq(OutboxRows) /\ n \in Nat /\ DOMAIN outbox = 1 .. n
  BY LenProperties DEF OutboxInv, OutboxTyped
<1>2. /\ UNCHANGED <<outbox, delivered>>
      /\ Unpublished # {}
      /\ DOMAIN dispatcher' = Dispatchers
      /\ dispatcher'[d] = [at |-> "publish", rows |-> rows]
      /\ \A x \in Dispatchers \ {d} : dispatcher'[x] = dispatcher[x]
  BY DEF ReadOutbox, OutboxInv, OutboxTyped
<1>3. IsFiniteSet(Unpublished) /\ Unpublished \subseteq 1 .. n /\ Unpublished \subseteq Nat
  <2>1. Unpublished \subseteq 1 .. n /\ Unpublished \subseteq Nat
    BY <1>1 DEF Unpublished
  <2>2. IsFiniteSet(1 .. n)
    BY <1>1, FS_Interval
  <2>3. QED
    BY <2>1, <2>2, FS_Subset
<1>4. /\ rows \in Seq(Unpublished) /\ rows # <<>> /\ Increasing(rows)
      /\ rows \in [1 .. Cardinality(Unpublished) -> Unpublished]
      /\ \A x \in Unpublished : \E i \in DOMAIN rows : rows[i] = x
  BY <1>2, <1>3, InOrderLists
<1>5. rows \in Seq(1 .. n)
  BY <1>3, <1>4, SeqMonotonic
<1> HIDE DEF rows, n
<1>6. DispatcherTyped(dispatcher'[d], n)
  BY <1>2, <1>4, <1>5 DEF DispatcherTyped
<1>7. Covers(rows, delivered, n)
  <2>1. ASSUME NEW i \in DOMAIN rows, NEW k \in 1 .. n, k < rows[i], k \notin delivered
        PROVE  \E j \in DOMAIN rows : j < i /\ rows[j] = k
    <3>1. k \in Unpublished
      BY <1>1, <2>1 DEF OutboxInv, Unpublished
    <3>2. PICK j \in DOMAIN rows : rows[j] = k
      BY <1>4, <3>1
    <3>3. Cardinality(Unpublished) \in Nat
      BY <1>3, FS_CardinalityType
    <3>4. i \in Nat /\ j \in Nat /\ rows[i] \in Nat /\ rows[j] \in Nat
      <4>1. DOMAIN rows = 1 .. Cardinality(Unpublished)
        BY <1>4
      <4>2. i \in Nat /\ j \in Nat
        BY <3>3, <4>1
      <4>3. rows[i] \in Unpublished /\ rows[j] \in Unpublished
        BY <1>4, <4>1
      <4>4. QED
        BY <1>3, <4>2, <4>3
    <3>5. j < i
      BY <1>4, <2>1, <3>2, <3>4 DEF Increasing
    <3>6. QED
      BY <3>2, <3>5
  <2>2. QED
    BY <2>1 DEF Covers
<1>8. OutboxTyped'
  BY <1>2, <1>6 DEF OutboxInv, OutboxTyped, n
<1>9. \A x \in Dispatchers : dispatcher'[x] # Asleep =>
        /\ Covers(dispatcher'[x].rows, delivered', Len(outbox'))
        /\ dispatcher'[x].at = "mark" => Head(dispatcher'[x].rows) \in delivered'
  <2>1. dispatcher'[d].rows = rows /\ dispatcher'[d].at # "mark"
    BY <1>2
  <2>2. Covers(dispatcher'[d].rows, delivered', Len(outbox'))
    BY <1>2, <1>7, <2>1 DEF n
  <2>3. ASSUME NEW x \in Dispatchers \ {d}, dispatcher'[x] # Asleep
        PROVE  /\ Covers(dispatcher'[x].rows, delivered', Len(outbox'))
               /\ dispatcher'[x].at = "mark" => Head(dispatcher'[x].rows) \in delivered'
    BY <1>2, <2>3 DEF OutboxInv
  <2>4. QED
    BY <2>1, <2>2, <2>3
<1>10. /\ DeliveredInOrder'
       /\ \A i \in DOMAIN outbox' : outbox'[i].published => i \in delivered'
  BY <1>2 DEF OutboxInv, DeliveredInOrder
<1>11. QED
  BY <1>8, <1>9, <1>10 DEF OutboxInv

\* A dispatcher publishes the first of its rows, which is the next one to be
\* delivered or has been delivered already.
LEMMA PublishingKeepsOrder ==
  ASSUME OutboxInv, NEW d \in Dispatchers, Publish(d)
  PROVE  OutboxInv'
<1> DEFINE rows == dispatcher[d].rows
           n == Len(outbox)
<1>1. dispatcher[d] # Asleep /\ dispatcher[d].at = "publish"
  BY DEF Publish, Asleep
<1>2. /\ rows \in Seq(1 .. n) /\ rows # <<>>
      /\ Len(rows) \in Nat \ {0} /\ DOMAIN rows = 1 .. Len(rows)
      /\ Head(rows) = rows[1] /\ rows[1] \in 1 .. n
      /\ Covers(rows, delivered, n)
      /\ n \in Nat /\ DOMAIN outbox = 1 .. n
  BY <1>1, AtWork
<1>3. /\ UNCHANGED outbox
      /\ delivered' = delivered \cup {rows[1]}
      /\ dispatcher' = [dispatcher EXCEPT ![d].at = "mark"]
  BY <1>2 DEF Publish
<1>4. /\ DOMAIN dispatcher' = Dispatchers
      /\ dispatcher'[d].at = "mark" /\ dispatcher'[d].rows = rows
      /\ \A x \in Dispatchers \ {d} : dispatcher'[x] = dispatcher[x]
  <2>1. /\ DOMAIN dispatcher = Dispatchers
        /\ dispatcher[d] \in [at : {"publish", "mark"}, rows : Seq(1 .. n)]
    BY <1>1 DEF OutboxInv, OutboxTyped, DispatcherTyped
  <2>2. QED
    BY <1>3, <2>1
<1> HIDE DEF rows, n
<1>5. \A x \in Dispatchers : DispatcherTyped(dispatcher'[x], n)
  <2>1. dispatcher[d] \in [at : {"publish", "mark"}, rows : Seq(1 .. n)]
    BY <1>1 DEF OutboxInv, OutboxTyped, DispatcherTyped, n
  <2>2. dispatcher'[d] = [dispatcher[d] EXCEPT !.at = "mark"]
    BY <1>3 DEF OutboxInv, OutboxTyped
  <2>3. dispatcher'[d] \in [at : {"publish", "mark"}, rows : Seq(1 .. n)]
    BY <2>1, <2>2
  <2>4. DispatcherTyped(dispatcher'[d], n)
    BY <1>2, <1>4, <2>3 DEF DispatcherTyped
  <2>5. QED
    BY <1>4, <2>4 DEF OutboxInv, OutboxTyped, n
<1>6. OutboxTyped'
  BY <1>2, <1>3, <1>4, <1>5 DEF OutboxTyped, OutboxInv, n
<1>7. DeliveredInOrder'
  <2>1. ASSUME NEW i \in 1 .. n, NEW j \in 1 .. n, i < j, j \in delivered'
        PROVE  i \in delivered
    <3>1. CASE j \in delivered
      BY <1>2, <2>1, <3>1 DEF OutboxInv, DeliveredInOrder
    <3>2. CASE j = rows[1]
      <4>1. 1 \in DOMAIN rows
        BY <1>2
      <4>2. i \in delivered \/ \E k \in DOMAIN rows : k < 1 /\ rows[k] = i
        BY <1>2, <2>1, <3>2, <4>1 DEF Covers
      <4>3. QED
        BY <1>2, <4>2
    <3>3. QED
      BY <1>3, <2>1, <3>1, <3>2
  <2>2. QED
    BY <1>2, <1>3, <2>1 DEF DeliveredInOrder
<1>8. ASSUME NEW x \in Dispatchers, dispatcher'[x] # Asleep
      PROVE  /\ Covers(dispatcher'[x].rows, delivered', n)
             /\ dispatcher'[x].at = "mark" => Head(dispatcher'[x].rows) \in delivered'
  <2>1. \A r : Covers(r, delivered, n) => Covers(r, delivered', n)
    BY <1>3 DEF Covers
  <2>2. CASE x = d
    <3>1. Covers(rows, delivered', n)
      BY <1>2, <2>1
    <3>2. Head(rows) \in delivered'
      BY <1>2, <1>3
    <3>3. QED
      BY <1>4, <2>2, <3>1, <3>2
  <2>3. CASE x # d
    <3>1. /\ Covers(dispatcher[x].rows, delivered, n)
          /\ dispatcher[x].at = "mark" => Head(dispatcher[x].rows) \in delivered
      BY <1>4, <1>8, <2>3 DEF OutboxInv, n
    <3>2. QED
      BY <1>3, <1>4, <2>1, <2>3, <3>1
  <2>4. QED
    BY <2>2, <2>3
<1>9. \A i \in DOMAIN outbox' : outbox'[i].published => i \in delivered'
  BY <1>3 DEF OutboxInv
<1>10. QED
  BY <1>3, <1>6, <1>7, <1>8, <1>9 DEF OutboxInv, n

\* Marking takes the row it marks off the list of what is still to publish.
LEMMA MarkingKeepsOrder ==
  ASSUME OutboxInv, NEW d \in Dispatchers, MarkPublished(d)
  PROVE  OutboxInv'
<1> DEFINE rows == dispatcher[d].rows
           n == Len(outbox)
           rest == Tail(rows)
           h == rows[1]
<1>1. dispatcher[d] # Asleep /\ dispatcher[d].at = "mark"
  BY DEF MarkPublished, Asleep
<1>2. /\ rows \in Seq(1 .. n) /\ rows # <<>>
      /\ Len(rows) \in Nat \ {0} /\ DOMAIN rows = 1 .. Len(rows)
      /\ Head(rows) = h /\ h \in 1 .. n /\ h \in delivered
      /\ Covers(rows, delivered, n)
      /\ n \in Nat /\ DOMAIN outbox = 1 .. n
  BY <1>1, AtWork
<1>3. /\ UNCHANGED delivered
      /\ outbox' = [outbox EXCEPT ![h].published = TRUE]
      /\ DOMAIN dispatcher' = Dispatchers
      /\ dispatcher'[d] = AfterMark(rest)
      /\ \A x \in Dispatchers \ {d} : dispatcher'[x] = dispatcher[x]
  BY <1>2 DEF MarkPublished, MarkHead, OutboxInv, OutboxTyped
<1>4. /\ rest \in Seq(1 .. n) /\ Len(rest) = Len(rows) - 1
      /\ DOMAIN rest = 1 .. Len(rest)
      /\ \A i \in 1 .. Len(rest) : rest[i] = rows[i + 1]
  <2> DEFINE S == 1 .. n
  <2>1. rows \in Seq(S) /\ rows # <<>>
    BY <1>2
  <2> HIDE DEF rows, S
  <2>2. /\ Tail(rows) \in Seq(S) /\ Len(Tail(rows)) = Len(rows) - 1
        /\ \A i \in 1 .. Len(Tail(rows)) : Tail(rows)[i] = rows[i + 1]
    BY <2>1, HeadTailProperties
  <2>3. DOMAIN Tail(rows) = 1 .. Len(Tail(rows))
    BY <2>2, LenProperties
  <2>4. QED
    BY <2>2, <2>3 DEF S
<1>5. /\ outbox' \in Seq(OutboxRows) /\ Len(outbox') = n /\ DOMAIN outbox' = 1 .. n
      /\ \A i \in 1 .. n : i # h => outbox'[i] = outbox[i]
  <2> DEFINE marked == [outbox[h] EXCEPT !.published = TRUE]
  <2>1. outbox \in Seq(OutboxRows) /\ h \in 1 .. Len(outbox)
    BY <1>2 DEF OutboxInv, OutboxTyped
  <2>2. marked \in OutboxRows
    <3>1. outbox[h] \in OutboxRows
      BY <2>1, ElementOfSeq
    <3>2. QED
      BY <3>1 DEF OutboxRows
  <2>3. outbox' = [outbox EXCEPT ![h] = marked]
    BY <1>3
  <2> HIDE DEF marked, h
  <2>4. /\ outbox' \in Seq(OutboxRows) /\ Len(outbox') = Len(outbox)
        /\ \A i \in 1 .. Len(outbox) : outbox'[i] = IF i = h THEN marked ELSE outbox[i]
    BY <2>1, <2>2, <2>3, ExceptSeq
  <2>5. DOMAIN outbox' = 1 .. Len(outbox)
    BY <2>4, LenProperties
  <2>6. QED
    BY <2>4, <2>5
<1> HIDE DEF rows, n, rest, h
<1>6. rest # <<>> => dispatcher'[d] = [at |-> "publish", rows |-> rest]
  BY <1>3 DEF AfterMark
<1>7. rest = <<>> => dispatcher'[d] = Asleep
  BY <1>3 DEF AfterMark
<1>8. OutboxTyped'
  <2>1. DispatcherTyped(dispatcher'[d], n)
    BY <1>4, <1>6, <1>7 DEF DispatcherTyped
  <2>2. \A x \in Dispatchers : DispatcherTyped(dispatcher'[x], n)
    BY <1>3, <2>1 DEF OutboxInv, OutboxTyped, n
  <2>3. delivered' \subseteq 1 .. n
    BY <1>3 DEF OutboxInv, OutboxTyped, n
  <2>4. QED
    BY <1>3, <1>5, <2>2, <2>3 DEF OutboxTyped
<1>9. Covers(rest, delivered, n)
  <2>1. ASSUME NEW i \in DOMAIN rest, NEW k \in 1 .. n, k < rest[i], k \notin delivered
        PROVE  \E j \in DOMAIN rest : j < i /\ rest[j] = k
    <3>1. i \in 1 .. Len(rest) /\ i + 1 \in DOMAIN rows /\ rest[i] = rows[i + 1]
      BY <1>2, <1>4, <2>1
    <3>2. PICK j \in DOMAIN rows : j < i + 1 /\ rows[j] = k
      BY <1>2, <2>1, <3>1 DEF Covers
    <3>3. j # 1
      BY <1>2, <2>1, <3>2 DEF h
    <3>4. j - 1 \in 1 .. Len(rest) /\ j - 1 < i /\ (j - 1) + 1 = j
      <4>1. j \in 1 .. Len(rows) /\ Len(rows) \in Nat /\ Len(rest) = Len(rows) - 1
        BY <1>2, <1>4, <3>2
      <4>2. i \in Nat
        BY <1>4, <3>1, <4>1
      <4>3. QED
        BY <3>2, <3>3, <4>1, <4>2
    <3>5. j - 1 \in DOMAIN rest /\ rest[j - 1] = k
      BY <1>4, <3>2, <3>4
    <3>6. QED
      BY <3>4, <3>5
  <2>2. QED
    BY <2>1 DEF Covers
<1>10. ASSUME NEW x \in Dispatchers, dispatcher'[x] # Asleep
       PROVE  /\ Covers(dispatcher'[x].rows, delivered', n)
              /\ dispatcher'[x].at = "mark" => Head(dispatcher'[x].rows) \in delivered'
  <2>1. CASE x = d
    BY <1>3, <1>6, <1>7, <1>9, <1>10, <2>1
  <2>2. CASE x # d
    BY <1>3, <1>10, <2>2 DEF OutboxInv, n
  <2>3. QED
    BY <2>1, <2>2
<1>11. \A i \in DOMAIN outbox' : outbox'[i].published => i \in delivered'
  BY <1>2, <1>3, <1>5 DEF OutboxInv
<1>12. DeliveredInOrder'
  BY <1>2, <1>3, <1>5 DEF OutboxInv, DeliveredInOrder
<1>13. QED
  BY <1>5, <1>8, <1>10, <1>11, <1>12 DEF OutboxInv

\* The outbox stays in order.
LEMMA OutboxStep ==
  ASSUME OutboxInv, TablesTyped, [Next]_vars
  PROVE  OutboxInv'
<1>1. ASSUME UNCHANGED <<outbox, dispatcher, delivered>> PROVE OutboxInv'
  BY <1>1 DEF OutboxInv, OutboxTyped, DeliveredInOrder
<1>2. CASE \E w \in Workers : Process(w)
  <2>1. PICK w \in Workers : Process(w)
    BY <1>2
  <2>2. worker[w].event \in Events
    BY <2>1 DEF Process, TablesTyped, Jobs, Free
  <2>3. \/ outbox' = outbox
        \/ outbox' = Append(outbox, [event |-> worker[w].event, published |-> FALSE])
    BY <2>1 DEF Process, Stage
  <2>4. UNCHANGED <<dispatcher, delivered>>
    BY <2>1 DEF Process
  <2>5. QED
    BY <1>1, <2>2, <2>3, <2>4, OutboxGrows
<1>3. ASSUME NEW d \in Dispatchers, DispatcherStops(d) PROVE OutboxInv'
  <2>1. /\ UNCHANGED <<outbox, delivered>> /\ DOMAIN dispatcher' = Dispatchers
        /\ \A x \in Dispatchers : dispatcher'[x] \in {Asleep, dispatcher[x]}
    BY <1>3 DEF DispatcherStops, OutboxInv, OutboxTyped
  <2>2. \A x \in Dispatchers : DispatcherTyped(dispatcher'[x], Len(outbox))
    BY <2>1 DEF OutboxInv, OutboxTyped, DispatcherTyped
  <2>3. OutboxTyped'
    BY <2>1, <2>2 DEF OutboxInv, OutboxTyped
  <2>4. \A x \in Dispatchers : dispatcher'[x] # Asleep => dispatcher'[x] = dispatcher[x]
    BY <2>1
  <2>5. DeliveredInOrder'
    BY <2>1 DEF OutboxInv, DeliveredInOrder
  <2>6. QED
    BY <2>1, <2>3, <2>4, <2>5 DEF OutboxInv
<1>4. CASE \/ \E e \in Events : LookUpKey(e) \/ Enqueue(e) \/ ReplayDeadLetter(e)
           \/ \E w \in Workers : \/ (\E e \in Events : Deliver(w, e)) \/ HandlerFails(w)
                                 \/ RecordFailure(w) \/ WorkerCrashes(w)
           \/ \E c \in Cells, s \in CellStatuses : MoveCell(c, s)
           \/ UNCHANGED vars
  BY <1>1, <1>4 DEF LookUpKey, Enqueue, ReplayDeadLetter, Deliver, HandlerFails,
                    RecordFailure, WorkerCrashes, MoveCell, vars
<1>5. QED
  BY <1>2, <1>3, <1>4, ReadingCovers, PublishingKeepsOrder, MarkingKeepsOrder
     DEF Next, WorkerStep, DispatchStep

-----------------------------------------------------------------------------
(* What holds of any number of workers. *)

InboxInv == TablesTyped /\ OutboxInv

\* Types and order hold in every reachable state.
LEMMA InboxHolds == Spec => []InboxInv
<1>1. Init => InboxInv
  <2> SUFFICES ASSUME Init PROVE InboxInv
    OBVIOUS
  <2>1. TablesTyped
    BY InboxAssumption
       DEF Init, TablesTyped, EventRows, Jobs, NoEvent, CellStatuses
  <2>2. outbox = <<>> /\ delivered = {} /\ DOMAIN outbox = {}
    BY DEF Init
  <2>3. OutboxTyped
    BY <2>2, EmptySeq DEF Init, OutboxTyped, DispatcherTyped
  <2>4. QED
    BY <2>1, <2>2, <2>3 DEF Init, InboxInv, OutboxInv, DeliveredInOrder
<1>2. InboxInv /\ [Next]_vars => InboxInv'
  BY TablesStep, OutboxStep DEF InboxInv
<1>3. QED
  BY <1>1, <1>2, PTL DEF Spec

\* Every table and process keeps its type.
THEOREM TypeCorrect == Spec => []TypeOK
<1>1. InboxInv => TypeOK
  BY TypesSplit DEF InboxInv, OutboxInv, OutboxTyped
<1>2. QED
  BY <1>1, InboxHolds, PTL

\* Subscribers first see produced events in the order their transactions
\* committed, however many dispatchers overlap, crash and publish again
\* (dispatch_outbox, events.py:464).
THEOREM FirstDeliveriesInOrder == Spec => []DeliveredInOrder
<1>1. InboxInv => DeliveredInOrder
  BY DEF InboxInv, OutboxInv
<1>2. QED
  BY <1>1, InboxHolds, PTL

\* An event is only given up in the transaction that takes the Cell it implicates
\* out of action, unless it is out of action already (record_failure).
THEOREM DeadLettersIsolate == Spec => DeadLetterIsolates
<1> DEFINE Isolates == \A e \in Events :
             /\ inbox[e].status # "dead_letter"
             /\ inbox'[e].status = "dead_letter"
             /\ CellOf[e] # NoCell
             => cell'[CellOf[e]] \notin {"alive", "dormant"}
<1>1. InboxInv /\ [Next]_vars => [Isolates]_vars
  <2> SUFFICES ASSUME InboxInv, [Next]_vars, NEW e \in Events,
                      inbox[e].status # "dead_letter",
                      inbox'[e].status = "dead_letter",
                      CellOf[e] # NoCell
               PROVE  cell'[CellOf[e]] \notin {"alive", "dormant"}
    OBVIOUS
  <2>1. inbox \in [Events -> EventRows] /\ cell \in [Cells -> CellStatuses]
        /\ CellOf[e] \in Cells
    BY InboxAssumption DEF InboxInv, TablesTyped
  <2>2. CASE \E w \in Workers : RecordFailure(w)
    <3>1. PICK w \in Workers : RecordFailure(w)
      BY <2>2
    <3>2. /\ worker[w].event = e
          /\ NextAttempt(e) >= MaxAttempts
      BY <2>1, <3>1 DEF RecordFailure, EventRows
    <3>3. cell' = Quarantine(CellOf[e])
      BY <3>1, <3>2 DEF RecordFailure
    <3>4. QED
      BY <2>1, <3>3 DEF Quarantine, CellStatuses
  <2>3. ASSUME inbox' = inbox \/ \E f \in Events : \E s \in {"pending", "processed"} :
                                  inbox'[f].status = s /\ \A g \in Events \ {f} : inbox'[g] = inbox[g]
        PROVE  FALSE
    BY <2>3
  <2>4. CASE \/ \E f \in Events : LookUpKey(f) \/ Enqueue(f) \/ ReplayDeadLetter(f)
             \/ \E w \in Workers : \/ \E f \in Events : Deliver(w, f)
                                   \/ HandlerFails(w) \/ WorkerCrashes(w)
             \/ \E c \in Cells, s \in CellStatuses : MoveCell(c, s)
             \/ \E d \in Dispatchers : DispatchStep(d) \/ DispatcherStops(d)
             \/ UNCHANGED vars
    <3>1. CASE \E f \in Events : Enqueue(f)
      BY <2>1, <2>3, <3>1 DEF Enqueue, EventRows
    <3>2. CASE \E f \in Events : ReplayDeadLetter(f)
      BY <2>1, <2>3, <3>2 DEF ReplayDeadLetter
    <3>3. QED
      BY <2>3, <2>4, <3>1, <3>2
         DEF LookUpKey, Deliver, HandlerFails, WorkerCrashes, MoveCell, DispatchStep,
             ReadOutbox, Publish, MarkPublished, DispatcherStops, vars
  <2>5. CASE \E w \in Workers : Process(w)
    <3>1. PICK w \in Workers : Process(w)
      BY <2>5
    <3>2. worker[w].event \in Events
      BY <3>1 DEF Process, InboxInv, TablesTyped, Jobs, Free
    <3>3. QED
      BY <2>1, <2>3, <3>1, <3>2 DEF Process, EventRows
  <2>6. QED
    BY <2>2, <2>4, <2>5 DEF Next, WorkerStep
<1>2. QED
  BY <1>1, InboxHolds, PTL DEF Spec, DeadLetterIsolates

-----------------------------------------------------------------------------
(* What holds when one worker runs, as under `mitosis run`: with two, one may *)
(* record a failure of an event that the other has processed.                 *)

OneWorker == \A v, w \in Workers : v = w

\* A dedupe key has one row; what the worker is about is still pending; and an
\* event has taken effect if, and as often as, it is marked processed.
SingleInv ==
  /\ TablesTyped
  /\ \A e, f \in Events :
       DedupeOf[e] = DedupeOf[f] /\ inbox[e].status # "absent"
         /\ inbox[f].status # "absent" => e = f
  /\ \A w \in Workers :
       worker[w].at # "free" => inbox[worker[w].event].status = "pending"
  /\ \A e \in Events : applied[e] = IF inbox[e].status = "processed" THEN 1 ELSE 0

\* A step leaves every event alone, or is one event's move in the inbox.
Moves(e, from, to) ==
  /\ inbox[e].status = from /\ inbox'[e].status = to
  /\ \A f \in Events \ {e} : inbox'[f].status = inbox[f].status
  /\ applied' = IF to = "processed" THEN [applied EXCEPT ![e] = @ + 1] ELSE applied

Legal == {<<"absent", "pending">>, <<"pending", "processed">>,
          <<"pending", "dead_letter">>, <<"dead_letter", "pending">>}

Stays ==
  /\ \A e \in Events : inbox'[e].status = inbox[e].status
  /\ applied' = applied

\* With one worker, each step moves one event along, or none.
LEMMA SingleStep ==
  ASSUME OneWorker, SingleInv, [Next]_vars
  PROVE  /\ SingleInv'
         /\ Stays \/ \E e \in Events : \E m \in Legal : Moves(e, m[1], m[2])
<1> DEFINE Goal ==
             /\ SingleInv'
             /\ Stays \/ \E e \in Events : \E m \in Legal : Moves(e, m[1], m[2])
<1>1. TablesTyped /\ TablesTyped'
  BY TablesStep DEF SingleInv
<1>2. /\ \A e \in Events : inbox[e].status \in InboxStatuses \cup {"absent"}
      /\ \A w \in Workers : worker[w].at # "free" =>
           worker[w].at \in {"delivered", "failed"} /\ worker[w].event \in Events
      /\ DOMAIN inbox = Events /\ DOMAIN applied = Events /\ DOMAIN worker = Workers
      /\ \A e \in Events : DOMAIN inbox[e] = {"status", "attempts"}
  BY <1>1 DEF TablesTyped, EventRows, Jobs, Free
<1>3. ASSUME UNCHANGED <<inbox, applied>>,
             \A w \in Workers : \/ worker'[w] = worker[w] \/ worker'[w].at = "free"
                                \/ inbox[worker'[w].event].status = "pending"
      PROVE  Goal
  BY <1>1, <1>3 DEF SingleInv, Stays
<1>4. ASSUME NEW e \in Events, Enqueue(e) PROVE Goal
  <2>1. CASE KeyTaken(e)
    BY <1>3, <1>4, <2>1 DEF Enqueue
  <2>2. CASE ~KeyTaken(e)
    <3>1. /\ inbox' = [inbox EXCEPT ![e].status = "pending"]
          /\ UNCHANGED <<worker, applied>>
          /\ \A f \in Events : DedupeOf[f] = DedupeOf[e] => inbox[f].status = "absent"
      BY <1>4, <2>2 DEF Enqueue, KeyTaken
    <3>2. /\ inbox[e].status = "absent" /\ inbox'[e].status = "pending"
          /\ \A f \in Events \ {e} : inbox'[f] = inbox[f]
      BY <1>2, <3>1
    <3>3. SingleInv'
      BY <1>1, <1>2, <3>1, <3>2 DEF SingleInv
    <3>4. Moves(e, "absent", "pending")
      BY <3>1, <3>2 DEF Moves
    <3>5. QED
      BY <3>3, <3>4 DEF Legal
  <2>3. QED
    BY <2>1, <2>2
<1>5. ASSUME NEW e \in Events, ReplayDeadLetter(e) PROVE Goal
  <2>1. /\ inbox[e].status = "dead_letter" /\ inbox'[e].status = "pending"
        /\ \A f \in Events \ {e} : inbox'[f] = inbox[f]
        /\ UNCHANGED <<worker, applied>>
    BY <1>2, <1>5 DEF ReplayDeadLetter, IsDeadLetter
  <2>2. SingleInv'
    BY <1>1, <1>2, <2>1 DEF SingleInv
  <2>3. Moves(e, "dead_letter", "pending")
    BY <2>1 DEF Moves
  <2>4. QED
    BY <2>2, <2>3 DEF Legal
<1>6. ASSUME NEW w \in Workers, Process(w) PROVE Goal
  <2> DEFINE e == worker[w].event
  <2>1. worker[w].at = "delivered" /\ e \in Events /\ inbox[e].status = "pending"
    BY <1>2, <1>6 DEF Process, SingleInv
  <2>2. /\ inbox' = [inbox EXCEPT ![e].status = "processed"]
        /\ applied' = [applied EXCEPT ![e] = @ + 1]
        /\ worker' = [worker EXCEPT ![w] = Free]
    BY <1>6, <2>1 DEF Process
  <2> HIDE DEF e
  <2>3. /\ inbox'[e].status = "processed"
        /\ \A f \in Events \ {e} : inbox'[f] = inbox[f] /\ applied'[f] = applied[f]
        /\ applied[e] = 0 /\ applied'[e] = 1
    BY <1>2, <2>1, <2>2 DEF SingleInv
  <2>4. \A v \in Workers : worker'[v].at = "free"
    BY <1>2, <2>2 DEF OneWorker, Free
  <2>5. SingleInv'
    BY <1>1, <1>2, <2>1, <2>3, <2>4 DEF SingleInv
  <2>6. Moves(e, "pending", "processed")
    BY <2>1, <2>2, <2>3 DEF Moves
  <2>7. QED
    BY <2>1, <2>5, <2>6 DEF Legal
<1>7. ASSUME NEW w \in Workers, RecordFailure(w) PROVE Goal
  <2> DEFINE e == worker[w].event
             to == IF NextAttempt(e) >= MaxAttempts THEN "dead_letter" ELSE "pending"
  <2>1. worker[w].at = "failed" /\ e \in Events /\ inbox[e].status = "pending"
    BY <1>2, <1>7 DEF RecordFailure, SingleInv
  <2>2. /\ inbox' = [inbox EXCEPT ![e] = [status |-> to, attempts |-> NextAttempt(e)]]
        /\ worker' = [worker EXCEPT ![w] = Free] /\ UNCHANGED applied
    BY <1>7 DEF RecordFailure
  <2> HIDE DEF e
  <2>3. /\ inbox'[e].status = to /\ to \in {"dead_letter", "pending"}
        /\ \A f \in Events \ {e} : inbox'[f] = inbox[f]
    BY <1>2, <2>1, <2>2
  <2> HIDE DEF to
  <2>4. \A v \in Workers : worker'[v].at = "free"
    BY <1>2, <2>2 DEF OneWorker, Free
  <2>5. SingleInv'
    BY <1>1, <1>2, <2>1, <2>2, <2>3, <2>4 DEF SingleInv
  <2>6. CASE to = "pending"
    <3>1. Stays
      BY <2>1, <2>2, <2>3, <2>6 DEF Stays
    <3>2. QED
      BY <2>5, <3>1
  <2>7. CASE to = "dead_letter"
    <3>1. Moves(e, "pending", "dead_letter")
      BY <2>1, <2>2, <2>3, <2>7 DEF Moves
    <3>2. QED
      BY <2>1, <2>5, <3>1 DEF Legal
  <2>8. QED
    BY <2>3, <2>6, <2>7
<1>8. ASSUME NEW w \in Workers,
             \/ \E e \in Events : Deliver(w, e)
             \/ HandlerFails(w)
             \/ WorkerCrashes(w)
      PROVE  Goal
  <2>1. /\ UNCHANGED <<inbox, applied>>
        /\ \A v \in Workers \ {w} : worker'[v] = worker[v]
    BY <1>2, <1>8 DEF Deliver, HandlerFails, WorkerCrashes
  <2>2. CASE \E e \in Events : Deliver(w, e)
    <3>1. inbox[worker'[w].event].status = "pending"
      BY <1>2, <2>2 DEF Deliver
    <3>2. QED
      BY <1>3, <2>1, <3>1
  <2>3. CASE HandlerFails(w)
    <3>1. /\ worker[w] \in [at : {"delivered", "failed"}, event : Events]
          /\ inbox[worker[w].event].status = "pending"
      BY <1>1, <2>3 DEF HandlerFails, TablesTyped, Jobs, Free
    <3>2. worker'[w].event = worker[w].event
      BY <1>2, <2>3, <3>1 DEF HandlerFails
    <3>3. QED
      BY <1>3, <2>1, <3>1, <3>2
  <2>4. CASE WorkerCrashes(w)
    <3>1. worker'[w].at = "free"
      BY <1>2, <2>4 DEF WorkerCrashes, Free
    <3>2. QED
      BY <1>3, <2>1, <3>1
  <2>5. QED
    BY <1>8, <2>2, <2>3, <2>4
<1>9. ASSUME \/ \E e \in Events : LookUpKey(e)
             \/ \E d \in Dispatchers : DispatchStep(d) \/ DispatcherStops(d)
             \/ \E c \in Cells, s \in CellStatuses : MoveCell(c, s)
             \/ UNCHANGED vars
      PROVE  Goal
  <2>1. UNCHANGED <<inbox, applied, worker>>
    BY <1>9 DEF LookUpKey, DispatchStep, ReadOutbox, Publish, MarkPublished,
                DispatcherStops, MoveCell, vars
  <2>2. QED
    BY <1>3, <2>1
<1> HIDE DEF Goal
<1>10. Goal
  BY <1>4, <1>5, <1>6, <1>7, <1>8, <1>9 DEF Next, WorkerStep
<1>11. QED
  BY <1>10 DEF Goal

\* At first nothing has been delivered.
LEMMA SingleInit == Init => SingleInv
<1> SUFFICES ASSUME Init PROVE SingleInv
  OBVIOUS
<1>1. TablesTyped
  BY InboxAssumption DEF Init, TablesTyped, EventRows, Jobs, NoEvent, CellStatuses
<1>2. QED
  BY <1>1 DEF Init, SingleInv, NoEvent, Free

\* Charter C6: however often an event is enqueued, delivered, failed, replayed or
\* interrupted, its effects are committed at most once per dedupe key.
THEOREM OneEffectPerKey ==
  ASSUME OneWorker
  PROVE  Spec => []EffectOncePerKey
<1>1. SingleInv => EffectOncePerKey
  <2> SUFFICES ASSUME SingleInv, NEW k \in DedupeKeys
               PROVE  SumFunctionOnSet(applied, {e \in Events : DedupeOf[e] = k}) <= 1
    BY DEF EffectOncePerKey
  <2> DEFINE S == {e \in Events : DedupeOf[e] = k}
  <2>1. IsFiniteSet(S)
    BY InboxAssumption, FS_Subset
  <2>2. \A e \in S : applied[e] \in Int /\ applied[e] \in {0, 1}
    BY DEF SingleInv
  <2>3. \A e, f \in S : applied[e] # 0 /\ applied[f] # 0 => e = f
    BY DEF SingleInv
  <2> HIDE DEF S
  <2>4. CASE \A e \in S : applied[e] = 0
    <3>1. SumFunctionOnSet(applied, S) = 0
      BY <2>1, <2>4, SumZero
    <3>2. QED
      BY <3>1 DEF S
  <2>5. CASE \E e \in S : applied[e] # 0
    <3>1. PICK e \in S : applied[e] # 0
      BY <2>5
    <3>2. SumFunctionOnSet(applied, S) = applied[e] + SumFunctionOnSet(applied, S \ {e})
      BY <2>1, <2>2, SumTakesOut
    <3>3. IsFiniteSet(S \ {e}) /\ \A f \in S \ {e} : applied[f] = 0
      BY <2>1, <2>3, <3>1, FS_RemoveElement
    <3>4. SumFunctionOnSet(applied, S \ {e}) = 0
      BY <3>3, SumZero
    <3>5. applied[e] = 1
      BY <2>2, <3>1
    <3>6. SumFunctionOnSet(applied, S) = 1
      BY <3>2, <3>4, <3>5
    <3>7. QED
      BY <3>6 DEF S
  <2>6. QED
    BY <2>4, <2>5
<1>2. SingleInv /\ [Next]_vars => SingleInv'
  BY SingleStep
<1>3. QED
  BY <1>1, <1>2, SingleInit, PTL DEF Spec

\* Where the delivery has an event, by the status of its row.
Seen == [absent |-> "absent", pending |-> "pending", dead_letter |-> "parked",
         processed |-> "finished"]

\* What the specification of delivery sees of a table.
LEMMA StateSeen ==
  /\ TablesTyped => DeliveryState = [e \in Events |-> Seen[inbox[e].status]]
  /\ TablesTyped' => DeliveryState' = [e \in Events |-> Seen[inbox'[e].status]]
<1>1. ASSUME TablesTyped
      PROVE  DeliveryState = [e \in Events |-> Seen[inbox[e].status]]
  <2>1. \A e \in Events : inbox[e].status \in {"absent", "pending", "dead_letter", "processed"}
    BY <1>1 DEF TablesTyped, EventRows, InboxStatuses
  <2>2. \A e \in Events : DeliveryState[e] = Seen[inbox[e].status]
    BY <2>1 DEF DeliveryState, Seen
  <2>3. QED
    BY <2>2 DEF DeliveryState
<1>2. ASSUME TablesTyped'
      PROVE  DeliveryState' = [e \in Events |-> Seen[inbox'[e].status]]
  <2>1. \A e \in Events : inbox'[e].status \in {"absent", "pending", "dead_letter", "processed"}
    BY <1>2 DEF TablesTyped, EventRows, InboxStatuses
  <2>2. \A e \in Events : DeliveryState'[e] = Seen[inbox'[e].status]
    BY <2>1 DEF DeliveryState, Seen
  <2>3. QED
    BY <2>2 DEF DeliveryState
<1>3. QED
  BY <1>1, <1>2

\* The inbox implements the delivery it promises: an event is admitted, finished
\* in the step that takes effect, or parked and readmitted, and nothing else.
THEOREM InboxDelivers ==
  ASSUME OneWorker
  PROVE  Spec => ImplementsDelivery
<1> DEFINE delivery == <<DeliveryState, applied>>
<1>1. Init => DeliveryImpl!Init
  BY DEF Init, DeliveryImpl!Init, DeliveryState, NoEvent
<1>2. SingleInv /\ [Next]_vars => [DeliveryImpl!Next]_delivery
  <2> SUFFICES ASSUME SingleInv, [Next]_vars PROVE [DeliveryImpl!Next]_delivery
    OBVIOUS
  <2>0. /\ DeliveryState = [e \in Events |-> Seen[inbox[e].status]]
        /\ DeliveryState' = [e \in Events |-> Seen[inbox'[e].status]]
    BY StateSeen, TablesStep DEF SingleInv
  <2>1. CASE Stays
    <3>1. DeliveryState' = DeliveryState
      BY <2>0, <2>1 DEF Stays
    <3>2. QED
      BY <2>1, <3>1 DEF Stays
  <2>2. ASSUME NEW e \in Events, NEW from, NEW to, Moves(e, from, to)
        PROVE  DeliveryState' = [DeliveryState EXCEPT ![e] = DeliveryState'[e]]
    <3>1. \A f \in Events \ {e} : DeliveryState'[f] = DeliveryState[f]
      BY <2>0, <2>2 DEF Moves
    <3>2. QED
      BY <2>0, <3>1
  <2>3. ASSUME NEW e \in Events, NEW m \in Legal, Moves(e, m[1], m[2])
        PROVE  DeliveryImpl!Next
    <3>1. DeliveryState' = [DeliveryState EXCEPT ![e] = DeliveryState'[e]]
      BY <2>2, <2>3
    <3>2. CASE m = <<"absent", "pending">>
      <4>1. DeliveryState[e] = "absent" /\ DeliveryState'[e] = "pending" /\ UNCHANGED applied
        BY <2>3, <3>2, <2>0 DEF Moves, Seen
      <4>2. DeliveryImpl!Admit(e)
        BY <3>1, <4>1 DEF DeliveryImpl!Admit, DeliveryImpl!Move
      <4>3. QED
        BY <4>2 DEF DeliveryImpl!Next
    <3>3. CASE m = <<"pending", "processed">>
      <4>1. DeliveryState[e] = "pending" /\ DeliveryState'[e] = "finished"
            /\ applied' = [applied EXCEPT ![e] = @ + 1]
        BY <2>3, <3>3, <2>0 DEF Moves, Seen
      <4>2. DeliveryImpl!Finish(e)
        BY <3>1, <4>1 DEF DeliveryImpl!Finish, DeliveryImpl!Move
      <4>3. QED
        BY <4>2 DEF DeliveryImpl!Next
    <3>4. CASE m = <<"pending", "dead_letter">>
      <4>1. DeliveryState[e] = "pending" /\ DeliveryState'[e] = "parked" /\ UNCHANGED applied
        BY <2>3, <3>4, <2>0 DEF Moves, Seen
      <4>2. DeliveryImpl!Park(e)
        BY <3>1, <4>1 DEF DeliveryImpl!Park, DeliveryImpl!Move
      <4>3. QED
        BY <4>2 DEF DeliveryImpl!Next
    <3>5. CASE m = <<"dead_letter", "pending">>
      <4>1. DeliveryState[e] = "parked" /\ DeliveryState'[e] = "pending" /\ UNCHANGED applied
        BY <2>3, <3>5, <2>0 DEF Moves, Seen
      <4>2. DeliveryImpl!Readmit(e)
        BY <3>1, <4>1 DEF DeliveryImpl!Readmit, DeliveryImpl!Move
      <4>3. QED
        BY <4>2 DEF DeliveryImpl!Next
    <3>6. QED
      BY <3>2, <3>3, <3>4, <3>5 DEF Legal
  <2>4. QED
    BY <2>1, <2>3, SingleStep
<1>3. SingleInv /\ [Next]_vars => SingleInv'
  BY SingleStep
<1>4. QED
  BY <1>1, <1>2, <1>3, SingleInit, PTL DEF Spec, ImplementsDelivery, DeliveryImpl!Spec
=============================================================================
