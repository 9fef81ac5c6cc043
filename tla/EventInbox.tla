----------------------------- MODULE EventInbox -----------------------------
(***************************************************************************)
(* The transactional inbox and outbox of src/mitosis/events.py: producers  *)
(* enqueueing, workers running process_event and record_failure, outbox    *)
(* dispatchers, operators replaying dead letters, and the Cells poison     *)
(* events quarantine.  Every BEGIN IMMEDIATE .. COMMIT is one action; the  *)
(* handler runs inside process_event's, so it is part of that action, and  *)
(* a failing one leaves nothing but the exception.  A worker or dispatcher *)
(* may crash between two steps.                                            *)
(***************************************************************************)
EXTENDS Naturals, Sequences, FiniteSets, Functions

CONSTANTS
  Events,        \* event ids
  DedupeKeys, DedupeOf,
  Producing,     \* events whose handler stages an outbox event of its own key
  Cells, NoCell,
  CellOf,        \* the Cell an event is attributed to, or NoCell
  Workers,
  Dispatchers,
  MaxAttempts,
  MaxReplays     \* bound on operator replays, for model checking

ASSUME InboxAssumption ==
  /\ IsFiniteSet(Events)
  /\ DedupeOf \in [Events -> DedupeKeys]
  /\ Producing \subseteq Events
  /\ NoCell \notin Cells
  /\ CellOf \in [Events -> Cells \cup {NoCell}]
  /\ MaxAttempts \in Nat \ {0}
  /\ MaxReplays \in Nat

VARIABLES
  inbox,       \* event_inbox
  outbox,      \* event_outbox, in rowid order
  cell,        \* cells.status
  producer,    \* where each enqueue call is
  worker,      \* what each worker is doing
  dispatcher,  \* the rows each dispatcher has read and not yet handled
  applied,     \* how often each event's handler has committed
  delivered,   \* outbox rows the publisher has been given at least once
  replays

vars == <<inbox, outbox, cell, producer, worker, dispatcher, applied,
          delivered, replays>>

InboxStatuses == {"pending", "processed", "dead_letter"}
CellStatuses == {"alive", "dormant", "quarantined", "dead"}

NoEvent == [status |-> "absent", attempts |-> 0]
Free == [at |-> "free"]
Asleep == [at |-> "idle", rows |-> <<>>]

Init ==
  /\ inbox = [e \in Events |-> NoEvent]
  /\ outbox = <<>>
  /\ cell = [c \in Cells |-> "alive"]
  /\ producer = [e \in Events |-> "new"]
  /\ worker = [w \in Workers |-> Free]
  /\ dispatcher = [d \in Dispatchers |-> Asleep]
  /\ applied = [e \in Events |-> 0]
  /\ delivered = {}
  /\ replays = 0

-----------------------------------------------------------------------------
(* enqueue, idempotent on the dedupe key. *)

\* Mutant: keys are only unique among pending events.
KeyPending(e) ==
  \E f \in Events : DedupeOf[f] = DedupeOf[e] /\ inbox[f].status = "pending"

KeyTaken(e) ==
  \E f \in Events : DedupeOf[f] = DedupeOf[e] /\ inbox[f].status # "absent"

LookUpKey(e) ==
  /\ producer[e] = "new"
  /\ producer' = [producer EXCEPT ![e] = IF KeyTaken(e) THEN "done" ELSE "looked"]
  /\ UNCHANGED <<inbox, outbox, cell, worker, dispatcher, applied, delivered,
                 replays>>

\* dedupe_key is UNIQUE: a racing insert loses and returns the row that won.
Enqueue(e) ==
  /\ producer[e] = "looked"
  /\ producer' = [producer EXCEPT ![e] = "done"]
  /\ inbox' = IF KeyTaken(e) THEN inbox
              ELSE [inbox EXCEPT ![e].status = "pending"]
  /\ UNCHANGED <<outbox, cell, worker, dispatcher, applied, delivered, replays>>

-----------------------------------------------------------------------------
(* process_event. *)

\* The unlocked check; a delivery of an event that is not pending is dropped.
Deliver(w, e) ==
  /\ worker[w].at = "free"
  /\ inbox[e].status = "pending"
  /\ worker' = [worker EXCEPT ![w] = [at |-> "delivered", event |-> e]]
  /\ UNCHANGED <<inbox, outbox, cell, producer, dispatcher, applied, delivered,
                 replays>>

\* Outbox rows have a UNIQUE dedupe key of their own.
Staged(e) == \E i \in DOMAIN outbox : outbox[i].event = e

MayStage(e) == e \in Producing => ~Staged(e)

Stage(e) ==
  IF e \in Producing
  THEN Append(outbox, [event |-> e, published |-> FALSE])
  ELSE outbox

\* Re-checked under the write lock, then effect, outbox rows and the processed
\* mark commit together.
Process(w) ==
  /\ worker[w].at = "delivered"
  /\ LET e == worker[w].event
     IN  IF inbox[e].status = "pending"
         THEN /\ MayStage(e)
              /\ inbox' = [inbox EXCEPT ![e].status = "processed"]
              /\ outbox' = Stage(e)
              /\ applied' = [applied EXCEPT ![e] = @ + 1]
         ELSE UNCHANGED <<inbox, outbox, applied>>
  /\ worker' = [worker EXCEPT ![w] = Free]
  /\ UNCHANGED <<cell, producer, dispatcher, delivered, replays>>

\* The handler raises, or its outbox row cannot be staged: rolled back.
HandlerFails(w) ==
  /\ worker[w].at = "delivered"
  /\ inbox[worker[w].event].status = "pending"
  /\ worker' = [worker EXCEPT ![w].at = "failed"]
  /\ UNCHANGED <<inbox, outbox, cell, producer, dispatcher, applied, delivered,
                 replays>>

\* Mutant: a dormant Cell is left alone.
QuarantineAlive(c) ==
  IF c \in Cells /\ cell[c] = "alive"
  THEN [cell EXCEPT ![c] = "quarantined"] ELSE cell

\* The Cell a poison event implicates, if it is still at large.
Quarantine(c) ==
  IF c \in Cells /\ cell[c] \in {"alive", "dormant"}
  THEN [cell EXCEPT ![c] = "quarantined"] ELSE cell

\* Mutant: the attempt counter does not advance.
FirstAttempt(e) == 1

NextAttempt(e) == inbox[e].attempts + 1

\* A transaction of its own, which does not look at the event's status.
RecordFailure(w) ==
  LET e == worker[w].event
      attempts == NextAttempt(e)
      dead == attempts >= MaxAttempts
  IN  /\ worker[w].at = "failed"
      /\ inbox' = [inbox EXCEPT
                     ![e] = [status |-> IF dead THEN "dead_letter" ELSE "pending",
                             attempts |-> attempts]]
      /\ cell' = IF dead THEN Quarantine(CellOf[e]) ELSE cell
      /\ worker' = [worker EXCEPT ![w] = Free]
      /\ UNCHANGED <<outbox, producer, dispatcher, applied, delivered, replays>>

WorkerCrashes(w) ==
  /\ worker[w].at # "free"
  /\ worker' = [worker EXCEPT ![w] = Free]
  /\ UNCHANGED <<inbox, outbox, cell, producer, dispatcher, applied, delivered,
                 replays>>

\* Mutant: a processed event may be replayed too.
IsSettled(e) == inbox[e].status \in {"dead_letter", "processed"}

IsDeadLetter(e) == inbox[e].status = "dead_letter"

ReplayDeadLetter(e) ==
  /\ replays < MaxReplays
  /\ IsDeadLetter(e)
  /\ inbox' = [inbox EXCEPT ![e] = [status |-> "pending", attempts |-> 0]]
  /\ replays' = replays + 1
  /\ UNCHANGED <<outbox, cell, producer, worker, dispatcher, applied, delivered>>

-----------------------------------------------------------------------------
(* dispatch_outbox: reads the unpublished rows once, then publishes and marks *)
(* them one by one.                                                           *)

Unpublished == {i \in DOMAIN outbox : ~outbox[i].published}

\* Mutant: newest first.
NewestFirst(S) ==
  CHOOSE s \in [1 .. Cardinality(S) -> S] :
    \A i, j \in DOMAIN s : i < j => s[i] > s[j]

\* The rows of S in rowid order.
InOrder(S) ==
  CHOOSE s \in [1 .. Cardinality(S) -> S] :
    \A i, j \in DOMAIN s : i < j => s[i] < s[j]

ReadOutbox(d) ==
  /\ dispatcher[d] = Asleep
  /\ Unpublished # {}
  /\ dispatcher' = [dispatcher EXCEPT
                      ![d] = [at |-> "publish", rows |-> InOrder(Unpublished)]]
  /\ UNCHANGED <<inbox, outbox, cell, producer, worker, applied, delivered,
                 replays>>

Publish(d) ==
  /\ dispatcher[d].at = "publish"
  /\ delivered' = delivered \cup {Head(dispatcher[d].rows)}
  /\ dispatcher' = [dispatcher EXCEPT ![d].at = "mark"]
  /\ UNCHANGED <<inbox, outbox, cell, producer, worker, applied, replays>>

\* Mutant: nothing is marked.
MarkNothing(d) == outbox

\* The outbox with the row dispatcher d has just published marked.
MarkHead(d) == [outbox EXCEPT ![Head(dispatcher[d].rows)].published = TRUE]

\* Mutant: goes on publishing after the last row.
GoOn(rows) == [at |-> "publish", rows |-> rows]

AfterMark(rows) ==
  IF rows = <<>> THEN Asleep ELSE [at |-> "publish", rows |-> rows]

MarkPublished(d) ==
  /\ dispatcher[d].at = "mark"
  /\ outbox' = MarkHead(d)
  /\ dispatcher' = [dispatcher EXCEPT ![d] = AfterMark(Tail(dispatcher[d].rows))]
  /\ UNCHANGED <<inbox, cell, producer, worker, applied, delivered, replays>>

\* A crash, or a publisher that raises.
DispatcherStops(d) ==
  /\ dispatcher[d] # Asleep
  /\ dispatcher' = [dispatcher EXCEPT ![d] = Asleep]
  /\ UNCHANGED <<inbox, outbox, cell, producer, worker, applied, delivered,
                 replays>>

-----------------------------------------------------------------------------
(* sleep, wake, quarantine, clear_quarantine and kill (lifecycle.py). *)

CellTransitions(s) ==
  CASE s = "alive" -> {"dormant", "quarantined", "dead"}
    [] s = "dormant" -> {"alive", "quarantined", "dead"}
    [] s = "quarantined" -> {"alive", "dormant", "dead"}
    [] OTHER -> {}

MoveCell(c, s) ==
  /\ s \in CellTransitions(cell[c])
  /\ cell' = [cell EXCEPT ![c] = s]
  /\ UNCHANGED <<inbox, outbox, producer, worker, dispatcher, applied, delivered,
                 replays>>

-----------------------------------------------------------------------------
WorkerStep(w) ==
  \/ \E e \in Events : Deliver(w, e)
  \/ Process(w)
  \/ HandlerFails(w)
  \/ RecordFailure(w)

DispatchStep(d) == ReadOutbox(d) \/ Publish(d) \/ MarkPublished(d)

Next ==
  \/ \E e \in Events : LookUpKey(e) \/ Enqueue(e) \/ ReplayDeadLetter(e)
  \/ \E w \in Workers : WorkerStep(w) \/ WorkerCrashes(w)
  \/ \E d \in Dispatchers : DispatchStep(d) \/ DispatcherStops(d)
  \/ \E c \in Cells, s \in CellStatuses : MoveCell(c, s)

\* Redelivery and dispatch are retried by a worker and a dispatcher that do not
\* always stop at the same step; the others may.  A handler may fail for ever.
Fairness ==
  LET w == CHOOSE w \in Workers : TRUE
      d == CHOOSE d \in Dispatchers : TRUE
  IN  /\ SF_vars(\E e \in Events : Deliver(w, e))
      /\ SF_vars(Process(w) \/ HandlerFails(w))
      /\ SF_vars(RecordFailure(w))
      /\ SF_vars(ReadOutbox(d))
      /\ SF_vars(Publish(d))
      /\ SF_vars(MarkPublished(d))

Spec == Init /\ [][Next]_vars
FairSpec == Spec /\ Fairness

-----------------------------------------------------------------------------
(* Properties. *)

\* Every table and process keeps its type.
TypeOK ==
  /\ inbox \in [Events -> [status : InboxStatuses \cup {"absent"},
                           attempts : Nat]]
  /\ outbox \in Seq([event : Events, published : BOOLEAN])
  /\ cell \in [Cells -> CellStatuses]
  /\ producer \in [Events -> {"new", "looked", "done"}]
  /\ worker \in [Workers ->
                   {Free} \cup [at : {"delivered", "failed"}, event : Events]]
  /\ \A d \in Dispatchers :
       \/ dispatcher[d] = Asleep
       \/ /\ dispatcher[d].at \in {"publish", "mark"}
          /\ dispatcher[d].rows \in Seq(DOMAIN outbox)
          /\ dispatcher[d].rows # <<>>
  /\ applied \in [Events -> Nat]
  /\ delivered \subseteq DOMAIN outbox
  /\ replays \in 0 .. MaxReplays

\* Charter C6: however often an event is enqueued, redelivered, failed, replayed
\* or interrupted, its effects are committed at most once per dedupe key.
EffectOncePerKey ==
  \A k \in DedupeKeys :
    SumFunctionOnSet(applied, {e \in Events : DedupeOf[e] = k}) <= 1

\* Subscribers see produced events for the first time in the order their
\* transactions committed, whichever dispatchers crash or overlap.
DeliveredInOrder ==
  \A i, j \in DOMAIN outbox : i < j /\ j \in delivered => i \in delivered

\* An event is only given up with the Cell it implicates out of action.
DeadLetterIsolates ==
  [][\A e \in Events :
       /\ inbox[e].status # "dead_letter"
       /\ inbox'[e].status = "dead_letter"
       /\ CellOf[e] # NoCell
       => cell'[CellOf[e]] \notin {"alive", "dormant"}]_vars

\* The inbox implements the delivery it promises.
DeliveryState ==
  [e \in Events |->
     CASE inbox[e].status = "absent" -> "absent"
       [] inbox[e].status = "pending" -> "pending"
       [] inbox[e].status = "dead_letter" -> "parked"
       [] inbox[e].status = "processed" -> "finished"]

DeliveryImpl ==
  INSTANCE Delivery WITH state <- DeliveryState, effects <- applied

ImplementsDelivery == DeliveryImpl!Spec

\* No admitted event is dropped: it is processed or dead-lettered in the end, and
\* what its handler produced is published and marked.
NothingIsLost ==
  /\ \A e \in Events :
       inbox[e].status = "pending" ~> inbox[e].status \in {"processed", "dead_letter"}
  /\ \A e \in Producing :
       Staged(e) ~> \E i \in DOMAIN outbox : outbox[i].event = e /\ outbox[i].published

-----------------------------------------------------------------------------
(* A claim of the repository that two workers break. *)

\* process_event: "If already processed or dead-lettered, no-op - this is what
\* makes at-least-once redelivery safe (Charter C6)."
HandledOnce == \A e \in Events : applied[e] <= 1
=============================================================================
