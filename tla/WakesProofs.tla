----------------------------- MODULE WakesProofs ------------------------------
(***************************************************************************)
(* For any number of Cells, epochs and ticks, whatever they cost and       *)
(* however often they crash or overlap: a wake's calls are each made once, *)
(* none for nothing, and what it came to is told once.                     *)
(***************************************************************************)
EXTENDS Wakes, SequenceTheorems, WellFoundedInduction, TLAPS

\* The reason a wake has for the call of a step.
Warranted(w, step) ==
  /\ step = Repair => call[<<w, Reply>>] = "invalid"
  /\ step \in WorkflowSteps => IsDrafted(w)

\* A tick at a call has its reason; one about to tell a proposal has its draft.
TickSound(t) ==
  Current(t) \in Wakes =>
    /\ tick[t].at \in {"calling", "waiting"} =>
         tick[t].what \in Steps /\ Warranted(Current(t), tick[t].what)
    /\ tick[t].at = "recording" /\ tick[t].what \in Proposed =>
         IsDrafted(Current(t))

Statuses(step) == {"absent", "reserved", "unanswered"} \cup Texts(step)

TablesTyped ==
  /\ setup \in Setups
  /\ DOMAIN tick = Ticks /\ DOMAIN record = Wakes /\ DOMAIN call = Keys
  /\ \A w \in Wakes, step \in Steps : call[<<w, step>>] \in Statuses(step)
  /\ requests \in [Keys -> Nat]

\* The inductive invariant.
IndInv ==
  /\ TablesTyped
  /\ \A k \in Keys : call[k] = "absent" => requests[k] = 0
  /\ \A w \in Wakes : record[w] \in Proposed => IsDrafted(w)
  /\ \A t \in Ticks : TickSound(t)

\* What a table says of a text it keeps saying.
TextsStay ==
  \A k \in Keys : call[k] \in {"valid", "invalid"} => call'[k] = call[k]

-----------------------------------------------------------------------------
\* A wake's calls are its reply, its repair, and the steps of a workflow.
LEMMA StepKinds ==
  /\ Reply # Repair /\ Reply[1] = "reply" /\ Repair[1] = "repair"
  /\ Reply \notin WorkflowSteps /\ Repair \notin WorkflowSteps
  /\ Steps = {Reply, Repair} \cup WorkflowSteps
  /\ \A step \in WorkflowSteps :
       step[1] \in {"refine", "draft", "review", "critique", "revise"}
BY DEF Reply, Repair, WorkflowSteps, Steps

\* A text that stays keeps what it warrants.
LEMMA WarrantsStay ==
  ASSUME TextsStay, NEW w \in Wakes
  PROVE  /\ IsDrafted(w) => IsDrafted(w)'
         /\ \A step \in Steps : Warranted(w, step) => Warranted(w, step)'
<1>1. \A step \in Steps : <<w, step>> \in Keys
  BY DEF Keys
<1>2. Reply \in Steps /\ Repair \in Steps
  BY DEF Steps
<1>3. IsDrafted(w) => IsDrafted(w)'
  BY <1>1, <1>2 DEF IsDrafted, TextsStay
<1>4. QED
  BY <1>1, <1>2, <1>3 DEF Warranted, TextsStay

\* From a call that had its reason, and a text that is what the table now says
\* (`drafted`, `invalid`), the loop goes on to one that has its reason.
LEMMA AfterSound ==
  ASSUME NEW structure \in Structures, NEW step \in Steps,
         NEW text \in Texts(step) \cup {"none"},
         NEW drafted \in BOOLEAN, NEW invalid \in BOOLEAN,
         step = Repair => invalid,
         step \in WorkflowSteps => drafted,
         step = Reply /\ text = "invalid" => invalid,
         step \in {Reply, Repair} /\ text = "valid" => drafted
  PROVE  LET place == After(structure, step, text)
         IN  \/ /\ place.at = "calling"
                /\ place.what \in Steps
                /\ place.what = Repair => invalid
                /\ place.what \in WorkflowSteps => drafted
             \/ /\ place.at = "recording"
                /\ place.what \in Proposed => drafted
<1> DEFINE Sound(place) ==
             \/ /\ place.at = "calling"
                /\ place.what \in Steps
                /\ place.what = Repair => invalid
                /\ place.what \in WorkflowSteps => drafted
             \/ /\ place.at = "recording"
                /\ place.what \in Proposed => drafted
<1>1. \A next \in WorkflowSteps : drafted => Sound(Ask(next))
  BY StepKinds DEF Ask
<1>2. \A round : drafted => Sound(Kept(round))
  BY DEF Kept, Tell
<1>3. drafted => Sound(RunWorkflow(structure))
  <2>1. <<"refine", 0>> \in WorkflowSteps /\ <<"draft", 0>> \in WorkflowSteps
    BY DEF WorkflowSteps
  <2>2. <<"critique", 0>> \in WorkflowSteps
    BY WakesAssumption DEF WorkflowSteps, Rounds
  <2>3. drafted => Sound(Tell("draft"))
    BY DEF Tell
  <2> HIDE DEF Sound
  <2>4. QED
    BY <1>1, <2>1, <2>2, <2>3 DEF RunWorkflow, Structures
<1>4. CASE step = Reply
  <2>1. text \in {"none", "valid", "invalid"}
    BY <1>4 DEF Texts, Reply
  <2>2. Sound(Tell("call_failed"))
    BY DEF Tell, Proposed
  <2>3. invalid => Sound(Ask(Repair))
    BY StepKinds DEF Ask
  <2>4. After(structure, step, text) = AfterReply(structure, text)
    BY <1>4, StepKinds DEF After
  <2> HIDE DEF Sound
  <2>5. Sound(AfterReply(structure, text))
    BY <1>3, <1>4, <2>1, <2>2, <2>3 DEF AfterReply
  <2>6. Sound(After(structure, step, text))
    BY <2>4, <2>5
  <2>7. QED
    BY <2>6 DEF Sound
<1>5. CASE step = Repair
  <2>1. Sound(Tell("unparseable"))
    BY DEF Tell, Proposed
  <2>2. After(structure, step, text) = AfterRepair(structure, text)
    BY <1>5, StepKinds DEF After
  <2> HIDE DEF Sound
  <2>3. Sound(AfterRepair(structure, text))
    BY <1>3, <1>5, <2>1 DEF AfterRepair
  <2>4. Sound(After(structure, step, text))
    BY <2>2, <2>3
  <2>5. QED
    BY <2>4 DEF Sound
<1>6. CASE step \in WorkflowSteps
  <2>1. drafted /\ step # Reply /\ step # Repair
    BY <1>6, StepKinds
  <2>2. Sound(AfterRefinement(text))
    BY <1>2, <2>1 DEF AfterRefinement
  <2>3. Sound(AfterReview(step, text))
    <3>1. <<"review", 0>> \in WorkflowSteps
      BY DEF WorkflowSteps
    <3> HIDE DEF Sound
    <3>2. QED
      BY <1>1, <1>2, <2>1, <3>1 DEF AfterReview
  <2>4. step[1] \in {"critique", "revise"} => Sound(AfterCritique(step, text))
    <3>1. SUFFICES ASSUME step[1] \in {"critique", "revise"}
                   PROVE  Sound(AfterCritique(step, text))
      OBVIOUS
    <3>2. step[2] \in Rounds
      BY <1>6, <3>1 DEF WorkflowSteps
    <3>3. <<"revise", step[2]>> \in WorkflowSteps
      BY <3>2 DEF WorkflowSteps
    <3>4. step[2] + 1 \in Rounds => <<"critique", step[2] + 1>> \in WorkflowSteps
      BY DEF WorkflowSteps
    <3> HIDE DEF Sound
    <3>5. QED
      BY <1>1, <1>2, <2>1, <3>1, <3>3, <3>4 DEF AfterCritique
  <2> HIDE DEF Sound
  <2>5. Sound(After(structure, step, text))
    BY <1>6, <2>1, <2>2, <2>3, <2>4, StepKinds DEF After
  <2>6. QED
    BY <2>5 DEF Sound
<1>7. QED
  BY <1>4, <1>5, <1>6, StepKinds

-----------------------------------------------------------------------------
(* The calls. *)

\* Nothing is called, told or running at first.
LEMMA InitInv == Init => IndInv
<1> SUFFICES ASSUME Init PROVE IndInv
  OBVIOUS
<1>1. TablesTyped
  BY DEF Init, TablesTyped, Statuses, Keys
<1>2. \A t \in Ticks : tick[t].at = "idle"
  BY DEF Init, Idle
<1>3. \A t \in Ticks : TickSound(t)
  BY <1>2 DEF TickSound
<1>4. QED
  BY <1>1, <1>3 DEF Init, IndInv, Proposed

\* What the steps of one call may do to the table of calls.
CallsMove(k) ==
  \/ UNCHANGED <<call, requests>>
  \/ /\ call[k] = "absent"
     /\ call' = [call EXCEPT ![k] = "reserved"]
     /\ requests' = [requests EXCEPT ![k] = @ + 1]
     /\ \E t \in Ticks : tick[t].at = "calling" /\ k = KeyOf(t)
  \/ /\ call[k] = "reserved"
     /\ \E status \in {"unanswered"} \cup Texts(k[2]) :
          call' = [call EXCEPT ![k] = status]
     /\ requests' = requests

\* Every step is one of those for some call, or makes and answers none.
LEMMA EveryStepMovesOneCall ==
  ASSUME [Next]_vars
  PROVE  (UNCHANGED <<call, requests>>) \/ \E k : CallsMove(k)
<1> USE DEF gateway
<1>1. CASE UNCHANGED vars
  BY <1>1 DEF vars
<1>2. ASSUME NEW t \in Ticks, TickStep(t)
      PROVE  (UNCHANGED <<call, requests>>) \/ CallsMove(KeyOf(t))
  <2>1. CASE cmd_tick(t) \/ OpenTick(t) \/ Guard(t) \/ SelectCells(t)
             \/ (\E c \in Cells : EnqueueWake(t, c)) \/ SelectReady(t)
    BY <2>1 DEF cmd_tick, OpenTick, Guard, SelectCells, EnqueueWake, SelectReady
  <2>2. CASE StartWake(t) \/ Record(t) \/ MarkProcessed(t) \/ Judge(t)
    BY <2>2 DEF StartWake, Record, MarkProcessed, Judge
  <2>3. ASSUME NEW left \in Lefts, Call(t, left)
        PROVE  (UNCHANGED <<call, requests>>) \/ CallsMove(KeyOf(t))
    BY <2>3 DEF Call, KeyUsed, CallsMove
  <2>4. ASSUME NEW left \in Lefts, NEW cost \in Costs, Answered(t, cost, left)
        PROVE  (UNCHANGED <<call, requests>>) \/ CallsMove(KeyOf(t))
    BY <2>4 DEF Answered, CallsMove
  <2>5. ASSUME NEW left \in Lefts, ProviderFails(t, left)
        PROVE  (UNCHANGED <<call, requests>>) \/ CallsMove(KeyOf(t))
    BY <2>5 DEF ProviderFails, CallsMove
  <2>6. QED
    BY <1>2, <2>1, <2>2, <2>3, <2>4, <2>5 DEF TickStep, Answer
<1>3. ASSUME NEW k \in Keys, SweepStrandedCall(k)
      PROVE  CallsMove(k)
  BY <1>3 DEF SweepStrandedCall, CallsMove
<1>4. CASE \E t \in Ticks : cmd_run_wakes(t) \/ TickCrashes(t)
  BY <1>4 DEF cmd_run_wakes, TickCrashes
<1>5. CASE cmd_advance_time \/ cmd_ack_alarm \/ (\E b \in BOOLEAN : Permit(b))
  BY <1>5 DEF cmd_advance_time, cmd_ack_alarm, Permit
<1>6. CASE \E c \in Cells :
             cmd_fund_cell(c) \/ (\E s \in CellStatuses : MoveCell(c, s))
  BY <1>6 DEF cmd_fund_cell, MoveCell
<1>7. QED
  BY <1>1, <1>2, <1>3, <1>4, <1>5, <1>6 DEF Next

\* The tables of calls keep their types, and a text that is in stays.
LEMMA CallsSound ==
  ASSUME IndInv, [Next]_vars
  PROVE  /\ TextsStay
         /\ DOMAIN call' = Keys
         /\ \A w \in Wakes, step \in Steps : call'[<<w, step>>] \in Statuses(step)
         /\ requests' \in [Keys -> Nat]
         /\ \A k \in Keys : call'[k] = "absent" => requests'[k] = 0
<1>1. CASE UNCHANGED <<call, requests>>
  BY <1>1 DEF IndInv, TablesTyped, TextsStay
<1>2. ASSUME NEW k, CallsMove(k)
      PROVE  /\ TextsStay
             /\ DOMAIN call' = Keys
             /\ \A w \in Wakes, step \in Steps :
                  call'[<<w, step>>] \in Statuses(step)
             /\ requests' \in [Keys -> Nat]
             /\ \A j \in Keys : call'[j] = "absent" => requests'[j] = 0
  <2>1. DOMAIN call' = Keys
    BY <1>2 DEF IndInv, TablesTyped, CallsMove
  <2>2. requests' \in [Keys -> Nat]
    BY <1>2 DEF IndInv, TablesTyped, CallsMove
  <2>3. TextsStay
    BY <1>2 DEF IndInv, TablesTyped, CallsMove, TextsStay
  <2>4. \A j \in Keys : call'[j] = "absent" => requests'[j] = 0
    <3>1. ASSUME NEW j \in Keys, call'[j] = "absent" PROVE requests'[j] = 0
      <4>1. \A status \in {"unanswered"} \cup Texts(j[2]) : status # "absent"
        BY DEF Texts
      <4>2. QED
        BY <1>2, <3>1, <4>1 DEF IndInv, TablesTyped, CallsMove
    <3>2. QED
      BY <3>1
  <2>5. \A w \in Wakes, step \in Steps : call'[<<w, step>>] \in Statuses(step)
    <3>1. SUFFICES ASSUME NEW w \in Wakes, NEW step \in Steps
                   PROVE  call'[<<w, step>>] \in Statuses(step)
      OBVIOUS
    <3>2. call[<<w, step>>] \in Statuses(step) /\ <<w, step>> \in Keys
      BY DEF IndInv, TablesTyped, Keys
    <3>3. CASE k = <<w, step>>
      <4>1. k[2] = step
        BY <3>3
      <4>2. QED
        BY <1>2, <3>2, <3>3, <4>1 DEF IndInv, TablesTyped, CallsMove, Statuses
    <3>4. CASE k # <<w, step>>
      BY <1>2, <3>2, <3>4 DEF IndInv, TablesTyped, CallsMove
    <3>5. QED
      BY <3>3, <3>4
  <2>6. QED
    BY <2>1, <2>2, <2>3, <2>4, <2>5
<1>3. QED
  BY <1>1, <1>2, EveryStepMovesOneCall

-----------------------------------------------------------------------------
(* The ticks. *)

\* A tick that does not move stays sound.
LEMMA StillTick ==
  ASSUME TextsStay, NEW u \in Ticks, TickSound(u), tick'[u] = tick[u]
  PROVE  TickSound(u)'
<1> SUFFICES ASSUME Current(u) \in Wakes
             PROVE  TickSound(u)'
  BY DEF TickSound, Current
<1> DEFINE w == Current(u)
<1>1. IsDrafted(w) => \E s \in {Reply, Repair} : call'[<<w, s>>] = "valid"
  BY WarrantsStay DEF IsDrafted
<1>2. call[<<w, Reply>>] = "invalid" => call'[<<w, Reply>>] = "invalid"
  BY DEF TextsStay, Keys, Steps
<1>3. QED
  BY <1>1, <1>2 DEF TickSound, Warranted, IsDrafted, Current

\* Where no call is made and no proposal told nothing needs a reason.
LEMMA ElsewhereIsSound ==
  ASSUME NEW t \in Ticks, tick'[t].at \notin {"calling", "waiting", "recording"}
  PROVE  TickSound(t)'
BY DEF TickSound

\* A call that reads as a text, or does not, leads where After says.
LEMMA ProceedIsSound ==
  ASSUME IndInv, TextsStay, NEW t \in Ticks,
         tick[t].at \in {"calling", "waiting"},
         NEW text \in Texts(tick[t].what) \cup {"none"},
         text # "none" => call'[KeyOf(t)] = text,
         Proceed(t, text), UNCHANGED setup
  PROVE  TickSound(t)'
<1> DEFINE w == Current(t)
           step == tick[t].what
           place == After(setup.structure[w[2]], step, text)
<1>1. tick'[t] = [at |-> place.at, epoch |-> tick[t].epoch,
                  todo |-> tick[t].todo \ {w}, wake |-> w, what |-> place.what]
  BY DEF IndInv, TablesTyped, Proceed, To, Take, Goto
<1>2. Current(t)' = w
  BY <1>1 DEF Current
<1>3. SUFFICES ASSUME w \in Wakes
               PROVE  TickSound(t)'
  BY <1>2 DEF TickSound
<1>4. step \in Steps /\ Warranted(w, step)
  BY <1>3 DEF IndInv, TickSound
<1>5. setup.structure[w[2]] \in Structures
  <2>1. setup.structure \in [Cells -> Structures]
    BY WakesAssumption DEF IndInv, TablesTyped
  <2>2. w[2] \in Cells
    BY <1>3 DEF Wakes
  <2>3. QED
    BY <2>1, <2>2
<1>6. KeyOf(t) = <<w, step>>
  BY DEF KeyOf
<1> DEFINE drafted == \E s \in {Reply, Repair} : call'[<<w, s>>] = "valid"
           invalid == call'[<<w, Reply>>] = "invalid"
<1>7. /\ step = Repair => invalid
      /\ step \in WorkflowSteps => drafted
  BY <1>4, <1>3, WarrantsStay DEF Warranted, IsDrafted
<1>8. /\ step = Reply /\ text = "invalid" => invalid
      /\ step \in {Reply, Repair} /\ text = "valid" => drafted
  BY <1>6
<1>9. \/ /\ place.at = "calling"
         /\ place.what \in Steps
         /\ place.what = Repair => invalid
         /\ place.what \in WorkflowSteps => drafted
      \/ /\ place.at = "recording"
         /\ place.what \in Proposed => drafted
  <2> HIDE DEF drafted, invalid, step
  <2>1. drafted \in BOOLEAN /\ invalid \in BOOLEAN
    BY DEF drafted, invalid
  <2>2. text \in Texts(step) \cup {"none"}
    BY DEF step
  <2>3. QED
    BY <1>4, <1>5, <1>7, <1>8, <2>1, <2>2, AfterSound
<1>10. tick'[t].at = place.at /\ tick'[t].what = place.what
  BY <1>1
<1> HIDE DEF place, drafted, invalid, w
<1>11. /\ tick'[t].at = "calling" \/ tick'[t].at = "recording"
       /\ tick'[t].at = "calling" => /\ tick'[t].what \in Steps
                                     /\ tick'[t].what = Repair => invalid
                                     /\ tick'[t].what \in WorkflowSteps => drafted
       /\ tick'[t].at = "recording" /\ tick'[t].what \in Proposed => drafted
  BY <1>9, <1>10
<1>12. IsDrafted(Current(t))' <=> drafted
  BY <1>2 DEF IsDrafted, drafted
<1>13. call'[<<Current(t)', Reply>>] = "invalid" <=> invalid
  BY <1>2 DEF invalid
<1>14. QED
  BY <1>11, <1>12, <1>13 DEF TickSound, Warranted

\* Wherever a step takes a tick, the tick has its reason to be there.
LEMMA TicksSound ==
  ASSUME IndInv, [Next]_vars
  PROVE  /\ DOMAIN tick' = Ticks
         /\ \A u \in Ticks : TickSound(u)'
<1>1. TextsStay
  BY CallsSound
<1>2. tick' = tick => \A u \in Ticks : TickSound(u)'
  BY <1>1, StillTick DEF IndInv
<1>3. ASSUME NEW t \in Ticks, NEW place, Goto(t, place), TickSound(t)'
      PROVE  \A u \in Ticks : TickSound(u)'
  <2>1. \A u \in Ticks \ {t} : tick'[u] = tick[u]
    BY <1>3 DEF Goto, IndInv, TablesTyped
  <2>2. QED
    BY <1>1, <1>3, <2>1, StillTick DEF IndInv
<1>4. ASSUME NEW t \in Ticks, NEW place, Goto(t, place),
             place.at \notin {"calling", "waiting", "recording"}
      PROVE  \A u \in Ticks : TickSound(u)'
  <2>1. tick'[t] = place
    BY <1>4 DEF Goto, IndInv, TablesTyped
  <2>2. TickSound(t)'
    BY <1>4, <2>1, ElsewhereIsSound
  <2>3. QED
    BY <1>3, <1>4, <2>2
<1>5. ASSUME NEW t \in Ticks, TickStep(t) \/ cmd_run_wakes(t) \/ TickCrashes(t)
      PROVE  \E place : Goto(t, place)
  <2>1. CASE cmd_tick(t) \/ OpenTick(t) \/ Guard(t) \/ SelectCells(t)
             \/ (\E c \in Cells : EnqueueWake(t, c)) \/ SelectReady(t)
    BY <2>1 DEF cmd_tick, OpenTick, Guard, SelectCells, EnqueueWake, SelectReady,
                Stop, On
  <2>2. CASE StartWake(t) \/ Record(t) \/ MarkProcessed(t) \/ Judge(t)
    BY <2>2 DEF StartWake, Record, MarkProcessed, Judge, Stop, On, To, Take
  <2>3. CASE (\E left \in Lefts : Call(t, left)) \/ Answer(t)
    BY <2>3 DEF Call, Answer, Answered, ProviderFails, Proceed, Refused, To, Take,
                Stop
  <2>4. CASE cmd_run_wakes(t) \/ TickCrashes(t)
    BY <2>4 DEF cmd_run_wakes, TickCrashes
  <2>5. QED
    BY <1>5, <2>1, <2>2, <2>3, <2>4 DEF TickStep
<1>6. ASSUME NEW t \in Ticks, TickStep(t) \/ cmd_run_wakes(t) \/ TickCrashes(t)
      PROVE  \A u \in Ticks : TickSound(u)'
  <2>1. CASE cmd_tick(t) \/ OpenTick(t) \/ Guard(t) \/ SelectCells(t)
             \/ (\E c \in Cells : EnqueueWake(t, c)) \/ SelectReady(t)
    BY <2>1, <1>4 DEF cmd_tick, OpenTick, Guard, SelectCells, EnqueueWake,
                      SelectReady, Stop, On, Idle
  <2>2. CASE Record(t) \/ MarkProcessed(t) \/ Judge(t)
    BY <2>2, <1>4 DEF Record, MarkProcessed, Judge, Stop, On, To, Take, Told,
                      Idle
  <2>3. CASE StartWake(t)
    <3> DEFINE w == First(queue, tick[t].todo)
    <3>1. CASE Take(t, w, Told)
      BY <3>1, <1>4 DEF Take, Told
    <3>2. CASE Take(t, w, Ask(Reply))
      <4>1. tick'[t].at = "calling" /\ tick'[t].what = Reply
        BY <3>2 DEF Take, Goto, Ask, IndInv, TablesTyped
      <4>2. TickSound(t)'
        BY <4>1, StepKinds DEF TickSound, Warranted
      <4>3. QED
        BY <3>2, <4>2, <1>3 DEF Take
    <3>3. CASE Take(t, w, Tell("refused"))
      <4>1. tick'[t].at = "recording" /\ tick'[t].what = "refused"
        BY <3>3 DEF Take, Goto, Tell, IndInv, TablesTyped
      <4>2. TickSound(t)'
        BY <4>1 DEF TickSound, Proposed
      <4>3. QED
        BY <3>3, <4>2, <1>3 DEF Take
    <3>4. QED
      BY <2>3, <3>1, <3>2, <3>3 DEF StartWake
  <2>4. CASE \E text \in Texts(tick[t].what) \cup {"none"} :
               /\ text # "none" => call'[KeyOf(t)] = text
               /\ Proceed(t, text)
               /\ UNCHANGED setup /\ tick[t].at \in {"calling", "waiting"}
    BY <2>4, <1>1, <1>3, ProceedIsSound DEF Proceed, To, Take
  <2>5. CASE Refused(t) /\ UNCHANGED setup /\ tick[t].at \in {"calling", "waiting"}
    <3>1. CASE Stop(t)
      BY <3>1, <1>4 DEF Stop, Idle
    <3>2. CASE Proceed(t, "none")
      BY <2>4, <2>5, <3>2
    <3>3. QED
      BY <2>5, <3>1, <3>2 DEF Refused
  <2>6. ASSUME NEW left \in Lefts, Call(t, left)
        PROVE  \A u \in Ticks : TickSound(u)'
    <3>1. UNCHANGED setup /\ tick[t].at = "calling"
      BY <2>6 DEF Call, time
    <3>2. CASE Refused(t)
      BY <2>5, <3>1, <3>2
    <3>3. CASE KeyUsed(KeyOf(t)) /\ Proceed(t, TextOf(KeyOf(t))) /\ UNCHANGED call
      <4>1. CASE Current(t) \in Wakes
        <5>1. tick[t].what \in Steps
          BY <3>1, <4>1 DEF IndInv, TickSound
        <5>2. call[KeyOf(t)] \in Statuses(tick[t].what)
          BY <4>1, <5>1 DEF IndInv, TablesTyped, KeyOf
        <5>3. /\ TextOf(KeyOf(t)) \in Texts(tick[t].what) \cup {"none"}
              /\ TextOf(KeyOf(t)) # "none" => call'[KeyOf(t)] = TextOf(KeyOf(t))
          BY <3>3, <5>2 DEF TextOf, HasText, Statuses
        <5>4. QED
          BY <2>4, <3>1, <3>3, <5>3
      <4>2. CASE Current(t) \notin Wakes
        <5>1. Current(t)' = Current(t)
          BY <3>3 DEF Proceed, To, Take, Goto, Current, IndInv, TablesTyped
        <5>2. TickSound(t)'
          BY <4>2, <5>1 DEF TickSound
        <5>3. QED
          BY <1>3, <3>3, <5>2 DEF Proceed, To, Take
      <4>3. QED
        BY <4>1, <4>2
    <3>4. CASE /\ ~KeyUsed(KeyOf(t)) /\ To(t, Wait(KeyOf(t)[2]))
               /\ call' = [call EXCEPT ![KeyOf(t)] = "reserved"]
      <4>1. /\ tick'[t].at = "waiting" /\ tick'[t].what = tick[t].what
            /\ tick'[t].wake = tick[t].wake
        BY <3>4 DEF To, Take, Current, Goto, Wait, KeyOf, IndInv, TablesTyped
      <4>2. Current(t)' = Current(t)
        BY <4>1 DEF Current
      <4>3. SUFFICES ASSUME Current(t) \in Wakes
                     PROVE  TickSound(t)'
        <5>1. TickSound(t)'
          BY <4>2, <4>3 DEF TickSound
        <5>2. QED
          BY <5>1, <1>3, <3>4 DEF To, Take
      <4>4. tick[t].what \in Steps /\ Warranted(Current(t), tick[t].what)
        BY <3>1, <4>3 DEF IndInv, TickSound
      <4>5. \A step \in Steps :
              call[<<Current(t), step>>] = "valid" =>
                call'[<<Current(t), step>>] = "valid"
        BY <1>1, <4>3 DEF TextsStay, Keys
      <4>6. call[<<Current(t), Reply>>] = "invalid" =>
              call'[<<Current(t), Reply>>] = "invalid"
        BY <1>1, <4>3, StepKinds DEF TextsStay, Keys
      <4>7. QED
        BY <4>1, <4>2, <4>4, <4>5, <4>6, StepKinds DEF TickSound, Warranted, IsDrafted
    <3>5. QED
      BY <2>6, <3>2, <3>3, <3>4 DEF Call
  <2>7. ASSUME NEW left \in Lefts, NEW cost \in Costs, Answered(t, cost, left)
        PROVE  \A u \in Ticks : TickSound(u)'
    <3>1. UNCHANGED setup /\ tick[t].at = "waiting"
      BY <2>7 DEF Answered, time
    <3>2. CASE Refused(t)
      BY <2>5, <3>1, <3>2
    <3>3. ASSUME NEW text \in Texts(tick[t].what), Proceed(t, text),
                 call' = [call EXCEPT ![KeyOf(t)] = text]
          PROVE  \A u \in Ticks : TickSound(u)'
      <4>1. CASE KeyOf(t) \in Keys
        BY <2>4, <3>1, <3>3, <4>1 DEF IndInv, TablesTyped
      <4>2. CASE KeyOf(t) \notin Keys
        <5>1. Current(t)' = Current(t)
          BY <3>3 DEF Proceed, To, Take, Goto, Current, IndInv, TablesTyped
        <5>2. Current(t) \notin Wakes
          BY <3>1, <4>2 DEF IndInv, TickSound, KeyOf, Keys
        <5>3. TickSound(t)'
          BY <5>1, <5>2 DEF TickSound
        <5>4. QED
          BY <1>3, <3>3, <5>3 DEF Proceed, To, Take
      <4>3. QED
        BY <4>1, <4>2
    <3>4. CASE Stop(t)
      BY <1>4, <3>1, <3>4 DEF Stop, Idle
    <3>5. QED
      BY <2>7, <3>2, <3>3, <3>4 DEF Answered, KeyOf
  <2>8. ASSUME NEW left \in Lefts, ProviderFails(t, left)
        PROVE  \A u \in Ticks : TickSound(u)'
    <3>1. UNCHANGED setup /\ tick[t].at = "waiting"
      BY <2>8 DEF ProviderFails, time
    <3>2. CASE Refused(t)
      BY <2>5, <3>1, <3>2
    <3>3. CASE Proceed(t, "none")
      BY <2>4, <3>1, <3>3
    <3>4. QED
      BY <2>8, <3>2, <3>3 DEF ProviderFails
  <2>9. CASE cmd_run_wakes(t) \/ TickCrashes(t)
    BY <2>9, <1>4 DEF cmd_run_wakes, TickCrashes, Killed
  <2>10. QED
    BY <1>6, <2>1, <2>2, <2>3, <2>6, <2>7, <2>8, <2>9 DEF TickStep, Answer
<1>7. ASSUME UNCHANGED tick
      PROVE  DOMAIN tick' = Ticks /\ \A u \in Ticks : TickSound(u)'
  BY <1>2, <1>7 DEF IndInv, TablesTyped
<1>8. CASE cmd_advance_time \/ cmd_ack_alarm \/ (\E b \in BOOLEAN : Permit(b))
  BY <1>7, <1>8 DEF cmd_advance_time, cmd_ack_alarm, Permit
<1>9. CASE \E c \in Cells :
             cmd_fund_cell(c) \/ (\E s \in CellStatuses : MoveCell(c, s))
  BY <1>7, <1>9 DEF cmd_fund_cell, MoveCell
<1>10. CASE \E k \in Keys : SweepStrandedCall(k)
  BY <1>7, <1>10 DEF SweepStrandedCall
<1>11. CASE UNCHANGED vars
  BY <1>7, <1>11 DEF vars
<1>12. CASE \E t \in Ticks : TickStep(t) \/ cmd_run_wakes(t) \/ TickCrashes(t)
  <2>1. DOMAIN tick' = Ticks
    BY <1>5, <1>12 DEF Goto, IndInv, TablesTyped
  <2>2. QED
    BY <1>6, <1>12, <2>1
<1>13. QED
  BY <1>8, <1>9, <1>10, <1>11, <1>12 DEF Next

-----------------------------------------------------------------------------
(* What is told. *)

\* A step tells of one wake at most, which nothing was told of, and a proposal
\* only with its draft.
LEMMA Telling ==
  ASSUME IndInv, [Next]_vars
  PROVE  /\ DOMAIN record' = Wakes
         /\ \A w \in Wakes :
              /\ record[w] # "none" => record'[w] = record[w]
              /\ record'[w] \in Proposed => IsDrafted(w)
<1>1. ASSUME UNCHANGED record
      PROVE  /\ DOMAIN record' = Wakes
             /\ \A w \in Wakes :
                  /\ record[w] # "none" => record'[w] = record[w]
                  /\ record'[w] \in Proposed => IsDrafted(w)
  BY <1>1 DEF IndInv, TablesTyped
<1>2. ASSUME NEW t \in Ticks, Record(t)
      PROVE  /\ DOMAIN record' = Wakes
             /\ \A w \in Wakes :
                  /\ record[w] # "none" => record'[w] = record[w]
                  /\ record'[w] \in Proposed => IsDrafted(w)
  <2>1. CASE UNCHANGED record
    BY <1>1, <2>1
  <2>2. CASE /\ IsUnrecorded(Current(t))
             /\ record' = Recorded(Current(t), tick[t].what)
    <3>1. record' = [record EXCEPT ![Current(t)] = tick[t].what]
      BY <2>2 DEF Recorded
    <3>2. record[Current(t)] = "none"
      BY <2>2 DEF IsUnrecorded
    <3>3. Current(t) \in Wakes /\ tick[t].what \in Proposed => IsDrafted(Current(t))
      BY <1>2 DEF Record, IndInv, TickSound
    <3>4. QED
      BY <3>1, <3>2, <3>3 DEF IndInv, TablesTyped
  <2>3. QED
    BY <1>2, <2>1, <2>2 DEF Record
<1>3. CASE \E t \in Ticks :
             \/ cmd_tick(t) \/ OpenTick(t) \/ Guard(t) \/ SelectCells(t)
             \/ (\E c \in Cells : EnqueueWake(t, c)) \/ SelectReady(t)
  BY <1>1, <1>3 DEF cmd_tick, OpenTick, Guard, SelectCells, EnqueueWake, SelectReady
<1>4. CASE \E t \in Ticks :
             \/ StartWake(t) \/ MarkProcessed(t) \/ Judge(t)
             \/ (\E left \in Lefts : Call(t, left)) \/ Answer(t)
  BY <1>1, <1>4 DEF StartWake, MarkProcessed, Judge, Call, Answer, Answered,
                    ProviderFails
<1>5. CASE \E t \in Ticks : cmd_run_wakes(t) \/ TickCrashes(t)
  BY <1>1, <1>5 DEF cmd_run_wakes, TickCrashes
<1>6. CASE cmd_advance_time \/ cmd_ack_alarm \/ (\E b \in BOOLEAN : Permit(b))
  BY <1>1, <1>6 DEF cmd_advance_time, cmd_ack_alarm, Permit
<1>7. CASE \E c \in Cells :
             cmd_fund_cell(c) \/ (\E s \in CellStatuses : MoveCell(c, s))
  BY <1>1, <1>7 DEF cmd_fund_cell, MoveCell
<1>8. CASE (\E k \in Keys : SweepStrandedCall(k)) \/ UNCHANGED vars
  BY <1>1, <1>8 DEF SweepStrandedCall, vars
<1>9. QED
  BY <1>2, <1>3, <1>4, <1>5, <1>6, <1>7, <1>8 DEF Next, TickStep

\* What the ticks are given to run with does not change.
LEMMA SetupStays ==
  ASSUME [Next]_vars
  PROVE  setup' = setup
<1> USE DEF time
<1>1. ASSUME NEW t \in Ticks, TickStep(t) PROVE setup' = setup
  BY <1>1 DEF TickStep, cmd_tick, OpenTick, Guard, SelectCells, EnqueueWake,
              SelectReady, StartWake, Call, Answer, Answered, ProviderFails,
              Record, MarkProcessed, Judge
<1>2. CASE \E t \in Ticks : cmd_run_wakes(t) \/ TickCrashes(t)
  BY <1>2 DEF cmd_run_wakes, TickCrashes
<1>3. CASE cmd_advance_time \/ cmd_ack_alarm \/ (\E b \in BOOLEAN : Permit(b))
  BY <1>3 DEF cmd_advance_time, cmd_ack_alarm, Permit
<1>4. CASE \E c \in Cells :
             cmd_fund_cell(c) \/ (\E s \in CellStatuses : MoveCell(c, s))
  BY <1>4 DEF cmd_fund_cell, MoveCell
<1>5. CASE (\E k \in Keys : SweepStrandedCall(k)) \/ UNCHANGED vars
  BY <1>5 DEF SweepStrandedCall, vars
<1>6. QED
  BY <1>1, <1>2, <1>3, <1>4, <1>5 DEF Next

\* Every step keeps the invariant.
LEMMA InvStep == IndInv /\ [Next]_vars => IndInv'
<1> SUFFICES ASSUME IndInv, [Next]_vars
             PROVE  IndInv'
  OBVIOUS
<1>1. TablesTyped'
  BY CallsSound, TicksSound, Telling, SetupStays DEF IndInv, TablesTyped
<1>2. \A k \in Keys : call'[k] = "absent" => requests'[k] = 0
  BY CallsSound
<1>3. \A w \in Wakes : record'[w] \in Proposed => IsDrafted(w)'
  <2>1. TextsStay
    BY CallsSound
  <2>2. QED
    BY <2>1, Telling, WarrantsStay
<1>4. \A t \in Ticks : TickSound(t)'
  BY TicksSound
<1>5. QED
  BY <1>1, <1>2, <1>3, <1>4 DEF IndInv

\* A call is made where none was, for the reason its tick has.
LEMMA Asking ==
  ASSUME IndInv, [Next]_vars, NEW w \in Wakes, NEW step \in Steps,
         requests'[<<w, step>>] > requests[<<w, step>>]
  PROVE  requests[<<w, step>>] = 0 /\ Warranted(w, step)
<1>1. <<w, step>> \in Keys /\ requests[<<w, step>>] \in Nat
  BY DEF Keys, IndInv, TablesTyped
<1>2. PICK k : CallsMove(k) /\ requests' # requests
  BY <1>1, EveryStepMovesOneCall
<1>3. /\ call[k] = "absent"
      /\ requests' = [requests EXCEPT ![k] = @ + 1]
      /\ \E t \in Ticks : tick[t].at = "calling" /\ k = KeyOf(t)
  BY <1>2 DEF CallsMove
<1>4. k = <<w, step>>
  BY <1>1, <1>3 DEF IndInv, TablesTyped
<1>5. requests[<<w, step>>] = 0
  BY <1>1, <1>3, <1>4 DEF IndInv
<1>6. PICK t \in Ticks : tick[t].at = "calling" /\ <<w, step>> = KeyOf(t)
  BY <1>3, <1>4
<1>7. Current(t) = w /\ tick[t].what = step
  BY <1>6 DEF KeyOf
<1>8. Warranted(w, step)
  BY <1>6, <1>7 DEF IndInv, TickSound
<1>9. QED
  BY <1>5, <1>8

-----------------------------------------------------------------------------
\* Whatever ticks run, overlap and crash, the invariant is kept.
THEOREM WakesInvariant == Spec => []IndInv
<1>1. Init => IndInv
  BY InitInv
<1>2. IndInv /\ [Next]_vars => IndInv'
  BY InvStep
<1>3. QED
  BY <1>1, <1>2, PTL DEF Spec

\* Each call of a wake is made once and for its reason, and what the wake came
\* to is told once (deliberation.py:912, _deliberate; gateway.py:149, call_model).
THEOREM EveryWakeToldOnce == Spec => DeliberationsStay
<1>1. IndInv /\ [Next]_vars =>
        [\A w \in Wakes :
           /\ record[w] # "none" => record'[w] = record[w]
           /\ record'[w] \in Proposed => IsDrafted(w)
           /\ \A step \in Steps :
                requests'[<<w, step>>] > requests[<<w, step>>] =>
                  /\ requests[<<w, step>>] = 0
                  /\ step = Repair => call[<<w, Reply>>] = "invalid"
                  /\ step \in WorkflowSteps => IsDrafted(w)]_vars
  BY Telling, Asking DEF Warranted
<1>2. QED
  BY <1>1, WakesInvariant, PTL DEF Spec, DeliberationsStay

-----------------------------------------------------------------------------
(* Types. *)

Outcomes == {"refused", "call_failed", "unparseable", "draft", "final"}

InWake == {"calling", "waiting", "recording", "marking"}

\* What a tick at place p has read is of the Cells, or of the wakes ever queued.
Placed(p, queued) ==
  /\ p.at \in TickPlaces
  /\ p.at \in {"opening", "guarding", "selecting", "enqueuing"} => p.epoch \in Epochs
  /\ p.at = "enqueuing" => p.todo \subseteq Cells
  /\ p.at \in {"draining"} \cup InWake => p.todo \subseteq queued
  /\ p.at \in InWake => p.wake \in queued
  /\ p.at = "recording" => p.what \in Outcomes

\* The types the ticks need on top of the tables'.
TypesInv ==
  /\ IndInv
  /\ TypeOK
  /\ spent \in Nat
  /\ \A t \in Ticks : Placed(tick[t], ToSet(queue))

\* A set of numbers that is not empty has a least one.
LEMMA LeastNumber ==
  ASSUME NEW S, S \subseteq Nat, S # {}
  PROVE  \E m \in S : \A n \in S : ~(n < m)
<1>1. PICK m \in S : \A n \in S : ~(<<n, m>> \in OpToRel(<, Nat))
  BY NatLessThanWellFounded, WFMin
<1>2. \A n \in S : n < m => <<n, m>> \in OpToRel(<, Nat)
  BY DEF OpToRel
<1>3. QED
  BY <1>1, <1>2

\* The first of some rows of a table is one of them.
LEMMA FirstIn ==
  ASSUME NEW D, NEW order \in Seq(D), NEW S, S # {}, S \subseteq ToSet(order)
  PROVE  First(order, S) \in S
<1> DEFINE P(i) == order[i] \in S /\ \A j \in 1 .. i - 1 : order[j] \notin S
           Places == {i \in DOMAIN order : order[i] \in S}
<1>1. Places # {} /\ Places \subseteq Nat
  BY DEF ToSet
<1>2. PICK m \in Places : \A n \in Places : ~(n < m)
  BY <1>1, LeastNumber
<1>3. P(m)
  <2>1. ASSUME NEW j \in 1 .. m - 1 PROVE order[j] \notin S
    <3>1. j \in DOMAIN order /\ j < m
      BY <1>2
    <3>2. QED
      BY <1>2, <3>1
  <2>2. QED
    BY <1>2, <2>1
<1>4. P(CHOOSE i \in DOMAIN order : P(i))
  BY <1>2, <1>3
<1>5. QED
  BY <1>4 DEF First

\* The loop goes on to a call, or tells an outcome.
LEMMA AfterPlaces ==
  ASSUME NEW structure \in Structures, NEW step \in Steps,
         NEW text \in Texts(step) \cup {"none"}
  PROVE  LET place == After(structure, step, text)
         IN  place.at = "calling" \/ (place.at = "recording" /\ place.what \in Outcomes)
<1> DEFINE Good(place) ==
      place.at = "calling" \/ (place.at = "recording" /\ place.what \in Outcomes)
<1>1. \A next : Good(Ask(next))
  BY DEF Ask
<1>2. \A round : Good(Kept(round))
  BY DEF Kept, Tell, Outcomes
<1>3. \A outcome \in Outcomes : Good(Tell(outcome))
  BY DEF Tell
<1>4. {"call_failed", "unparseable", "draft"} \subseteq Outcomes
  BY DEF Outcomes
<1> HIDE DEF Good
<1>5. Good(RunWorkflow(structure))
  BY <1>1, <1>3, <1>4 DEF RunWorkflow, Structures
<1>6. Good(After(structure, step, text))
  <2>1. CASE step = Reply
    <3>1. text \in {"none", "valid", "invalid"}
      BY <2>1 DEF Texts, Reply
    <3>2. Good(AfterReply(structure, text))
      BY <1>1, <1>3, <1>4, <1>5, <3>1 DEF AfterReply
    <3>3. QED
      BY <2>1, <3>2, StepKinds DEF After
  <2>2. CASE step = Repair
    <3>1. Good(AfterRepair(structure, text))
      BY <1>3, <1>4, <1>5 DEF AfterRepair
    <3>2. QED
      BY <2>2, <3>1, StepKinds DEF After
  <2>3. CASE step \in WorkflowSteps
    <3>1. Good(AfterRefinement(text)) /\ Good(AfterReview(step, text))
      BY <1>1, <1>2 DEF AfterRefinement, AfterReview
    <3>2. step[1] \in {"critique", "revise"} => Good(AfterCritique(step, text))
      BY <1>1, <1>2 DEF AfterCritique
    <3>3. step # Reply /\ step # Repair
      BY <2>3, StepKinds
    <3>4. QED
      BY <2>3, <3>1, <3>2, <3>3, StepKinds DEF After
  <2>4. QED
    BY <2>1, <2>2, <2>3, StepKinds
<1>7. QED
  BY <1>6 DEF Good

\* A tick in a wake is at one of the queue's wakes, and at one of its calls.
LEMMA InWakeFacts ==
  ASSUME TypesInv, NEW t \in Ticks, tick[t].at \in InWake
  PROVE  /\ Current(t) \in ToSet(queue) /\ Current(t) \in Wakes
         /\ Current(t)[2] \in Cells
         /\ setup.structure[Current(t)[2]] \in Structures
         /\ tick[t].at \in {"calling", "waiting"} =>
              /\ tick[t].what \in Steps /\ KeyOf(t) \in Keys
              /\ call[KeyOf(t)] \in Statuses(tick[t].what)
<1>1. Current(t) \in ToSet(queue)
  BY DEF TypesInv, Placed, Current
<1>2. ToSet(queue) \subseteq Wakes
  BY DEF TypesInv, TypeOK, ToSet
<1>3. Current(t) \in Wakes /\ Current(t)[2] \in Cells
  BY <1>1, <1>2 DEF Wakes
<1>4. setup.structure \in [Cells -> Structures]
  BY WakesAssumption DEF TypesInv, IndInv, TablesTyped
<1>5. ASSUME tick[t].at \in {"calling", "waiting"}
      PROVE  /\ tick[t].what \in Steps /\ KeyOf(t) \in Keys
             /\ call[KeyOf(t)] \in Statuses(tick[t].what)
  <2>1. tick[t].what \in Steps
    BY <1>3, <1>5 DEF TypesInv, IndInv, TickSound
  <2>2. QED
    BY <1>3, <2>1 DEF KeyOf, Keys, TypesInv, IndInv, TablesTyped
<1>6. QED
  BY <1>1, <1>3, <1>4, <1>5

\* Where a step takes its tick, the tick is given wakes of the queue.
LEMMA StepPlaces ==
  ASSUME TypesInv, NEW t \in Ticks,
         TickStep(t) \/ cmd_run_wakes(t) \/ TickCrashes(t)
  PROVE  \E p : Goto(t, p) /\ Placed(p, ToSet(queue))
<1> DEFINE Going == \E p : Goto(t, p) /\ Placed(p, ToSet(queue))
<1> SUFFICES Going
  OBVIOUS
<1>1. Placed(tick[t], ToSet(queue))
  BY DEF TypesInv
<1>2. Placed(Idle, ToSet(queue)) /\ Placed(Killed, ToSet(queue))
  BY DEF Placed, TickPlaces, InWake, Idle, Killed
<1>3. ReadyWakes \subseteq ToSet(queue)
  BY DEF ReadyWakes
<1>4. ASSUME NEW w \in ToSet(queue), NEW place,
             tick[t].todo \subseteq ToSet(queue), Take(t, w, place),
             \/ place.at \in {"calling", "waiting", "marking"}
             \/ place.at = "recording" /\ place.what \in Outcomes
      PROVE  Going
  BY <1>4 DEF Take, Placed, TickPlaces, InWake
<1>5. ASSUME tick[t].at \in InWake PROVE tick[t].todo \subseteq ToSet(queue)
  BY <1>1, <1>5 DEF Placed
<1>6. ASSUME tick[t].at \in {"calling", "waiting"},
             NEW text \in Texts(tick[t].what) \cup {"none"}, Proceed(t, text)
      PROVE  Going
  <2>1. tick[t].at \in InWake
    BY <1>6 DEF InWake
  <2> DEFINE place == After(setup.structure[Current(t)[2]], tick[t].what, text)
  <2>2. place.at = "calling" \/ (place.at = "recording" /\ place.what \in Outcomes)
    BY <1>6, <2>1, InWakeFacts, AfterPlaces
  <2>3. Take(t, Current(t), place) /\ Current(t) \in ToSet(queue)
    BY <1>6, <2>1, InWakeFacts DEF Proceed, To
  <2> HIDE DEF place, Going
  <2>4. QED
    BY <1>4, <1>5, <2>1, <2>2, <2>3
<1>7. ASSUME tick[t].at \in {"calling", "waiting"}, Refused(t) PROVE Going
  BY <1>2, <1>6, <1>7 DEF Refused, Stop
<1>8. CASE cmd_tick(t)
  BY <1>8 DEF cmd_tick, Placed, TickPlaces, InWake, TypesInv, TypeOK
<1>9. CASE OpenTick(t)
  BY <1>1, <1>9 DEF OpenTick, Placed, TickPlaces, InWake
<1>10. CASE Guard(t)
  BY <1>1, <1>2, <1>10 DEF Guard, Stop, Placed, TickPlaces, InWake
<1>11. CASE SelectCells(t)
  BY <1>1, <1>2, <1>11 DEF SelectCells, Stop, On, Placed, TickPlaces, InWake
<1>12. CASE \E c \in Cells : EnqueueWake(t, c)
  BY <1>1, <1>12 DEF EnqueueWake, On, Placed, TickPlaces, InWake
<1>13. CASE SelectReady(t)
  BY <1>3, <1>13 DEF SelectReady, On, Placed, TickPlaces, InWake
<1>14. CASE cmd_run_wakes(t)
  BY <1>3, <1>14 DEF cmd_run_wakes, Placed, TickPlaces, InWake
<1>15. CASE StartWake(t)
  <2> DEFINE w == First(queue, tick[t].todo)
  <2>1. tick[t].todo # {} /\ tick[t].todo \subseteq ToSet(queue)
    BY <1>1, <1>15 DEF StartWake, Placed
  <2>2. w \in ToSet(queue)
    BY <2>1, FirstIn DEF TypesInv, TypeOK
  <2>3. \E place : /\ Take(t, w, place)
                   /\ \/ place.at \in {"calling", "waiting", "marking"}
                      \/ place.at = "recording" /\ place.what \in Outcomes
    BY <1>15 DEF StartWake, Told, Ask, Tell, Outcomes
  <2> HIDE DEF w, Going
  <2>4. QED
    BY <1>4, <2>1, <2>2, <2>3
<1>16. ASSUME NEW left \in Lefts, Call(t, left) PROVE Going
  <2>1. tick[t].at = "calling"
    BY <1>16 DEF Call
  <2>2. tick[t].at \in InWake /\ tick[t].at \in {"calling", "waiting"}
    BY <2>1 DEF InWake
  <2>3. TextOf(KeyOf(t)) \in Texts(tick[t].what) \cup {"none"}
    BY <2>2, InWakeFacts DEF TextOf, HasText, Statuses
  <2>4. CASE To(t, Wait(KeyOf(t)[2]))
    <3>1. Take(t, Current(t), Wait(KeyOf(t)[2])) /\ Current(t) \in ToSet(queue)
      BY <2>2, <2>4, InWakeFacts DEF To
    <3>2. Wait(KeyOf(t)[2]).at = "waiting"
      BY DEF Wait
    <3> HIDE DEF Going
    <3>3. QED
      BY <1>4, <1>5, <2>2, <3>1, <3>2
  <2> HIDE DEF Going
  <2>5. QED
    BY <1>6, <1>7, <1>16, <2>2, <2>3, <2>4 DEF Call
<1>17. CASE Answer(t)
  <2>1. tick[t].at \in {"calling", "waiting"}
    BY <1>17 DEF Answer, Answered, ProviderFails
  <2>2. KeyOf(t)[2] = tick[t].what
    BY DEF KeyOf
  <2>3. \/ Stop(t) \/ Refused(t)
        \/ \E text \in Texts(tick[t].what) \cup {"none"} : Proceed(t, text)
    BY <1>17, <2>2 DEF Answer, Answered, ProviderFails
  <2>4. CASE Stop(t)
    BY <1>2, <2>4 DEF Stop
  <2> HIDE DEF Going
  <2>5. QED
    BY <1>6, <1>7, <2>1, <2>3, <2>4
<1>18. CASE Record(t)
  <2>1. tick[t].at \in InWake
    BY <1>18 DEF Record, InWake
  <2>2. CASE Take(t, Current(t), Told)
    <3>1. Told.at = "marking"
      BY DEF Told
    <3> HIDE DEF Going
    <3>2. QED
      BY <1>4, <1>5, <2>1, <2>2, <3>1, InWakeFacts
  <2>3. QED
    BY <1>2, <1>18, <2>2 DEF Record, To, Stop
<1>19. CASE MarkProcessed(t)
  <2>1. tick[t].todo \subseteq ToSet(queue)
    BY <1>5, <1>19 DEF MarkProcessed, InWake
  <2>2. QED
    BY <1>19, <2>1 DEF MarkProcessed, On, Placed, TickPlaces, InWake
<1>20. CASE Judge(t) \/ TickCrashes(t)
  BY <1>2, <1>20 DEF Judge, TickCrashes, Stop
<1> HIDE DEF Going
<1>21. QED
  BY <1>8, <1>9, <1>10, <1>11, <1>12, <1>13, <1>14, <1>15, <1>16, <1>17, <1>18,
     <1>19, <1>20 DEF TickStep

\* A step either queues one wake that was not queued, or none.
LEMMA QueueGrows ==
  ASSUME TypesInv, [Next]_vars
  PROVE  /\ queue' \in Seq(Wakes) /\ IsInjective(queue')
         /\ ToSet(queue) \subseteq ToSet(queue')
<1> USE DEF events
<1>1. queue \in Seq(Wakes) /\ IsInjective(queue)
  BY DEF TypesInv, TypeOK
<1>2. CASE UNCHANGED queue
  BY <1>1, <1>2
<1>3. ASSUME NEW t \in Ticks, NEW c \in Cells, EnqueueWake(t, c),
             queue' # queue
      PROVE  /\ queue' \in Seq(Wakes) /\ IsInjective(queue')
             /\ ToSet(queue) \subseteq ToSet(queue')
  <2> DEFINE w == <<tick[t].epoch, c>>
  <2>1. queue' = Append(queue, w) /\ w \notin ToSet(queue)
    BY <1>3 DEF EnqueueWake, IsQueued
  <2>2. w \in Wakes
    BY <1>3 DEF EnqueueWake, TypesInv, Placed, Wakes
  <2> HIDE DEF w
  <2>3. /\ queue' \in Seq(Wakes)
        /\ DOMAIN queue' = 1 .. Len(queue) + 1
        /\ \A i \in 1 .. Len(queue) : queue'[i] = queue[i]
        /\ queue'[Len(queue) + 1] = w
    BY <1>1, <2>1, <2>2, AppendProperties
  <2>4. \A i \in 1 .. Len(queue) : queue[i] # w
    BY <1>1, <2>1 DEF ToSet
  <2>5. DOMAIN queue = 1 .. Len(queue) /\ Len(queue) \in Nat
    BY <1>1
  <2>6. IsInjective(queue')
    <3>1. ASSUME NEW i \in DOMAIN queue', NEW j \in DOMAIN queue', queue'[i] = queue'[j]
          PROVE  i = j
      <4>1. CASE i \in 1 .. Len(queue) /\ j \in 1 .. Len(queue)
        BY <1>1, <2>3, <2>5, <3>1, <4>1 DEF IsInjective
      <4>2. CASE ~(i \in 1 .. Len(queue) /\ j \in 1 .. Len(queue))
        BY <2>3, <2>4, <2>5, <3>1, <4>2
      <4>3. QED
        BY <4>1, <4>2
    <3>2. QED
      BY <3>1 DEF IsInjective
  <2>7. ToSet(queue) \subseteq ToSet(queue')
    <3>1. ASSUME NEW i \in DOMAIN queue PROVE queue[i] \in ToSet(queue')
      BY <2>3, <2>5 DEF ToSet
    <3>2. QED
      BY <3>1 DEF ToSet
  <2>8. QED
    BY <2>3, <2>6, <2>7
<1>4. ASSUME NEW t \in Ticks, TickStep(t)
      PROVE  UNCHANGED queue \/ \E c \in Cells : EnqueueWake(t, c)
  BY <1>4 DEF TickStep, cmd_tick, OpenTick, Guard, SelectCells, SelectReady,
              StartWake, Call, Answer, Answered, ProviderFails, Record,
              MarkProcessed, Judge
<1>5. CASE \E t \in Ticks : cmd_run_wakes(t) \/ TickCrashes(t)
  BY <1>2, <1>5 DEF cmd_run_wakes, TickCrashes
<1>6. CASE cmd_advance_time \/ cmd_ack_alarm \/ (\E b \in BOOLEAN : Permit(b))
  BY <1>2, <1>6 DEF cmd_advance_time, cmd_ack_alarm, Permit
<1>7. CASE \E c \in Cells :
             cmd_fund_cell(c) \/ (\E s \in CellStatuses : MoveCell(c, s))
  BY <1>2, <1>7 DEF cmd_fund_cell, MoveCell
<1>8. CASE (\E k \in Keys : SweepStrandedCall(k)) \/ UNCHANGED vars
  BY <1>2, <1>8 DEF SweepStrandedCall, vars
<1>9. QED
  BY <1>2, <1>3, <1>4, <1>5, <1>6, <1>7, <1>8 DEF Next

\* The money only grows, and what an anchor says of it stays within it.
LEMMA AnchorsTyped ==
  ASSUME TypesInv, [Next]_vars
  PROVE  /\ epoch' \in Epochs /\ spent' \in Nat
         /\ anchor' \in [Epochs -> [seen : BOOLEAN, at : 0 .. spent']]
<1> USE DEF time, gateway
<1>1. /\ epoch \in Epochs /\ spent \in Nat
      /\ anchor \in [Epochs -> [seen : BOOLEAN, at : 0 .. spent]]
  BY DEF TypesInv, TypeOK
<1>2. CASE UNCHANGED <<epoch, spent, anchor>>
  BY <1>1, <1>2
<1>3. ASSUME NEW t \in Ticks, OpenTick(t)
      PROVE  /\ epoch' \in Epochs /\ spent' \in Nat
             /\ anchor' \in [Epochs -> [seen : BOOLEAN, at : 0 .. spent']]
  <2>1. [seen |-> TRUE, at |-> spent] \in [seen : BOOLEAN, at : 0 .. spent]
    BY <1>1
  <2>2. UNCHANGED <<epoch, spent>>
    BY <1>3 DEF OpenTick
  <2>3. anchor' = anchor
          \/ anchor' = [anchor EXCEPT ![tick[t].epoch] = [seen |-> TRUE, at |-> spent]]
    BY <1>3 DEF OpenTick
  <2>4. QED
    BY <1>1, <2>1, <2>2, <2>3
<1>4. ASSUME NEW t \in Ticks, NEW left \in Lefts, NEW cost \in Costs,
             Answered(t, cost, left)
      PROVE  /\ epoch' \in Epochs /\ spent' \in Nat
             /\ anchor' \in [Epochs -> [seen : BOOLEAN, at : 0 .. spent']]
  <2>1. UNCHANGED <<epoch, anchor>> /\ (spent' = spent + cost \/ spent' = spent)
    BY <1>4 DEF Answered
  <2>2. cost \in Nat
    BY WakesAssumption
  <2>3. spent' \in Nat /\ 0 .. spent \subseteq 0 .. spent'
    BY <1>1, <2>1, <2>2
  <2>4. [seen : BOOLEAN, at : 0 .. spent] \subseteq [seen : BOOLEAN, at : 0 .. spent']
    BY <2>3
  <2>5. QED
    BY <1>1, <2>1, <2>3, <2>4
<1>5. ASSUME cmd_advance_time
      PROVE  /\ epoch' \in Epochs /\ spent' \in Nat
             /\ anchor' \in [Epochs -> [seen : BOOLEAN, at : 0 .. spent']]
  <2>1. PICK t \in Ticks : epoch + 1 \in setup.schedule[t]
    BY <1>5 DEF cmd_advance_time
  <2>2. setup.schedule \in [Ticks -> SUBSET Epochs]
    BY WakesAssumption DEF TypesInv, IndInv, TablesTyped
  <2>3. epoch + 1 \in Epochs
    BY <2>1, <2>2
  <2>4. QED
    BY <1>1, <1>5, <2>3 DEF cmd_advance_time
<1>6. ASSUME NEW t \in Ticks, TickStep(t)
      PROVE  \/ UNCHANGED <<epoch, spent, anchor>> \/ OpenTick(t)
             \/ \E left \in Lefts, cost \in Costs : Answered(t, cost, left)
  BY <1>6 DEF TickStep, cmd_tick, Guard, SelectCells, EnqueueWake, SelectReady,
              StartWake, Call, Answer, ProviderFails, Record, MarkProcessed, Judge
<1>7. CASE \E t \in Ticks : cmd_run_wakes(t) \/ TickCrashes(t)
  BY <1>2, <1>7 DEF cmd_run_wakes, TickCrashes
<1>8. CASE cmd_ack_alarm \/ (\E b \in BOOLEAN : Permit(b))
  BY <1>2, <1>8 DEF cmd_ack_alarm, Permit
<1>9. CASE \E c \in Cells :
             cmd_fund_cell(c) \/ (\E s \in CellStatuses : MoveCell(c, s))
  BY <1>2, <1>9 DEF cmd_fund_cell, MoveCell
<1>10. CASE (\E k \in Keys : SweepStrandedCall(k)) \/ UNCHANGED vars
  BY <1>2, <1>10 DEF SweepStrandedCall, vars
<1>11. QED
  BY <1>2, <1>3, <1>4, <1>5, <1>6, <1>7, <1>8, <1>9, <1>10 DEF Next

\* A Cell's status and purse are those there are, whatever a call leaves it.
LEMMA ColonyTyped ==
  ASSUME TypesInv, [Next]_vars
  PROVE  cell' \in [Cells -> CellStatuses] /\ cash' \in [Cells -> CashLevels]
<1> USE DEF colony
<1>1. cell \in [Cells -> CellStatuses] /\ cash \in [Cells -> CashLevels]
  BY DEF TypesInv, TypeOK
<1>2. CASE UNCHANGED <<cell, cash>>
  BY <1>1, <1>2
<1>3. "enough" \in CashLevels /\ "none" \in CashLevels /\ Lefts \subseteq CashLevels
  BY WakesAssumption DEF CashLevels
<1>4. ASSUME UNCHANGED cell, NEW c, NEW left \in CashLevels,
             cash' = [cash EXCEPT ![c] = left]
      PROVE  cell' \in [Cells -> CellStatuses] /\ cash' \in [Cells -> CashLevels]
  BY <1>1, <1>4
<1>5. ASSUME NEW t \in Ticks, NEW left \in Lefts, Call(t, left)
      PROVE  cell' \in [Cells -> CellStatuses] /\ cash' \in [Cells -> CashLevels]
  BY <1>2, <1>3, <1>4, <1>5 DEF Call
<1>6. ASSUME NEW t \in Ticks, Answer(t)
      PROVE  cell' \in [Cells -> CellStatuses] /\ cash' \in [Cells -> CashLevels]
  BY <1>2, <1>3, <1>4, <1>6 DEF Answer, Answered, ProviderFails
<1>7. ASSUME NEW c \in Cells, cmd_fund_cell(c)
      PROVE  cell' \in [Cells -> CellStatuses] /\ cash' \in [Cells -> CashLevels]
  BY <1>3, <1>4, <1>7 DEF cmd_fund_cell
<1>8. ASSUME NEW c \in Cells, NEW s \in CellStatuses, MoveCell(c, s)
      PROVE  cell' \in [Cells -> CellStatuses] /\ cash' \in [Cells -> CashLevels]
  BY <1>1, <1>3, <1>8 DEF MoveCell
<1>9. ASSUME NEW t \in Ticks, TickStep(t)
      PROVE  \/ UNCHANGED <<cell, cash>> \/ Answer(t)
             \/ \E left \in Lefts : Call(t, left)
  BY <1>9 DEF TickStep, cmd_tick, OpenTick, Guard, SelectCells, EnqueueWake,
              SelectReady, StartWake, Record, MarkProcessed, Judge
<1>10. CASE \E t \in Ticks : cmd_run_wakes(t) \/ TickCrashes(t)
  BY <1>2, <1>10 DEF cmd_run_wakes, TickCrashes
<1>11. CASE cmd_advance_time \/ cmd_ack_alarm \/ (\E b \in BOOLEAN : Permit(b))
  BY <1>2, <1>11 DEF cmd_advance_time, cmd_ack_alarm, Permit
<1>12. CASE (\E k \in Keys : SweepStrandedCall(k)) \/ UNCHANGED vars
  BY <1>2, <1>12 DEF SweepStrandedCall, vars
<1>13. QED
  BY <1>2, <1>5, <1>6, <1>7, <1>8, <1>9, <1>10, <1>11, <1>12 DEF Next

\* The alarm is latched or not, and spending permitted or not.
LEMMA OperatorTyped ==
  ASSUME TypesInv, [Next]_vars
  PROVE  alarm' \in BOOLEAN /\ permitted' \in BOOLEAN
<1> USE DEF operator
<1>1. alarm \in BOOLEAN /\ permitted \in BOOLEAN
  BY DEF TypesInv, TypeOK
<1>2. CASE UNCHANGED operator
  BY <1>1, <1>2
<1>3. ASSUME NEW t \in Ticks, Judge(t)
      PROVE  alarm' \in BOOLEAN /\ permitted' \in BOOLEAN
  BY <1>1, <1>3, Zenon DEF Judge
<1>4. CASE cmd_ack_alarm \/ \E b \in BOOLEAN : Permit(b)
  BY <1>1, <1>4 DEF cmd_ack_alarm, Permit
<1>5. ASSUME NEW t \in Ticks, TickStep(t)
      PROVE  UNCHANGED operator \/ Judge(t)
  BY <1>5 DEF TickStep, cmd_tick, OpenTick, Guard, SelectCells, EnqueueWake,
              SelectReady, StartWake, Call, Answer, Answered, ProviderFails,
              Record, MarkProcessed
<1>6. CASE \E t \in Ticks : cmd_run_wakes(t) \/ TickCrashes(t)
  BY <1>2, <1>6 DEF cmd_run_wakes, TickCrashes
<1>7. CASE cmd_advance_time \/ (\E k \in Keys : SweepStrandedCall(k))
           \/ UNCHANGED vars
  BY <1>2, <1>7 DEF cmd_advance_time, SweepStrandedCall, vars
<1>8. CASE \E c \in Cells :
             cmd_fund_cell(c) \/ (\E s \in CellStatuses : MoveCell(c, s))
  BY <1>2, <1>8 DEF cmd_fund_cell, MoveCell
<1>9. QED
  BY <1>2, <1>3, <1>4, <1>5, <1>6, <1>7, <1>8 DEF Next

\* A wake is marked, and told of, by the tick that is at it.
LEMMA EventsTyped ==
  ASSUME TypesInv, [Next]_vars
  PROVE  /\ processed' \subseteq ToSet(queue')
         /\ record' \in [Wakes -> {"none"} \cup Outcomes]
<1> USE DEF events
<1>1. /\ processed \subseteq ToSet(queue)
      /\ record \in [Wakes -> {"none"} \cup Outcomes]
  BY DEF TypesInv, TypeOK, Outcomes
<1>2. ToSet(queue) \subseteq ToSet(queue')
  BY QueueGrows
<1>3. CASE UNCHANGED <<processed, record>>
  BY <1>1, <1>2, <1>3
<1>4. ASSUME NEW t \in Ticks, MarkProcessed(t)
      PROVE  /\ processed' \subseteq ToSet(queue')
             /\ record' \in [Wakes -> {"none"} \cup Outcomes]
  <2>1. Current(t) \in ToSet(queue)
    BY <1>4, InWakeFacts DEF MarkProcessed, InWake
  <2>2. QED
    BY <1>1, <1>2, <1>4, <2>1 DEF MarkProcessed
<1>5. ASSUME NEW t \in Ticks, Record(t)
      PROVE  /\ processed' \subseteq ToSet(queue')
             /\ record' \in [Wakes -> {"none"} \cup Outcomes]
  <2>1. tick[t].what \in Outcomes
    BY <1>5 DEF Record, TypesInv, Placed
  <2>2. UNCHANGED processed
    BY <1>5 DEF Record
  <2>3. record' = record \/ record' = [record EXCEPT ![Current(t)] = tick[t].what]
    BY <1>5 DEF Record, Recorded
  <2>4. QED
    BY <1>1, <1>2, <2>1, <2>2, <2>3
<1>6. ASSUME NEW t \in Ticks, TickStep(t)
      PROVE  UNCHANGED <<processed, record>> \/ MarkProcessed(t) \/ Record(t)
  BY <1>6 DEF TickStep, cmd_tick, OpenTick, Guard, SelectCells, EnqueueWake,
              SelectReady, StartWake, Call, Answer, Answered, ProviderFails, Judge
<1>7. CASE \E t \in Ticks : cmd_run_wakes(t) \/ TickCrashes(t)
  BY <1>3, <1>7 DEF cmd_run_wakes, TickCrashes
<1>8. CASE cmd_advance_time \/ cmd_ack_alarm \/ (\E b \in BOOLEAN : Permit(b))
  BY <1>3, <1>8 DEF cmd_advance_time, cmd_ack_alarm, Permit
<1>9. CASE \E c \in Cells :
             cmd_fund_cell(c) \/ (\E s \in CellStatuses : MoveCell(c, s))
  BY <1>3, <1>9 DEF cmd_fund_cell, MoveCell
<1>10. CASE (\E k \in Keys : SweepStrandedCall(k)) \/ UNCHANGED vars
  BY <1>3, <1>10 DEF SweepStrandedCall, vars
<1>11. QED
  BY <1>3, <1>4, <1>5, <1>6, <1>7, <1>8, <1>9, <1>10 DEF Next

\* Every tick stays where ticks are, with wakes of the queue.
LEMMA TicksPlaced ==
  ASSUME TypesInv, [Next]_vars
  PROVE  \A u \in Ticks : Placed(tick'[u], ToSet(queue'))
<1>1. ToSet(queue) \subseteq ToSet(queue')
  BY QueueGrows
<1>2. \A p : Placed(p, ToSet(queue)) => Placed(p, ToSet(queue'))
  BY <1>1 DEF Placed
<1>3. \A u \in Ticks : Placed(tick[u], ToSet(queue)) /\ DOMAIN tick = Ticks
  BY DEF TypesInv, IndInv, TablesTyped
<1>4. CASE UNCHANGED tick
  BY <1>2, <1>3, <1>4
<1>5. ASSUME NEW t \in Ticks, TickStep(t) \/ cmd_run_wakes(t) \/ TickCrashes(t)
      PROVE  \A u \in Ticks : Placed(tick'[u], ToSet(queue'))
  <2>1. PICK p : Goto(t, p) /\ Placed(p, ToSet(queue))
    BY <1>5, StepPlaces
  <2>2. \A u \in Ticks : tick'[u] = IF u = t THEN p ELSE tick[u]
    BY <1>3, <2>1 DEF Goto
  <2>3. QED
    BY <1>2, <1>3, <2>1, <2>2
<1>6. CASE cmd_advance_time \/ cmd_ack_alarm \/ (\E b \in BOOLEAN : Permit(b))
  BY <1>4, <1>6 DEF cmd_advance_time, cmd_ack_alarm, Permit
<1>7. CASE \E c \in Cells :
             cmd_fund_cell(c) \/ (\E s \in CellStatuses : MoveCell(c, s))
  BY <1>4, <1>7 DEF cmd_fund_cell, MoveCell
<1>8. CASE (\E k \in Keys : SweepStrandedCall(k)) \/ UNCHANGED vars
  BY <1>4, <1>8 DEF SweepStrandedCall, vars
<1>9. QED
  BY <1>5, <1>6, <1>7, <1>8 DEF Next

\* Nothing is queued, told or running at first.
LEMMA InitTypes == Init => TypesInv
<1> SUFFICES ASSUME Init PROVE TypesInv
  OBVIOUS
<1>1. queue \in Seq(Wakes) /\ IsInjective(queue) /\ processed \subseteq ToSet(queue)
  BY DEF Init, IsInjective
<1>2. anchor \in [Epochs -> [seen : BOOLEAN, at : 0 .. spent]] /\ epoch \in Epochs
  BY WakesAssumption DEF Init, Unobserved, Epochs
<1>3. \A t \in Ticks : tick[t].at = "idle"
  BY DEF Init, Idle
<1>4. \A t \in Ticks : Placed(tick[t], ToSet(queue)) /\ tick[t].at \in TickPlaces
  BY <1>3 DEF Placed, TickPlaces, InWake
<1>5. TypeOK
  BY <1>1, <1>2, <1>4 DEF Init, TypeOK, CellStatuses
<1>6. QED
  BY <1>4, <1>5, InitInv DEF Init, TypesInv

\* Every step keeps the types.
LEMMA TypesStep == TypesInv /\ [Next]_vars => TypesInv'
<1> SUFFICES ASSUME TypesInv, [Next]_vars
             PROVE  TypesInv'
  OBVIOUS
<1>1. IndInv'
  BY InvStep DEF TypesInv
<1>2. \A k \in Keys : call'[k] \in {"absent", "reserved", "unanswered"} \cup Texts(k[2])
  BY <1>1 DEF IndInv, TablesTyped, Statuses, Keys
<1>3. \A t \in Ticks : tick'[t].at \in TickPlaces
  BY TicksPlaced DEF Placed
<1>4. record' \in [Wakes -> {"none", "refused", "call_failed", "unparseable",
                             "draft", "final"}]
  BY EventsTyped DEF Outcomes
<1>5. TypeOK'
  BY <1>2, <1>3, <1>4, AnchorsTyped, ColonyTyped, OperatorTyped, QueueGrows,
     EventsTyped DEF TypeOK
<1>6. QED
  BY <1>1, <1>5, AnchorsTyped, TicksPlaced DEF TypesInv

\* Every table keeps its type whatever ticks run, overlap and crash, and a wake is
\* queued once in its epoch (scheduler.py:591, _run_tick; events.py:143, enqueue).
THEOREM TypeCorrect == Spec => []TypeOK
<1>1. Init => TypesInv
  BY InitTypes
<1>2. TypesInv /\ [Next]_vars => TypesInv'
  BY TypesStep
<1>3. TypesInv => TypeOK
  BY DEF TypesInv
<1>4. QED
  BY <1>1, <1>2, <1>3, PTL DEF Spec
=============================================================================
