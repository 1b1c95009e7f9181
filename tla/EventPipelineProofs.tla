-------------------------- MODULE EventPipelineProofs --------------------------
(***************************************************************************)
(* For every number of relays, every batch size and every number of errors *)
(* and deaths: a published row was queued.  Joining the intake and the     *)
(* outbox in one transaction takes nothing away from either: every         *)
(* behaviour of the pipeline is one of both, and so has the properties     *)
(* proved of each.                                                         *)
(***************************************************************************)
EXTENDS EventPipeline, StripeIntakeProofs

-------------------------------------------------------------------------------
(***************************************************************************)
(* The outbox                                                              *)
(***************************************************************************)
\* A relay that is about to mark a row has handed it to the queue.
MarksQueued(x) ==
  relay[x].pc = "mark" => \A r \in Row : Current(x, r) => r \in jobs

\* A relay that holds no row is idle, and nobody else is.
BatchShape(x) ==
  relay[x].pc = "idle" => relay[x].batch = {}

OutboxInv ==
  /\ OutboxTypeOK
  /\ PublishedMeansQueued
  /\ \A x \in Relays : MarksQueued(x) /\ BatchShape(x)

\* What one relay's step does to the others: nothing.
OthersStay(x) ==
  /\ relay' \in [Relays -> [pc : {"idle", "add", "mark", "fail"}, batch : SUBSET Row']]
  /\ \A y \in Relays \ {x} : relay'[y] = relay[y]

\* A step of relay x that leaves the rows where they are and takes none from
\* the queue keeps the invariant when x keeps its own part.
LEMMA RelaySteps ==
  ASSUME OutboxInv, NEW x \in Relays, OthersStay(x), rows' = rows,
         jobs \subseteq jobs', jobs' \subseteq Row,
         published' \subseteq jobs', attempts' \in [Row -> Nat],
         errors' \in 0..MaxErrors, deaths' \in 0..MaxDeaths,
         MarksQueued(x)', BatchShape(x)'
  PROVE  OutboxInv'
<1>1. Row' = Row
  BY DEF Row
<1>2. OutboxTypeOK'
  BY <1>1 DEF OutboxInv, OutboxTypeOK, PublishedMeansQueued, OthersStay
<1>3. PublishedMeansQueued'
  BY DEF PublishedMeansQueued
<1>4. ASSUME NEW y \in Relays
      PROVE  MarksQueued(y)' /\ BatchShape(y)'
  <2>1. CASE y = x
    BY <2>1
  <2>2. CASE y # x
    <3>1. relay'[y] = relay[y]
      BY <2>2 DEF OthersStay
    <3>2. QED
      BY <1>1, <3>1 DEF OutboxInv, MarksQueued, BatchShape, Current
  <2>3. QED
    BY <2>1, <2>2
<1>5. QED
  BY <1>2, <1>3, <1>4 DEF OutboxInv

\* Assigning a well-typed record to one relay leaves the others alone.
LEMMA Assigns ==
  ASSUME OutboxTypeOK, NEW x \in Relays, rows' = rows,
         NEW pc \in {"idle", "add", "mark", "fail"}, NEW batch \in SUBSET Row,
         Becomes(x, pc, batch)
  PROVE  /\ OthersStay(x)
         /\ relay'[x].pc = pc
         /\ relay'[x].batch = batch
BY DEF OutboxTypeOK, OthersStay, Row, Becomes

\* Moving on within a row, and to the next row of the batch.
LEMMA Moves ==
  ASSUME OutboxTypeOK, NEW x \in Relays, rows' = rows,
         NEW pc \in {"add", "mark", "fail"}, GoTo(x, pc)
  PROVE  /\ OthersStay(x)
         /\ relay'[x].pc = pc
         /\ relay'[x].batch = relay[x].batch
<1>1. relay[x].batch \in SUBSET Row
  BY DEF OutboxTypeOK
<1>2. Becomes(x, pc, relay[x].batch)
  BY DEF GoTo
<1>3. QED
  BY <1>1, <1>2, Assigns

LEMMA GoesOn ==
  ASSUME OutboxTypeOK, NEW x \in Relays, rows' = rows, NEW r \in Row, GoOn(x, r)
  PROVE  OthersStay(x) /\ MarksQueued(x)' /\ BatchShape(x)'
<1> DEFINE rest == relay[x].batch \ {r}
<1>1. rest \in SUBSET Row /\ {} \in SUBSET Row
  BY DEF OutboxTypeOK
<1>2. CASE rest = {}
  <2>1. Becomes(x, "idle", {})
    BY <1>2 DEF GoOn
  <2>2. OthersStay(x) /\ relay'[x].pc = "idle" /\ relay'[x].batch = {}
    BY <1>1, <2>1, Assigns
  <2>3. QED
    BY <2>2 DEF MarksQueued, BatchShape
<1>3. CASE rest # {}
  <2>1. Becomes(x, "add", rest)
    BY <1>3 DEF GoOn
  <2>2. OthersStay(x) /\ relay'[x].pc = "add"
    BY <1>1, <2>1, Assigns
  <2>3. QED
    BY <2>2 DEF MarksQueued, BatchShape
<1>4. QED
  BY <1>2, <1>3

LEMMA OutboxInitInvariant == OutboxInit => OutboxInv
<1> SUFFICES ASSUME OutboxInit PROVE OutboxInv
  OBVIOUS
<1>1. Row = {}
  BY DEF OutboxInit, Row
<1>2. OutboxTypeOK
  BY <1>1, OutboxBounds DEF OutboxInit, OutboxTypeOK, Resting
<1>3. PublishedMeansQueued
  BY DEF OutboxInit, PublishedMeansQueued
<1>4. QED
  BY <1>2, <1>3 DEF OutboxInv, OutboxInit, Resting, MarksQueued, BatchShape

\* A new row is in nobody's batch.
LEMMA InsertStep ==
  ASSUME OutboxInv, Insert
  PROVE  OutboxInv'
<1>1. Row \subseteq Row'
  BY DEF OutboxInv, OutboxTypeOK, Insert, Row
<1>2. OutboxTypeOK'
  BY <1>1 DEF OutboxInv, OutboxTypeOK, Insert, Row
<1>3. PublishedMeansQueued'
  BY DEF OutboxInv, Insert, PublishedMeansQueued
<1>4. ASSUME NEW x \in Relays
      PROVE  MarksQueued(x)' /\ BatchShape(x)'
  <2>1. relay[x].batch \subseteq Row
    BY DEF OutboxInv, OutboxTypeOK
  <2>2. QED
    BY <1>1, <2>1 DEF OutboxInv, Insert, MarksQueued, BatchShape, Current
<1>5. QED
  BY <1>2, <1>3, <1>4 DEF OutboxInv

LEMMA PollStep ==
  ASSUME OutboxInv, NEW x \in Relays, Poll(x)
  PROVE  OutboxInv'
<1>1. Oldest \in SUBSET Row
  BY DEF Oldest, Pending
<1>2. OthersStay(x) /\ relay'[x].pc = "add"
  BY <1>1, Assigns DEF OutboxInv, Poll
<1>3. MarksQueued(x)' /\ BatchShape(x)'
  BY <1>2 DEF MarksQueued, BatchShape
<1>4. QED
  BY <1>2, <1>3, RelaySteps DEF OutboxInv, OutboxTypeOK, PublishedMeansQueued, Poll

LEMMA AddStep ==
  ASSUME OutboxInv, NEW x \in Relays, Add(x)
  PROVE  OutboxInv'
<1>1. PICK r \in Row :
        /\ Current(x, r)
        /\ \/ jobs' = jobs \cup {r} /\ GoTo(x, "mark") /\ UNCHANGED errors
           \/ Fails /\ GoTo(x, "fail") /\ UNCHANGED jobs
  BY DEF Add
<1>2. CASE jobs' = jobs \cup {r} /\ GoTo(x, "mark") /\ UNCHANGED errors
  <2>1. /\ OthersStay(x)
        /\ relay'[x].pc = "mark"
        /\ relay'[x].batch = relay[x].batch
    BY <1>2, Moves DEF OutboxInv, Add
  \* The row a relay is at is the only one it is at.
  <2>2. ASSUME NEW q \in Row', Current(x, q)'
        PROVE  q \in jobs'
    BY <1>1, <1>2, <2>1, <2>2 DEF Current, Row, OutboxInv, OutboxTypeOK, Add
  <2>3. MarksQueued(x)' /\ BatchShape(x)'
    BY <2>1, <2>2 DEF MarksQueued, BatchShape
  <2>4. QED
    BY <1>2, <2>1, <2>3, RelaySteps DEF OutboxInv, OutboxTypeOK, PublishedMeansQueued, Add
<1>3. CASE Fails /\ GoTo(x, "fail") /\ UNCHANGED jobs
  <2>1. OthersStay(x) /\ relay'[x].pc = "fail"
    BY <1>3, Moves DEF OutboxInv, Add
  <2>2. MarksQueued(x)' /\ BatchShape(x)'
    BY <2>1 DEF MarksQueued, BatchShape
  <2>3. errors' \in 0..MaxErrors
    BY <1>3, OutboxBounds DEF Fails, OutboxInv, OutboxTypeOK
  <2>4. QED
    BY <1>3, <2>1, <2>2, <2>3, RelaySteps DEF OutboxInv, OutboxTypeOK, PublishedMeansQueued, Add
<1>4. QED
  BY <1>1, <1>2, <1>3

LEMMA MarkStep ==
  ASSUME OutboxInv, NEW x \in Relays, MarkPublished(x)
  PROVE  OutboxInv'
<1>1. PICK r \in Row :
        /\ Current(x, r)
        /\ \/ /\ published' = published \cup {r}
              /\ attempts' = [attempts EXCEPT ![r] = @ + 1]
              /\ GoOn(x, r)
              /\ UNCHANGED errors
           \/ Fails /\ GoTo(x, "fail") /\ UNCHANGED <<published, attempts>>
  BY DEF MarkPublished
<1>2. CASE /\ published' = published \cup {r}
           /\ attempts' = [attempts EXCEPT ![r] = @ + 1]
           /\ GoOn(x, r)
           /\ UNCHANGED errors
  <2>1. OthersStay(x) /\ MarksQueued(x)' /\ BatchShape(x)'
    BY <1>2, GoesOn DEF OutboxInv, MarkPublished
  <2>2. r \in jobs
    BY <1>1 DEF OutboxInv, MarksQueued, MarkPublished
  <2>3. attempts' \in [Row -> Nat]
    BY <1>2 DEF OutboxInv, OutboxTypeOK
  <2>4. QED
    BY <1>2, <2>1, <2>2, <2>3, RelaySteps DEF OutboxInv, OutboxTypeOK, PublishedMeansQueued, MarkPublished
<1>3. CASE Fails /\ GoTo(x, "fail") /\ UNCHANGED <<published, attempts>>
  <2>1. OthersStay(x) /\ relay'[x].pc = "fail"
    BY <1>3, Moves DEF OutboxInv, MarkPublished
  <2>2. MarksQueued(x)' /\ BatchShape(x)'
    BY <2>1 DEF MarksQueued, BatchShape
  <2>3. errors' \in 0..MaxErrors
    BY <1>3, OutboxBounds DEF Fails, OutboxInv, OutboxTypeOK
  <2>4. QED
    BY <1>3, <2>1, <2>2, <2>3, RelaySteps DEF OutboxInv, OutboxTypeOK, PublishedMeansQueued, MarkPublished
<1>4. QED
  BY <1>1, <1>2, <1>3

LEMMA RecordErrorStep ==
  ASSUME OutboxInv, NEW x \in Relays, RecordError(x)
  PROVE  OutboxInv'
<1>1. PICK r \in Row :
        \/ attempts' = [attempts EXCEPT ![r] = @ + 1] /\ GoOn(x, r) /\ UNCHANGED errors
        \/ Fails /\ Becomes(x, "idle", {}) /\ UNCHANGED attempts
  BY DEF RecordError
<1>2. CASE attempts' = [attempts EXCEPT ![r] = @ + 1] /\ GoOn(x, r) /\ UNCHANGED errors
  <2>1. OthersStay(x) /\ MarksQueued(x)' /\ BatchShape(x)'
    BY <1>2, GoesOn DEF OutboxInv, RecordError
  <2>2. attempts' \in [Row -> Nat]
    BY <1>2 DEF OutboxInv, OutboxTypeOK
  <2>3. QED
    BY <1>2, <2>1, <2>2, RelaySteps DEF OutboxInv, OutboxTypeOK, PublishedMeansQueued, RecordError
<1>3. CASE Fails /\ Becomes(x, "idle", {}) /\ UNCHANGED attempts
  <2>1. OthersStay(x) /\ relay'[x].pc = "idle" /\ relay'[x].batch = {}
    BY <1>3, Assigns DEF OutboxInv, RecordError
  <2>2. MarksQueued(x)' /\ BatchShape(x)'
    BY <2>1 DEF MarksQueued, BatchShape
  <2>3. errors' \in 0..MaxErrors
    BY <1>3, OutboxBounds DEF Fails, OutboxInv, OutboxTypeOK
  <2>4. QED
    BY <1>3, <2>1, <2>2, <2>3, RelaySteps
       DEF OutboxInv, OutboxTypeOK, PublishedMeansQueued, RecordError
<1>4. QED
  BY <1>1, <1>2, <1>3

LEMMA DieStep ==
  ASSUME OutboxInv, NEW x \in Relays, Die(x)
  PROVE  OutboxInv'
<1>1. OthersStay(x) /\ relay'[x].pc = "idle" /\ relay'[x].batch = {}
  BY Assigns DEF OutboxInv, Die
<1>2. MarksQueued(x)' /\ BatchShape(x)'
  BY <1>1 DEF MarksQueued, BatchShape
<1>3. deaths' \in 0..MaxDeaths
  BY OutboxBounds DEF Die, OutboxInv, OutboxTypeOK
<1>4. QED
  BY <1>1, <1>2, <1>3, RelaySteps DEF OutboxInv, OutboxTypeOK, PublishedMeansQueued, Die

LEMMA OutboxNextInvariant == OutboxInv /\ [OutboxNext]_outboxVars => OutboxInv'
<1> SUFFICES ASSUME OutboxInv, [OutboxNext]_outboxVars PROVE OutboxInv'
  OBVIOUS
<1>1. CASE Insert
  BY <1>1, InsertStep
<1>2. ASSUME NEW x \in Relays, Relay(x) \/ Die(x)
      PROVE  OutboxInv'
  BY <1>2, PollStep, AddStep, MarkStep, RecordErrorStep, DieStep DEF Relay
<1>3. CASE UNCHANGED outboxVars
  BY <1>3 DEF outboxVars, OutboxInv, OutboxTypeOK, PublishedMeansQueued, MarksQueued, BatchShape, Current, Row
<1>4. QED
  BY <1>1, <1>2, <1>3 DEF OutboxNext

\* The invariant the others follow from: types, what was published, and what a
\* relay between adding a row and marking it knows.
THEOREM OutboxInvariance == OutboxSpec => []OutboxInv
BY OutboxInitInvariant, OutboxNextInvariant, PTL DEF OutboxSpec

\* Every variable keeps its type.
THEOREM OutboxTypes == OutboxSpec => []OutboxTypeOK
<1>1. OutboxInv => OutboxTypeOK
  BY DEF OutboxInv
<1>2. QED
  BY <1>1, OutboxInvariance, PTL

\* A row marked published has been handed to the queue, for any number of
\* relays that read, add, mark, fail and die in any order.
THEOREM PublishedSafely == OutboxSpec => []PublishedMeansQueued
<1>1. OutboxInv => PublishedMeansQueued
  BY DEF OutboxInv
<1>2. QED
  BY <1>1, OutboxInvariance, PTL
-------------------------------------------------------------------------------
(***************************************************************************)
(* The pipeline                                                            *)
(***************************************************************************)
LEMMA StepsOfIntake == [PipelineNext]_allVars => [Next]_vars
<1> SUFFICES ASSUME [PipelineNext]_allVars PROVE [Next]_vars
  OBVIOUS
<1>1. CASE UNCHANGED allVars
  BY <1>1 DEF allVars
<1>2. CASE IntakeStep
  BY <1>2 DEF IntakeStep, Next
<1>3. ASSUME NEW x \in Executors, HandleEvent(x)
      PROVE  Next
  BY <1>3 DEF HandleEvent, Next
<1>4. CASE OutboxStep
  BY <1>4 DEF OutboxStep
<1>5. QED
  BY <1>1, <1>2, <1>3, <1>4 DEF PipelineNext

LEMMA StepsOfOutbox == [PipelineNext]_allVars => [OutboxNext]_outboxVars
<1> SUFFICES ASSUME [PipelineNext]_allVars PROVE [OutboxNext]_outboxVars
  OBVIOUS
<1>1. CASE UNCHANGED allVars
  BY <1>1 DEF allVars
<1>2. CASE IntakeStep
  BY <1>2 DEF IntakeStep
<1>3. ASSUME NEW x \in Executors, HandleEvent(x)
      PROVE  [OutboxNext]_outboxVars
  BY <1>3 DEF HandleEvent, OutboxNext
<1>4. CASE OutboxStep
  BY <1>4 DEF OutboxStep, OutboxNext
<1>5. QED
  BY <1>1, <1>2, <1>3, <1>4 DEF PipelineNext

\* What the webhook endpoint and its worker do is not disturbed by the outbox.
THEOREM PipelineIsIntake == PipelineSpec => Spec
<1>1. PipelineInit => Init
  BY DEF PipelineInit
<1>2. QED
  BY <1>1, StepsOfIntake, PTL DEF PipelineSpec, Spec

\* What the outbox does is not disturbed by the handlers that write to it.
THEOREM PipelineIsOutbox == PipelineSpec => OutboxSpec
<1>1. PipelineInit => OutboxInit
  BY DEF PipelineInit
<1>2. QED
  BY <1>1, StepsOfOutbox, PTL DEF PipelineSpec, OutboxSpec

\* In the pipeline an event takes effect once, and again only for a run that
\* threw after its commit or a process that died; never once it is logged
\* PROCESSED.
THEOREM PipelineHandlesOnce == PipelineSpec => []HandledOncePerFailure /\ ProcessedForGood
BY PipelineIsIntake, SingleEffect, ProcessedOnce

\* In the pipeline a row marked published was handed to the main server's
\* queue.
THEOREM PipelinePublishes == PipelineSpec => []PublishedMeansQueued
BY PipelineIsOutbox, PublishedSafely
===============================================================================
