-------------------------------- MODULE Outbox --------------------------------
(***************************************************************************)
(* The transactional outbox.  A row is inserted in the transaction of the  *)
(* change it announces; relays read the oldest unpublished rows, hand each *)
(* to the main server's queue and mark it, in separate steps.  The timer   *)
(* starts a relay every second without waiting for the previous one, so    *)
(* several run at once, in one process or in many.                         *)
(***************************************************************************)
EXTENDS Naturals, FiniteSets

CONSTANTS
  Relays,       \* concurrent runs of relayOutboxOnce
  BatchSize,    \* RELAY_BATCH_SIZE, 50 in the code
  MaxAttempts,  \* MAX_ATTEMPTS, 20 in the code
  MaxErrors,    \* bound: calls of Redis or Postgres that fail
  MaxDeaths     \* bound: relays that die

ASSUME BatchAssumption == BatchSize \in Nat \ {0}
ASSUME OutboxBounds == MaxAttempts \in Nat /\ MaxErrors \in Nat /\ MaxDeaths \in Nat

VARIABLES
  rows,      \* how many rows were inserted: they are numbered by createdAt
  published, \* rows with publishedAt set
  attempts,  \* attempts column of each row
  jobs,      \* rows the queue has been given, once or again (see Add)
  relay,     \* what each relay is doing, and the rows left of its batch
  errors,    \* calls that have failed
  deaths     \* relays that have died

outboxVars == <<rows, published, attempts, jobs, relay, errors, deaths>>

Row == 1..rows
Resting == [pc |-> "idle", batch |-> {}]

OutboxInit ==
  /\ rows = 0
  /\ published = {}
  /\ attempts = [r \in {} |-> 0]
  /\ jobs = {}
  /\ relay = [x \in Relays |-> Resting]
  /\ errors = 0
  /\ deaths = 0

\* enqueueOutboxEvent, as part of somebody's transaction.
Insert ==
  /\ rows' = rows + 1
  /\ attempts' = [r \in 1..rows + 1 |-> IF r \in Row THEN attempts[r] ELSE 0]
  /\ UNCHANGED <<published, jobs, relay, errors, deaths>>

Becomes(x, pc, batch) == relay' = [relay EXCEPT ![x] = [pc |-> pc, batch |-> batch]]

\* The query of relayOutboxOnce: the oldest rows still to be published.
Pending == {r \in Row : r \notin published /\ attempts[r] < MaxAttempts}
Oldest == {r \in Pending : Cardinality({q \in Pending : q < r}) < BatchSize}

Poll(x) ==
  /\ relay[x].pc = "idle"
  /\ Pending # {}
  /\ Becomes(x, "add", Oldest)
  /\ UNCHANGED <<rows, published, attempts, jobs, errors, deaths>>

\* The row of its batch a relay is at.
Current(x, r) ==
  /\ r \in relay[x].batch
  /\ \A q \in relay[x].batch : r <= q

GoTo(x, pc) == Becomes(x, pc, relay[x].batch)

\* The next row of the batch, if there is one.
GoOn(x, r) ==
  LET rest == relay[x].batch \ {r} IN
  IF rest = {} THEN Becomes(x, "idle", {}) ELSE Becomes(x, "add", rest)

Fails ==
  /\ errors < MaxErrors
  /\ errors' = errors + 1

\* queue.add under the row's id.  A job that is there already is left alone; one
\* that the main server has finished and removed is added again, and the main
\* server knows it by the id.
Add(x) ==
  /\ relay[x].pc = "add"
  /\ \E r \in Row :
       /\ Current(x, r)
       /\ \/ jobs' = jobs \cup {r} /\ GoTo(x, "mark") /\ UNCHANGED errors
          \/ Fails /\ GoTo(x, "fail") /\ UNCHANGED jobs
  /\ UNCHANGED <<rows, published, attempts, deaths>>

\* Mutant of MarkPublished: the row counts as published whether or not it was added.
MarkAnyway(x) ==
  /\ relay[x].pc \in {"mark", "fail"}
  /\ \E r \in Row :
       /\ Current(x, r)
       /\ published' = published \cup {r}
       /\ attempts' = [attempts EXCEPT ![r] = @ + 1]
       /\ GoOn(x, r)
  /\ UNCHANGED <<rows, jobs, errors, deaths>>

MarkPublished(x) ==
  /\ relay[x].pc = "mark"
  /\ \E r \in Row :
       /\ Current(x, r)
       /\ \/ /\ published' = published \cup {r}
             /\ attempts' = [attempts EXCEPT ![r] = @ + 1]
             /\ GoOn(x, r)
             /\ UNCHANGED errors
          \/ Fails /\ GoTo(x, "fail") /\ UNCHANGED <<published, attempts>>
  /\ UNCHANGED <<rows, jobs, deaths>>

\* The catch clause.  When its own update fails, the rest of the batch is
\* given up until the next tick.
RecordError(x) ==
  /\ relay[x].pc = "fail"
  /\ \E r \in Row :
       /\ Current(x, r)
       /\ \/ attempts' = [attempts EXCEPT ![r] = @ + 1] /\ GoOn(x, r) /\ UNCHANGED errors
          \/ Fails /\ Becomes(x, "idle", {}) /\ UNCHANGED attempts
  /\ UNCHANGED <<rows, published, jobs, deaths>>

Die(x) ==
  /\ relay[x].pc # "idle"
  /\ deaths < MaxDeaths
  /\ deaths' = deaths + 1
  /\ Becomes(x, "idle", {})
  /\ UNCHANGED <<rows, published, attempts, jobs, errors>>

Relay(x) == Poll(x) \/ Add(x) \/ MarkPublished(x) \/ RecordError(x)

OutboxNext == Insert \/ \E x \in Relays : Relay(x) \/ Die(x)

OutboxSpec == OutboxInit /\ [][OutboxNext]_outboxVars
-------------------------------------------------------------------------------
\* Every variable keeps its type.
OutboxTypeOK ==
  /\ rows \in Nat
  /\ published \subseteq Row
  /\ attempts \in [Row -> Nat]
  /\ jobs \subseteq Row
  /\ relay \in [Relays -> [pc : {"idle", "add", "mark", "fail"}, batch : SUBSET Row]]
  /\ errors \in 0..MaxErrors
  /\ deaths \in 0..MaxDeaths

\* Whoever dies, whatever fails and however many relays read the same row: a
\* row marked published has been handed to the queue.
PublishedMeansQueued == published \subseteq jobs
===============================================================================
