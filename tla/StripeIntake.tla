----------------------------- MODULE StripeIntake -----------------------------
(***************************************************************************)
(* The webhook endpoint and its worker.  A delivery is written to the      *)
(* event log, then queued, then answered; a worker runs the handler and    *)
(* writes the outcome, and the queue runs it again when it failed or the   *)
(* worker died.  Without a queue the request runs the handler itself.      *)
(* Stripe delivers an event at least once, to any process.                 *)
(***************************************************************************)
EXTENDS Naturals

CONSTANTS
  Events,         \* Stripe events
  Requests,       \* concurrent deliveries
  Workers,        \* concurrent jobs of the worker, 5 in the code
  MaxDeliveries,  \* bound: deliveries of one event
  MaxTries,       \* attempts of a job, 5 in the code
  MaxCrashes,     \* bound: requests and workers that die
  Environments    \* the environments considered: sets of things that may happen

ASSUME TriesAssumption == MaxTries \in Nat \ {0}
ASSUME BoundsAssumption == MaxDeliveries \in Nat /\ MaxCrashes \in Nat
ASSUME ExecutorsAssumption == Requests \cap Workers = {}

VARIABLES
  log,        \* status of the StripeEventLog row
  job,        \* state of the job under the event's id
  tries,      \* failed attempts of the job
  delivered,  \* deliveries Stripe has made
  answered,   \* events Stripe got a 200 for
  handled,    \* how often a handler's transaction committed
  late,       \* runs of a handler that threw after they had committed
  call,       \* what each request and worker is doing
  crashes,    \* requests and workers that have died
  scenario    \* the environment of this behaviour

vars == <<log, job, tries, delivered, answered, handled, late, call, crashes, scenario>>
stripe == <<delivered, answered>>
effects == <<handled, late>>

None == "none"  \* no event
Idle == [pc |-> "idle", event |-> None]

Init ==
  /\ log = [e \in Events |-> "none"]
  /\ job = [e \in Events |-> "none"]
  /\ tries = [e \in Events |-> 0]
  /\ delivered = [e \in Events |-> 0]
  /\ answered = {}
  /\ handled = [e \in Events |-> 0]
  /\ late = [e \in Events |-> 0]
  /\ call = [x \in Requests \cup Workers |-> Idle]
  /\ crashes = 0
  /\ scenario \in Environments

MoveTo(x, pc) == call' = [call EXCEPT ![x].pc = pc]
Finish(x) == call' = [call EXCEPT ![x] = Idle]
Enter(x, pc, e) == call' = [call EXCEPT ![x] = [pc |-> pc, event |-> e]]

\* The request ends: with a 200, or with an error Stripe answers by trying again.
Accept(x) == Finish(x) /\ answered' = answered \cup {call[x].event}
Refuse(x) == Finish(x) /\ UNCHANGED answered
-------------------------------------------------------------------------------
(***************************************************************************)
(* The request: verify, record, queue, answer                              *)
(***************************************************************************)
Deliver(x, e) ==
  /\ call[x].pc = "idle"
  /\ delivered[e] < MaxDeliveries
  /\ delivered' = [delivered EXCEPT ![e] = @ + 1]
  /\ Enter(x, "lookup", e)
  /\ UNCHANGED <<log, job, tries, answered, effects, crashes, scenario>>

\* recordIncomingEvent: the event is known already.
Lookup(x) ==
  /\ call[x].pc = "lookup"
  /\ \/ log[call[x].event] # "none" /\ Accept(x)
     \/ log[call[x].event] = "none" /\ MoveTo(x, "record") /\ UNCHANGED answered
  /\ UNCHANGED <<log, job, tries, delivered, effects, crashes, scenario>>

\* isHandledStripeEvent, for the types of events in this behaviour.
HasHandler == "noHandler" \notin scenario

\* Mutant of Record: no unique key on the event's id.
RecordAnyway(x) ==
  /\ call[x].pc = "record"
  /\ log' = [log EXCEPT ![call[x].event] = "RECEIVED"]
  /\ MoveTo(x, IF HasHandler THEN "enqueue" ELSE "ignore")
  /\ UNCHANGED <<job, tries, stripe, effects, crashes, scenario>>

\* The insert; whoever loses the race answers as for a known event.
Record(x) ==
  /\ call[x].pc = "record"
  /\ LET e == call[x].event IN
     \/ /\ log[e] = "none"
        /\ log' = [log EXCEPT ![e] = "RECEIVED"]
        /\ MoveTo(x, IF HasHandler THEN "enqueue" ELSE "ignore")
        /\ UNCHANGED answered
     \/ /\ log[e] # "none"
        /\ Accept(x)
        /\ UNCHANGED log
  /\ UNCHANGED <<job, tries, delivered, effects, crashes, scenario>>

Ignore(x) ==
  /\ call[x].pc = "ignore"
  /\ log' = [log EXCEPT ![call[x].event] = "IGNORED"]
  /\ Accept(x)
  /\ UNCHANGED <<job, tries, delivered, effects, crashes, scenario>>

\* queue.add under the event's id.  Redis may refuse it; and a process that
\* never had a queue handles the event inline.
Enqueue(x) ==
  /\ call[x].pc = "enqueue"
  /\ LET e == call[x].event IN
     \/ /\ job' = [job EXCEPT ![e] = IF @ = "none" THEN "waiting" ELSE @]
        /\ Accept(x)
     \/ /\ "redisFails" \in scenario
        /\ Refuse(x)
        /\ UNCHANGED job
     \/ /\ "inline" \in scenario
        /\ MoveTo(x, "load")
        /\ UNCHANGED <<job, answered>>
  /\ UNCHANGED <<log, tries, delivered, effects, crashes, scenario>>
-------------------------------------------------------------------------------
(***************************************************************************)
(* processStoredStripeEvent, run by a worker or by the request             *)
(***************************************************************************)
Take(x, e) ==
  /\ x \in Workers
  /\ call[x].pc = "idle"
  /\ job[e] = "waiting"
  /\ job' = [job EXCEPT ![e] = "active"]
  /\ Enter(x, "load", e)
  /\ UNCHANGED <<log, tries, stripe, effects, crashes, scenario>>

\* How a call ends when the event needs nothing more, and when it failed.
Succeed(x) ==
  \/ x \in Workers /\ Finish(x) /\ job' = [job EXCEPT ![call[x].event] = "completed"] /\ UNCHANGED answered
  \/ x \in Requests /\ Accept(x) /\ UNCHANGED job

\* Mutant of GiveUp: a failed job is tried again without limit.
GiveUpNever(x) ==
  LET e == call[x].event IN
  \/ /\ x \in Workers
     /\ Finish(x)
     /\ tries' = [tries EXCEPT ![e] = @ + 1]
     /\ job' = [job EXCEPT ![e] = "waiting"]
     /\ UNCHANGED answered
  \/ /\ x \in Requests
     /\ Refuse(x)
     /\ UNCHANGED <<tries, job>>

GiveUp(x) ==
  LET e == call[x].event IN
  \/ /\ x \in Workers
     /\ Finish(x)
     /\ tries' = [tries EXCEPT ![e] = @ + 1]
     /\ job' = [job EXCEPT ![e] = IF tries[e] + 1 < MaxTries THEN "waiting" ELSE "failed"]
     /\ UNCHANGED answered
  \/ /\ x \in Requests
     /\ Refuse(x)
     /\ UNCHANGED <<tries, job>>

Finished(e) == log[e] \in {"PROCESSED", "IGNORED"}

\* Mutant of Load: an event that was processed is processed again.
LoadAnyway(x) ==
  /\ call[x].pc = "load"
  /\ MoveTo(x, "mark")
  /\ UNCHANGED <<log, job, tries, stripe, effects, crashes, scenario>>

Load(x) ==
  /\ call[x].pc = "load"
  /\ \/ Finished(call[x].event) /\ Succeed(x)
     \/ ~Finished(call[x].event) /\ MoveTo(x, "mark") /\ UNCHANGED <<job, answered>>
  /\ UNCHANGED <<log, tries, delivered, effects, crashes, scenario>>

\* markEventProcessing.
Mark(x) ==
  /\ call[x].pc = "mark"
  /\ log' = [log EXCEPT ![call[x].event] = "PROCESSING"]
  /\ MoveTo(x, "handle")
  /\ UNCHANGED <<job, tries, stripe, effects, crashes, scenario>>

\* What an event says decides whether its handler has anything to do with it.
Ours == "notOurs" \notin scenario

\* The handler's transaction commits.  Work outside it may follow: the
\* settlement of a dispute or a refund.
Commits(x) ==
  /\ Ours
  /\ call[x].pc = "handle"
  /\ handled' = [handled EXCEPT ![call[x].event] = @ + 1]
  /\ MoveTo(x, "committed")
  /\ UNCHANGED <<log, job, tries, stripe, late, crashes, scenario>>

\* The handler returns PROCESSED: when that work is done, or at once where it
\* finds its change made by an earlier run, as settlePaidIntent does.
Completes(x) ==
  /\ \/ call[x].pc = "committed"
     \/ Ours /\ call[x].pc = "handle" /\ handled[call[x].event] > 0
  /\ MoveTo(x, "processed")
  /\ UNCHANGED <<log, job, tries, stripe, effects, crashes, scenario>>

\* The handler returns IGNORED: a session without an intent, another's payout.
Declines(x) ==
  /\ ~Ours
  /\ call[x].pc = "handle"
  /\ MoveTo(x, "declined")
  /\ UNCHANGED <<log, job, tries, stripe, effects, crashes, scenario>>

\* The handler throws, before its transaction or in the work that follows it.
Throws(x) ==
  /\ "handlerFails" \in scenario
  /\ call[x].pc \in {"handle", "committed"}
  /\ late' = [late EXCEPT ![call[x].event] = IF call[x].pc = "committed" THEN @ + 1 ELSE @]
  /\ MoveTo(x, "failed")
  /\ UNCHANGED <<log, job, tries, stripe, handled, crashes, scenario>>

\* What the handler returned is written to the row.
WriteOutcome(x) ==
  /\ call[x].pc \in {"processed", "declined"}
  /\ log' = [log EXCEPT ![call[x].event] = IF call[x].pc = "processed" THEN "PROCESSED" ELSE "IGNORED"]
  /\ MoveTo(x, "done")
  /\ UNCHANGED <<job, tries, stripe, effects, crashes, scenario>>

Return(x) ==
  /\ call[x].pc = "done"
  /\ Succeed(x)
  /\ UNCHANGED <<log, tries, delivered, effects, crashes, scenario>>

\* Mutant of WriteFailed: the error is written down and not thrown again.
WriteFailedQuietly(x) ==
  /\ call[x].pc = "failed"
  /\ log' = [log EXCEPT ![call[x].event] = "FAILED"]
  /\ Succeed(x)
  /\ UNCHANGED <<tries, delivered, effects, crashes, scenario>>

WriteFailed(x) ==
  /\ call[x].pc = "failed"
  /\ log' = [log EXCEPT ![call[x].event] = "FAILED"]
  /\ GiveUp(x)
  /\ UNCHANGED <<delivered, effects, crashes, scenario>>

\* A process dies: a request is gone, a worker's job is handed out again, or
\* given up when it is not the first time.
Crash(x) ==
  /\ call[x].pc # "idle"
  /\ (IF x \in Workers THEN "workerDies" ELSE "requestDies") \in scenario
  /\ crashes < MaxCrashes
  /\ crashes' = crashes + 1
  /\ \E to \in {"waiting"} \cup IF crashes > 0 THEN {"failed"} ELSE {} :
       job' = IF x \in Workers THEN [job EXCEPT ![call[x].event] = to] ELSE job
  /\ Finish(x)
  /\ UNCHANGED <<log, tries, stripe, effects, scenario>>
-------------------------------------------------------------------------------
\* Steps of a call that has started, its commit apart.
Continue(x) ==
  \/ Lookup(x) \/ Record(x) \/ Ignore(x) \/ Enqueue(x)
  \/ Load(x) \/ Mark(x) \/ Completes(x) \/ Declines(x) \/ Throws(x)
  \/ WriteOutcome(x) \/ Return(x) \/ WriteFailed(x)

Executors == Requests \cup Workers

\* Everything but a commit: EventPipeline joins that to the outbox.
Step ==
  \/ \E x \in Requests, e \in Events : Deliver(x, e)
  \/ \E x \in Workers, e \in Events : Take(x, e)
  \/ \E x \in Executors : Continue(x) \/ Crash(x)

Next == Step \/ \E x \in Executors : Commits(x)

Spec == Init /\ [][Next]_vars
-------------------------------------------------------------------------------
\* Every variable keeps its type.
TypeOK ==
  /\ log \in [Events -> {"none", "RECEIVED", "PROCESSING", "PROCESSED", "IGNORED", "FAILED"}]
  /\ job \in [Events -> {"none", "waiting", "active", "completed", "failed"}]
  /\ tries \in [Events -> 0..MaxTries]
  /\ delivered \in [Events -> 0..MaxDeliveries]
  /\ answered \subseteq Events
  /\ handled \in [Events -> Nat]
  /\ late \in [Events -> Nat]
  /\ call \in [Executors -> [pc : {"idle", "lookup", "record", "ignore", "enqueue", "load",
                                   "mark", "handle", "committed", "processed", "declined", "done", "failed"},
                             event : Events \cup {None}]]
  /\ crashes \in 0..MaxCrashes
  /\ scenario \in Environments

\* However often an event is delivered, and to however many processes at once:
\* it takes effect a second time only because a run that had committed threw,
\* or a process died, and once for each time that happened.
HandledOncePerFailure ==
  \A e \in Events : handled[e] <= 1 + late[e] + crashes

\* An event that is logged PROCESSED took effect, and is never processed
\* again: not by its job's next run after a crash, not by a redelivery.
ProcessedForGood ==
  [][\A e \in Events :
       /\ log'[e] = "PROCESSED" => handled'[e] > 0
       /\ log[e] = "PROCESSED" => log'[e] = "PROCESSED" /\ handled'[e] = handled[e]]_vars
===============================================================================
