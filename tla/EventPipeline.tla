----------------------------- MODULE EventPipeline -----------------------------
(***************************************************************************)
(* From Stripe to the main server: the webhook intake and the outbox,      *)
(* joined where a handler commits its change together with its             *)
(* announcement.                                                           *)
(***************************************************************************)
EXTENDS StripeIntake, Outbox

CONSTANT
  MaxRows  \* bound: announcements of other services stop at this many rows

VARIABLE
  announcing  \* the outbox rows that announce each event

allVars == <<vars, outboxVars, announcing>>

PipelineInit ==
  /\ Init
  /\ OutboxInit
  /\ announcing = [e \in Events |-> {}]

\* A handler's transaction.  One that commits again announces again, in a row of
\* its own: only the handlers that look first (Completes) do not.
HandleEvent(x) ==
  /\ Commits(x)
  /\ Insert
  /\ announcing' = [announcing EXCEPT ![call[x].event] = @ \cup {rows + 1}]

IntakeStep == Step /\ UNCHANGED <<outboxVars, announcing>>

\* Other services announce their changes through the same table.
OutboxStep ==
  /\ \/ \E x \in Relays : Relay(x) \/ Die(x)
     \/ rows < MaxRows /\ Insert
  /\ UNCHANGED <<vars, announcing>>

PipelineNext ==
  \/ IntakeStep
  \/ \E x \in Executors : HandleEvent(x)
  \/ OutboxStep

PipelineSpec == PipelineInit /\ [][PipelineNext]_allVars

\* Requests and workers go on with what they have begun, workers take what is
\* waiting, and the relay's timer keeps firing.
ContinueOrHandle(x) ==
  \/ Continue(x) /\ UNCHANGED <<outboxVars, announcing>>
  \/ HandleEvent(x)

TakeJob(x) ==
  /\ \E e \in Events : Take(x, e)
  /\ UNCHANGED <<outboxVars, announcing>>

RelayStep(x) == Relay(x) /\ UNCHANGED <<vars, announcing>>

FairPipelineSpec ==
  /\ PipelineSpec
  /\ \A x \in Executors : WF_allVars(ContinueOrHandle(x))
  /\ \A x \in Workers : WF_allVars(TakeJob(x))
  /\ \A x \in Relays : WF_allVars(RelayStep(x))
-------------------------------------------------------------------------------
\* An answered event that needs handling is processed, or its job used up its
\* tries and is kept for a person to look at.
AnsweredIsFinished ==
  \A e \in Events : e \in answered ~> Finished(e) \/ job[e] = "failed"

\* The job, or an announcement, used up its tries.
GivenUp(e) ==
  \/ job[e] = "failed"
  \/ \E r \in announcing[e] : attempts[r] >= MaxAttempts

\* From end to end: what Stripe was told we have, the main server hears of,
\* though workers and relays die and handlers, Redis and Postgres fail.  (Not
\* when the request itself dies or has no queue: then an event can be dropped.)
AnsweredIsAnnounced ==
  \A e \in Events :
    e \in answered /\ scenario \cap {"requestDies", "inline", "redisFails", "noHandler", "notOurs"} = {}
    ~> \/ announcing[e] # {} /\ announcing[e] \subseteq jobs
       \/ GivenUp(e)
===============================================================================
