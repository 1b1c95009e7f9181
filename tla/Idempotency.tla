----------------------------- MODULE Idempotency -----------------------------
(***************************************************************************)
(* The Idempotency-Key gate in front of the mutating endpoints, for one    *)
(* key of one scope.  A request reads the row of its key, claims the key   *)
(* by creating the row or by taking an abandoned claim over, does the      *)
(* work, answers its client, and only then stores the answer or releases   *)
(* the key.  Storing and releasing name the key and not the claim, so a    *)
(* request that outlived its claim still writes to the row of another.     *)
(***************************************************************************)
EXTENDS Naturals, FiniteSets

CONSTANTS
  Requests,  \* requests sent with the key; a client that tries again is another one
  Bodies,    \* what a request can ask for
  Asked,     \* the cases considered: what each of the requests asks for
  Lease,     \* IN_PROGRESS_LEASE_MS, in ticks of the clock
  MaxSlips   \* bound: failures the gate cannot see

ASSUME RequestsAssumption == IsFiniteSet(Requests)
ASSUME BodiesAssumption == Asked \subseteq [Requests -> Bodies]
ASSUME LeaseAssumption == Lease \in Nat \ {0}
ASSUME BoundAssumption == MaxSlips \in Nat

VARIABLES
  row,      \* the IdempotencyKey row
  age,      \* time since the row's lockedAt, up to Lease
  current,  \* requests whose copy of lockedAt is still that of the row
  req,      \* what each request is doing, and what it answered its client
  effects,  \* requests whose work took effect
  slips     \* what went wrong that the gate cannot see, as <<kind, request>>

vars == <<row, age, current, req, effects, slips>>

Nobody == "nobody"
NoRow == [state |-> "none", body |-> Nobody, owner |-> Nobody, response |-> Nobody]

\* The owner is who claimed last: the program does not keep it.
Claimed(r) == [state |-> "claimed", body |-> req[r].body, owner |-> r, response |-> Nobody]

Working == {"work", "worked"}
Live(r) == req[r].pc \in Working \cup {"store", "release"}

Init ==
  /\ row = NoRow
  /\ age = 0
  /\ current = {}
  /\ \E asked \in Asked :
       req = [r \in Requests |-> [pc |-> "sent", body |-> asked[r],
                                 answer |-> Nobody, from |-> Nobody]]
  /\ effects = {}
  /\ slips = {}

MoveTo(r, pc) == req' = [req EXCEPT ![r].pc = pc]
Answer(r, pc, what, from) == req' = [req EXCEPT ![r].pc = pc, ![r].answer = what, ![r].from = from]
Slip(kind, r) == Cardinality(slips) < MaxSlips /\ slips' = slips \cup {<<kind, r>>}

\* A claim, a release or a deletion makes every copy of lockedAt a stale one.
NewRow(new) == row' = new /\ age' = 0 /\ current' = {}
Same == UNCHANGED <<row, age, current>>
-------------------------------------------------------------------------------
\* *Mutant*: without a lease a claim is never given up.
NeverAbandoned == age > Lease

Abandoned == age >= Lease

\* A 409 IDEMPOTENCY_IN_PROGRESS is no answer: the client sends again.
Lookup(r) ==
  /\ req[r].pc = "sent"
  /\ \/ row.state = "none" /\ MoveTo(r, "create") /\ UNCHANGED current
     \/ /\ row.state # "none"
        /\ row.body # req[r].body
        /\ Answer(r, "done", "reused", Nobody)
        /\ UNCHANGED current
     \/ /\ row.state = "completed"
        /\ row.body = req[r].body
        /\ Answer(r, "done", "replay", row.response)
        /\ UNCHANGED current
     \/ /\ row.state = "claimed"
        /\ row.body = req[r].body
        /\ Abandoned
        /\ MoveTo(r, "takeover")
        /\ current' = current \cup {r}
  /\ UNCHANGED <<row, age, effects, slips>>

Create(r) ==
  /\ req[r].pc = "create"
  /\ IF row.state = "none" THEN NewRow(Claimed(r)) /\ MoveTo(r, "work")
                           ELSE Same /\ MoveTo(r, "sent")
  /\ UNCHANGED <<effects, slips>>

\* *Mutant*: the claim is taken whenever it is not completed, unconditionally.
StillAbandonedUnchecked(r) == row.state = "claimed"

\* The conditions of the takeover's updateMany.
StillAbandoned(r) == row.state = "claimed" /\ r \in current

TakeOver(r) ==
  /\ req[r].pc = "takeover"
  /\ IF StillAbandoned(r)
     THEN NewRow([row EXCEPT !.owner = r]) /\ MoveTo(r, "work")
     ELSE MoveTo(r, "sent") /\ current' = current \ {r} /\ UNCHANGED <<row, age>>
  /\ UNCHANGED <<effects, slips>>
-------------------------------------------------------------------------------
\* The handler behind the gate: it takes effect or not, and says so or not.
Work(r) ==
  /\ req[r].pc = "work"
  /\ MoveTo(r, "worked")
  /\ effects' = effects \cup {r}
  /\ Same /\ UNCHANGED slips

Fail(r) ==
  /\ req[r].pc \in Working
  /\ Answer(r, "release", "failed", Nobody)
  /\ IF r \in effects THEN Slip("halfway", r) ELSE UNCHANGED slips
  /\ Same /\ UNCHANGED effects

Succeed(r) ==
  /\ req[r].pc = "worked"
  /\ Answer(r, "store", "ok", r)
  /\ Same /\ UNCHANGED <<effects, slips>>

\* *Mutant*: the response is stored whatever its status.
ReleaseStores(r) ==
  /\ req[r].pc = "release"
  /\ IF row.state # "none" THEN row' = [row EXCEPT !.state = "completed", !.response = r]
                           ELSE UNCHANGED row
  /\ MoveTo(r, "done")
  /\ UNCHANGED <<age, current, effects, slips>>

\* The update and the delete name the key: they find whatever row there is.
Store(r) ==
  /\ req[r].pc = "store"
  /\ IF row.state # "none" THEN row' = [row EXCEPT !.state = "completed", !.response = r]
                           ELSE UNCHANGED row
  /\ MoveTo(r, "done")
  /\ UNCHANGED <<age, current, effects, slips>>

\* *Mutant*: the claim is blanked instead of deleted.
ReleaseBlanks(r) ==
  /\ req[r].pc = "release"
  /\ NewRow([row EXCEPT !.owner = Nobody, !.response = Nobody])
  /\ MoveTo(r, "done")
  /\ UNCHANGED <<effects, slips>>

Release(r) ==
  /\ req[r].pc = "release"
  /\ NewRow(NoRow)
  /\ MoveTo(r, "done")
  /\ UNCHANGED <<effects, slips>>

\* The database refuses the write after the answer: it is logged and forgotten.
NotRecorded(r) ==
  /\ req[r].pc \in {"store", "release"}
  /\ MoveTo(r, "done")
  /\ IF r \in effects THEN Slip("unstored", r) ELSE UNCHANGED slips
  /\ Same /\ UNCHANGED effects
-------------------------------------------------------------------------------
\* The process dies: the request ends where it is, without an answer.
Die(r) ==
  /\ req[r].pc \notin {"done", "dead"}
  /\ MoveTo(r, "dead")
  /\ IF r \in effects THEN Slip("died", r) ELSE UNCHANGED slips
  /\ current' = current \ {r}
  /\ UNCHANGED <<row, age, effects>>

\* Time passes.  Reaching the lease with the claimant still at work is the
\* case the length of the lease is meant to rule out.
Tick ==
  /\ row.state = "claimed"
  /\ age < Lease
  /\ age' = age + 1
  /\ IF age + 1 = Lease /\ Live(row.owner) THEN Slip("overran", row.owner)
                                           ELSE UNCHANGED slips
  /\ UNCHANGED <<row, current, req, effects>>

\* The hourly cleanup finds the row past its TTL, completed or not.
Cleanup ==
  /\ row.state # "none"
  /\ Slip("expired", row.owner)
  /\ NewRow(NoRow)
  /\ UNCHANGED <<req, effects>>

\* Client and server go on: what a request does next.
Proceed(r) ==
  \/ Lookup(r) \/ Create(r) \/ TakeOver(r)
  \/ Work(r) \/ Fail(r) \/ Succeed(r)
  \/ Store(r) \/ Release(r) \/ NotRecorded(r)

Next == Tick \/ Cleanup \/ (\E r \in Requests : Proceed(r) \/ Die(r))

Spec == Init /\ [][Next]_vars
FairSpec == Spec /\ WF_vars(Tick) /\ \A r \in Requests : WF_vars(Proceed(r))
-------------------------------------------------------------------------------
\* A row that is there has its claimant's body, and a response once completed.
TypeOK ==
  /\ \/ row = NoRow
     \/ row \in [state : {"claimed"}, body : Bodies, owner : Requests, response : {Nobody}]
     \/ row \in [state : {"completed"}, body : Bodies, owner : Requests, response : Requests]
  /\ age \in 0..Lease
  /\ current \subseteq Requests
  /\ req \in [Requests -> [pc : {"sent", "create", "takeover", "store", "release",
                                 "done", "dead"} \cup Working,
                           body : Bodies,
                           answer : {Nobody, "ok", "failed", "replay", "reused"},
                           from : Requests \cup {Nobody}]]
  /\ effects \subseteq Requests
  /\ slips \subseteq {"halfway", "unstored", "died", "overran", "expired"} \X Requests

\* A key does its work once: each further effect is paid for by a failure the
\* gate has no way to see (a handler that failed after taking effect, an
\* answer that was not recorded, a process that died after the effect, a
\* request that outlived the lease, a key past its TTL).
OneEffect == Cardinality(effects) <= 1 + Cardinality(slips)

Outlived == \E s \in slips : s[1] \in {"overran", "expired"}

\* A replayed response is that of a request which did this very work; only a
\* request that lost its claim can put another's answer under the key.
ReplaysTheWork == \A r \in Requests :
  req[r].answer = "replay" =>
    LET s == req[r].from
    IN s \in effects /\ req[s].answer = "ok" /\ (req[s].body = req[r].body \/ Outlived)

\* Every client is answered in the end, though the request that claimed its key
\* died: a claim is never held for longer than the lease.
Served == \A r \in Requests : <>(req[r].pc \in {"store", "release", "done", "dead"})
===============================================================================
