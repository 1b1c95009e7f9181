---------------------------- MODULE SettlementJobs ----------------------------
(***************************************************************************)
(* The background jobs that release and pay settlements on their own.      *)
(*                                                                         *)
(* Two scans look for candidates every five minutes and queue a job for    *)
(* each, under an id made of the job's kind and the settlement.  BullMQ    *)
(* ignores an add whose id it already holds, finished jobs included: only  *)
(* the repeatable scans are removed on completion.  Two gates stand before *)
(* a transfer, the environment's flag and the administrators' switch, and  *)
(* then the copy of the seller's account.  An administrator may force one. *)
(*                                                                         *)
(* How a settlement is claimed and what may race with it is Settlement's   *)
(* subject; here a release is one step and a transfer a few.               *)
(***************************************************************************)
EXTENDS ConnectMirror

CONSTANTS
  Settlements,  \* settlements of the seller, waiting out their protection window
  Workers,      \* jobs that run at a time
  Admin,        \* a forced transfer
  MaxAttempts,  \* tries of a transfer job (8 in the code)
  MaxSlips,     \* bound: transient errors and workers that die
  MaxFlips      \* bound: switches thrown, and restarts with the other flag

ASSUME JobsAssumption == {MaxSlips, MaxFlips} \subseteq Nat /\ MaxAttempts \in Nat \ {0}
ASSUME NamesAssumption == "none" \notin Settlements /\ Admin \notin Workers

VARIABLES
  status,       \* settlementStatus of each
  clear,        \* settlements whose order has no open return, dispute or issue
  job,          \* the jobs in the queue, finished ones included
  attempts,     \* failed tries of each transfer job
  stalled,      \* transfer jobs that have lost a worker
  worker,       \* what each worker, and the admin's request, is doing
  switches,     \* the switches of the settlement settings that are on
  envOn,        \* SELLER_AUTO_TRANSFER_ENABLED, as the process read it at its start
  sentBy,       \* Stripe: who made each settlement's transfer
  mishaps       \* slips and flips so far

jobVars == <<status, clear, job, attempts, stalled, worker, switches, envOn, sentBy, mishaps>>

Callers == Workers \cup {Admin}
Kinds == {"release", "transfer"}
Rest == [pc |-> "idle", s |-> "none"]

JobsInit ==
  /\ status = [s \in Settlements |-> "ON_HOLD"]
  /\ clear \in SUBSET Settlements
  /\ job = [k \in Kinds |-> [s \in Settlements |-> "none"]]
  /\ attempts = [s \in Settlements |-> 0]
  /\ stalled = {}
  /\ worker = [w \in Callers |-> Rest]
  /\ switches \in SUBSET {"settlement", "payout"}
  /\ envOn \in BOOLEAN
  /\ sentBy = [s \in Settlements |-> "nobody"]
  /\ mishaps = [slips |-> 0, flips |-> 0]
-------------------------------------------------------------------------------
(***************************************************************************)
(* The environment, the settings.                                          *)
(***************************************************************************)
Counts(kind, bound) == mishaps[kind] < bound /\ mishaps' = [mishaps EXCEPT ![kind] = @ + 1]

IssueResolved(s) ==
  /\ s \notin clear
  /\ clear' = clear \cup {s}
  /\ UNCHANGED <<status, job, attempts, stalled, worker, switches, envOn, sentBy, mishaps>>

Flip(which) ==
  /\ Counts("flips", MaxFlips)
  /\ switches' = IF which \in switches THEN switches \ {which} ELSE switches \cup {which}
  /\ UNCHANGED <<status, clear, job, attempts, stalled, worker, envOn, sentBy>>

\* The process starts anew, with the flag changed; the queue is in Redis and
\* stays as it was.  What it was doing is over, or was lost when it died.
Restart ==
  /\ \A w \in Callers : worker[w].pc = "idle"
  /\ Counts("flips", MaxFlips)
  /\ envOn' = ~ envOn
  /\ UNCHANGED <<status, clear, job, attempts, stalled, worker, switches, sentBy>>
-------------------------------------------------------------------------------
(***************************************************************************)
(* The queue.                                                              *)
(***************************************************************************)
\* enqueueRelease and enqueueTransfer: an id the queue has seen is not added.
Added(kind, S) ==
  job' = [job EXCEPT ![kind] = [s \in Settlements |->
            IF s \in S /\ @[s] = "none" THEN "waiting" ELSE @[s]]]

\* automaticTransfersAllowed.
Allowed == envOn /\ "payout" \in switches

ScanReleases ==
  /\ "settlement" \in switches
  /\ Added("release", {s \in Settlements : status[s] = "ON_HOLD"})
  /\ UNCHANGED <<status, clear, attempts, stalled, worker, switches, envOn, sentBy, mishaps>>

ScanTransfers ==
  /\ Allowed
  /\ Added("transfer", {s \in Settlements : status[s] = "ELIGIBLE"})
  /\ UNCHANGED <<status, clear, attempts, stalled, worker, switches, envOn, sentBy, mishaps>>

\* releaseIfEligible as a job: a settlement that may not be released yet leaves
\* its job completed.
ReleaseOne(s) ==
  /\ job["release"][s] = "waiting"
  /\ job' = [job EXCEPT !["release"][s] = "completed"]
  /\ status' = IF status[s] = "ON_HOLD" /\ s \in clear /\ "settlement" \in switches
               THEN [status EXCEPT ![s] = "ELIGIBLE"] ELSE status
  /\ UNCHANGED <<clear, attempts, stalled, worker, switches, envOn, sentBy, mishaps>>

TakeTransfer(w, s) ==
  /\ w \in Workers
  /\ worker[w].pc = "idle"
  /\ job["transfer"][s] = "waiting"
  /\ job' = [job EXCEPT !["transfer"][s] = "active"]
  /\ worker' = [worker EXCEPT ![w] = [pc |-> "read", s |-> s]]
  /\ UNCHANGED <<status, clear, attempts, stalled, switches, envOn, sentBy, mishaps>>

\* The admin's route calls transferSettlement with force.
ForceTransfer(s) ==
  /\ worker[Admin].pc = "idle"
  /\ worker' = [worker EXCEPT ![Admin] = [pc |-> "read", s |-> s]]
  /\ UNCHANGED <<status, clear, job, attempts, stalled, switches, envOn, sentBy, mishaps>>

MoveTo(w, pc) == worker' = [worker EXCEPT ![w].pc = pc]

\* What transferSettlement returns completes the job; what it throws is tried
\* again until the attempts are used up.
Ends(w, as) ==
  /\ worker' = [worker EXCEPT ![w] = Rest]
  /\ job' = IF w \in Workers THEN [job EXCEPT !["transfer"][worker[w].s] = as] ELSE job

Returns(w) == Ends(w, "completed") /\ UNCHANGED attempts

\* *Mutant*: a transfer job is tried for ever.
ThrowsForEver(w) ==
  /\ Ends(w, "waiting")
  /\ attempts' = IF w \in Workers THEN [attempts EXCEPT ![worker[w].s] = @ + 1] ELSE attempts

Throws(w) ==
  LET s == worker[w].s
      tries == attempts[s] + 1
  IN /\ Ends(w, IF tries < MaxAttempts THEN "waiting" ELSE "failed")
     /\ attempts' = IF w \in Workers THEN [attempts EXCEPT ![s] = tries] ELSE attempts
-------------------------------------------------------------------------------
(***************************************************************************)
(* transferSettlement.                                                     *)
(***************************************************************************)
\* *Mutant*: the flag is asked for when the job is queued, and not again.
TransferReadUngated(w) ==
  /\ worker[w].pc = "read"
  /\ IF status[worker[w].s] = "ELIGIBLE"
     THEN MoveTo(w, "ready") /\ UNCHANGED <<job, attempts>>
     ELSE Returns(w)
  /\ UNCHANGED <<status, clear, stalled, switches, envOn, sentBy, mishaps>>

TransferRead(w) ==
  /\ worker[w].pc = "read"
  /\ IF status[worker[w].s] = "ELIGIBLE" /\ (w = Admin \/ Allowed)
     THEN MoveTo(w, "ready") /\ UNCHANGED <<job, attempts>>
     ELSE Returns(w)
  /\ UNCHANGED <<status, clear, stalled, switches, envOn, sentBy, mishaps>>

\* A seller who cannot be paid yet leaves the settlement where it is.
TransferReady(w) ==
  /\ worker[w].pc = "ready"
  /\ IF PayoutReady THEN MoveTo(w, "claim") /\ UNCHANGED <<job, attempts>> ELSE Returns(w)
  /\ UNCHANGED <<status, clear, stalled, switches, envOn, sentBy, mishaps>>

\* A read of the database fails.
ReadFails(w) ==
  /\ worker[w].pc \in {"read", "ready"}
  /\ Counts("slips", MaxSlips)
  /\ Throws(w)
  /\ UNCHANGED <<status, clear, stalled, switches, envOn, sentBy>>

TransferClaim(w) ==
  LET s == worker[w].s
  IN /\ worker[w].pc = "claim"
     /\ IF status[s] = "ELIGIBLE"
        THEN /\ status' = [status EXCEPT ![s] = "TRANSFER_PENDING"]
             /\ MoveTo(w, "send")
             /\ UNCHANGED <<job, attempts>>
        ELSE Returns(w) /\ UNCHANGED status
     /\ UNCHANGED <<clear, stalled, switches, envOn, sentBy, mishaps>>

\* Stripe takes the transfer, or refuses it for the account as it really is; the
\* call may fail before or after that, and then transferSettlement throws.
TransferSend(w) ==
  LET s == worker[w].s
      made == IF sentBy[s] = "nobody"
              THEN [sentBy EXCEPT ![s] = IF w = Admin THEN "admin" ELSE "worker"] ELSE sentBy
  IN /\ worker[w].pc = "send"
     /\ \/ /\ IF ReadyAtStripe THEN MoveTo(w, "sent") /\ sentBy' = made
                               ELSE MoveTo(w, "refused") /\ UNCHANGED sentBy
           /\ UNCHANGED <<job, attempts, mishaps>>
        \/ /\ Counts("slips", MaxSlips)
           /\ Throws(w)
           /\ \/ UNCHANGED sentBy
              \/ ReadyAtStripe /\ sentBy' = made
     /\ UNCHANGED <<status, clear, stalled, switches, envOn>>

TransferDone(w) ==
  LET s == worker[w].s
  IN /\ worker[w].pc \in {"sent", "refused"}
     /\ status' = [status EXCEPT ![s] =
                     IF worker[w].pc = "sent" THEN "TRANSFERRED" ELSE "TRANSFER_FAILED"]
     /\ Returns(w)
     /\ UNCHANGED <<clear, stalled, switches, envOn, sentBy, mishaps>>

\* A stalled job is handed out again, once: at the second stall it fails.
WorkerDies(w) ==
  /\ worker[w].pc # "idle"
  /\ Counts("slips", MaxSlips)
  /\ Ends(w, IF worker[w].s \in stalled THEN "failed" ELSE "waiting")
  /\ stalled' = IF w \in Workers THEN stalled \cup {worker[w].s} ELSE stalled
  /\ UNCHANGED <<status, clear, attempts, switches, envOn, sentBy>>

Transfer(w) ==
  TransferRead(w) \/ TransferReady(w) \/ ReadFails(w) \/ TransferClaim(w) \/ TransferSend(w) \/ TransferDone(w)
===============================================================================
