--------------------------- MODULE AutomaticPayouts ---------------------------
(***************************************************************************)
(* From a seller's onboarding to the automatic transfer, and the           *)
(* reconciliation that is to notice when it does not come about: the       *)
(* composition of ConnectMirror, SettlementJobs and Reconciliation.        *)
(*                                                                         *)
(* They meet in three places: the copy of the account decides whether a    *)
(* job transfers, the account itself whether Stripe takes the transfer,    *)
(* and a settlement left in TRANSFER_PENDING is what the check for stuck   *)
(* transfers looks for.                                                    *)
(***************************************************************************)
EXTENDS SettlementJobs

CONSTANTS
  Passes, MaxNotes, MaxLost,  \* see Reconciliation
  Hourly,                     \* the pass that the hourly job makes
  Watched,                    \* the checks whose books may come to disagree
  MaxErrors,                  \* bound: times they come to disagree or agree
  Scenarios                   \* the environments: sets of things that may happen

ASSUME PayoutsAssumption == {MaxNotes, MaxLost, MaxErrors} \subseteq Nat

VARIABLES
  age,        \* how long a settlement has been as it is: new, suspicious, old
  examined,   \* settlements a pass has looked at while suspicious
  books,      \* the other checks whose records disagree
  errors,     \* changes of books so far
  exception, announced, pass, notes,
  scenario

payoutVars == <<age, examined, books, errors, scenario>>
reconciliationVars == <<exception, announced, pass, notes>>
vars == <<connectVars, jobVars, payoutVars, reconciliationVars>>

Stuck == "SETTLEMENT_STUCK_IN_TRANSFER"
Balance == "PLATFORM_BALANCE_SHORTFALL"
OfSettlements == {Stuck, "TRANSFER_MISSING_AT_STRIPE", "TRANSFER_AMOUNT_MISMATCH"}

\* *Mutant*: a claim is suspicious only once it has left the lookback.
SuspiciousLate == {s \in Settlements : status[s] = "TRANSFER_PENDING" /\ age[s] = "old"}

\* checkSettlements: claimed more than 30 minutes ago, touched within 48 hours.
Suspicious == {s \in Settlements : status[s] = "TRANSFER_PENDING" /\ age[s] = "suspicious"}

Disagreement == books \cup IF Suspicious # {} THEN {Stuck} ELSE {}

\* The platform's balance is looked at when transfers are on, settlements while
\* they are within the lookback.
Blind == (IF envOn THEN {} ELSE {Balance})
         \cup (IF \A s \in Settlements : age[s] = "old" THEN OfSettlements ELSE {})

R == INSTANCE Reconciliation WITH disagreement <- Disagreement, blind <- Blind

\* A seller who was onboarded before, and one who was paid before.
Onboarded ==
  /\ accounts = <<<<Fresh, Verified>>>>
  /\ keys = [w \in 0..MaxWindows |-> IF w = 0 THEN 1 ELSE 0]
  /\ row = Row(1, Verified)
  /\ notices = {}
  /\ tab = [t \in Tabs |-> Quiet]
  /\ window = 0
  /\ clicks = 0
  /\ orderly = TRUE

PaidBefore ==
  /\ status = [s \in Settlements |-> "TRANSFERRED"]
  /\ clear = Settlements
  /\ job = [k \in Kinds |-> [s \in Settlements |-> "completed"]]
  /\ attempts = [s \in Settlements |-> 0]
  /\ stalled = {}
  /\ worker = [w \in Callers |-> Rest]
  /\ switches = {"settlement", "payout"}
  /\ envOn \in BOOLEAN
  /\ sentBy = [s \in Settlements |-> "worker"]
  /\ mishaps = [slips |-> 0, flips |-> 0]

Init ==
  /\ scenario \in Scenarios
  /\ IF "connect" \in scenario THEN ConnectInit ELSE Onboarded
  /\ IF "jobs" \in scenario THEN JobsInit ELSE PaidBefore
  /\ "issues" \notin scenario => clear = Settlements
  /\ "flips" \notin scenario => switches = {"settlement", "payout"}
  /\ age = [s \in Settlements |-> "new"]
  /\ examined = {}
  /\ books = {}
  /\ errors = 0
  /\ R!ReconciliationInit
-------------------------------------------------------------------------------
(***************************************************************************)
(* The steps of the parts.                                                 *)
(***************************************************************************)
\* A row that is written is new again.
Touched == age' = [s \in Settlements |-> IF status'[s] # status[s] THEN "new" ELSE age[s]]

Connecting(A) ==
  /\ "connect" \in scenario
  /\ A
  /\ UNCHANGED <<jobVars, payoutVars, reconciliationVars>>

Working(A) ==
  /\ "jobs" \in scenario
  /\ A
  /\ Touched
  /\ UNCHANGED <<connectVars, examined, books, errors, scenario, reconciliationVars>>

Reconciling(A) ==
  /\ "passes" \in scenario
  /\ A
  /\ UNCHANGED <<connectVars, jobVars, age, books, errors, scenario>>

Deliver == Connecting(\E n \in notices : AccountUpdated(n))

Onboard == Connecting(
  \/ \E i \in DOMAIN accounts : StripeChanges(i)
  \/ TenMinutesPass
  \/ \E t \in Tabs : CreateRead(t) \/ CreateAsk(t) \/ CreateRecord(t) \/ Retrieve(t) \/ Sync(t)
                       \/ HandLicence(t) \/ TabDies(t))

Scan == Working(ScanReleases \/ ScanTransfers)
Release == Working(\E s \in Settlements : ReleaseOne(s))
Take(w) == Working(\E s \in Settlements : TakeTransfer(w, s))
TransferStep(w) == Working(Transfer(w))

Disturb ==
  \/ "issues" \in scenario /\ Working(\E s \in Settlements : IssueResolved(s))
  \/ "flips" \in scenario /\ Working(Flip("settlement") \/ Flip("payout"))
  \/ "restarts" \in scenario /\ Working(Restart)
  \/ "force" \in scenario /\ Working(\E s \in Settlements : ForceTransfer(s))
  \/ "dies" \in scenario /\ Working(\E w \in Callers : WorkerDies(w))

\* An error enters the books or is set right.
BooksChange ==
  /\ "books" \in scenario
  /\ errors < MaxErrors
  /\ errors' = errors + 1
  /\ \E k \in Watched :
       books' = IF k \in books THEN books \ {k} ELSE books \cup {k}
  /\ UNCHANGED <<connectVars, jobVars, age, examined, scenario, reconciliationVars>>

\* Thirty minutes after the last write, and then 48 hours, which are many
\* hourly passes.
Ages(s) ==
  /\ "passes" \in scenario
  /\ \/ age[s] = "new" /\ age' = [age EXCEPT ![s] = "suspicious"]
     \/ /\ age[s] = "suspicious" /\ s \in examined
        /\ age' = [age EXCEPT ![s] = "old"]
  /\ UNCHANGED <<connectVars, jobVars, examined, books, errors, scenario, reconciliationVars>>

Grow == \E s \in Settlements : Ages(s)

\* The hourly job; beside it, in a scenario about the books, an admin's request.
PassOn(r) == Reconciling(
  /\ r = Hourly \/ "books" \in scenario
  /\ R!PassStep(r)
  /\ examined' = IF pass[r].at > 0 /\ R!Check(r) = Stuck /\ pass'[r].at # pass[r].at
                 THEN examined \cup Suspicious ELSE examined)

Settle == Reconciling(
  /\ \/ "notes" \in scenario /\ \E k \in R!ExceptionKinds : R!Settled(k)
     \/ "dies" \in scenario /\ \E r \in Passes : R!PassDies(r)
  /\ UNCHANGED examined)

Next ==
  \/ Deliver \/ Onboard
  \/ Scan \/ Release \/ Disturb
  \/ \E w \in Callers : Take(w) \/ TransferStep(w)
  \/ BooksChange \/ Grow \/ Settle
  \/ \E r \in Passes : PassOn(r)

Spec == Init /\ [][Next]_vars

\* Events are delivered again until they are handled; the scans and the passes
\* are repeatable jobs; BullMQ hands every waiting job to a worker.
FairSpec ==
  /\ Spec
  /\ WF_vars(Deliver) /\ WF_vars(Release) /\ WF_vars(Grow)
  /\ WF_vars(Working(ScanReleases)) /\ WF_vars(Working(ScanTransfers))
  /\ \A w \in Callers : WF_vars(Take(w)) /\ WF_vars(TransferStep(w))
  /\ \A r \in Passes : WF_vars(PassOn(r))
-------------------------------------------------------------------------------
TypeOK ==
  /\ row.account \in 0..Len(accounts)
  /\ \A n \in notices : n.account \in DOMAIN accounts /\ accounts[n.account][n.at] = n.told
  /\ \A s \in Settlements :
       /\ status[s] \in {"ON_HOLD", "ELIGIBLE", "TRANSFER_PENDING", "TRANSFERRED", "TRANSFER_FAILED"}
       /\ attempts[s] \in 0..MaxAttempts
       /\ \A k \in Kinds : job[k][s] \in {"none", "waiting", "active", "completed", "failed"}
       /\ attempts[s] = MaxAttempts => job["transfer"][s] = "failed"
       /\ job["transfer"][s] = "failed" => attempts[s] = MaxAttempts \/ s \in stalled
       /\ job["transfer"][s] = "active" <=> \E w \in Workers : worker[w].s = s
  /\ \A k \in R!ExceptionKinds :
       exception[k] \in {"none", "OPEN", "ACKNOWLEDGED", "RESOLVED", "IGNORED"}

Sends(s, by) == sentBy[s] = "nobody" /\ sentBy'[s] = by

\* While the engineers' flag is off no worker sends a transfer, the jobs queued
\* before a restart turned it off among them, whatever is switched meanwhile: what
\* leaves then leaves by an administrator's hand (transferSettlement).
OffMeansNotAutomatic == [][\A s \in Settlements : Sends(s, "worker") => envOn]_vars

\* The copy of an account catches up with Stripe, if its notices are handled in
\* order and after the row is written.
MirrorCatchesUp ==
  <>[](orderly => row = NoRow \/ row.told = Current(row.account))

\* With both gates on and a seller who is ready, a settlement whose window has
\* passed reaches the seller, or a person is told that it is stuck, or its job
\* has failed for good before it claimed the settlement, whatever calls fail and
\* whichever workers die.
PaidOrReported ==
  \A s \in Settlements :
    <>[](envOn /\ {"jobs", "passes"} \subseteq scenario =>
           \/ status[s] = "TRANSFERRED"
           \/ exception[Stuck] # "none"
           \/ job["transfer"][s] = "failed" /\ status[s] = "ELIGIBLE")

\* What disagrees for good is before the admins in the end, unless they ignore
\* it, and what agrees for good is not left open.
ExceptionsFollowTheBooks == \A k \in Watched :
  /\ <>[]("passes" \in scenario /\ k \in Disagreement \ Blind) =>
       <>[](exception[k] \notin {"none", "RESOLVED"})
  /\ <>[]("passes" \in scenario /\ k \notin Disagreement \cup Blind) =>
       <>[](exception[k] # "OPEN")

\* What the code says of a seller who is not ready: "It is retried once the
\* account is ready; the money is never lost".
RetriedOnceReady == \A s \in Settlements :
  <>[](PayoutReady /\ ReadyAtStripe /\ Allowed) =>
    <>[](status[s] # "ELIGIBLE")

\* What the code says of the engineers' flag: "nobody can push money through
\* the engineering kill switch".
NobodyPassesTheFlag ==
  [][\A s \in Settlements : Sends(s, "worker") \/ Sends(s, "admin") => envOn]_vars
===============================================================================
