------------------------------ MODULE Settlement ------------------------------
(***************************************************************************)
(* One seller settlement and every operation that moves it.                *)
(*                                                                         *)
(* The row is shared by concurrent callers: the release and transfer jobs  *)
(* (concurrency 4), the command worker (3), the Stripe event worker (5)    *)
(* and the admin and buyer routes.  Every operation reads the row, decides *)
(* on a transition, and hands it to transitionSettlement, which reads the  *)
(* row again and then claims it with one conditional UPDATE.  Each of      *)
(* those reads and writes is a step of its own here; nothing holds a lock  *)
(* between them (Postgres READ COMMITTED).                                 *)
(***************************************************************************)
EXTENDS SettlementTypes, Naturals, FiniteSets

CONSTANTS
  Callers,       \* concurrent executions: workers, webhooks, routes
  Disputes,      \* Stripe dispute ids that may be raised on the payment
  EarlyRelease,  \* the allowEarlyReleaseOnBuyerConfirmation setting
  Operations,    \* which requests and events the environment issues
  MaxEvents      \* bound: events and commands of one behaviour

ASSUME EarlyReleaseAssumption == EarlyRelease \in BOOLEAN
ASSUME EventsAssumption == MaxEvents \in Nat

Issues == {"RETURN", "DISPUTE_CASE"}

\* Queue jobs: commands of the main server and stored Stripe events.
Jobs ==
  ({"FULFILLMENT_ORDER_CREATED", "FULFILLMENT_DELIVERED", "FULFILLMENT_CANCELLED",
    "charge.refunded", "payout.created", "payout.paid", "payout.failed"} \X {"order"})
  \cup ({"OPENED", "RESOLVED"} \X Issues)
  \cup ({"charge.dispute.created", "charge.dispute.closed"} \X Disputes)

NoJob == <<"none", "none">>

VARIABLES
  row,         \* the SellerSettlement row (the columns control depends on)
  windowOver,  \* eligibleAt has passed
  transferRow, \* status of the PayoutTransfer row; settlementId is unique
  atStripe,    \* a Stripe transfer exists under this settlement's key
  refund,      \* the full refund of this payment; RECORDED: payment REFUNDED
  clawedBack,  \* recoverFromSeller ran for this settlement
  bank,        \* Stripe's own view of each dispute
  disputeRow,  \* StripeDispute rows
  issue,       \* the main server's returns and dispute cases
  queue,       \* jobs waiting to be run
  sent,        \* jobs ever put on the queue (each has a fixed jobId)
  call         \* what each caller is in the middle of

vars == <<row, windowOver, transferRow, atStripe, refund, clawedBack, bank,
          disputeRow, issue, queue, sent, call>>
money == <<transferRow, atStripe, refund, clawedBack>>
outside == <<windowOver, bank, disputeRow, issue, sent>>

\* The transitions the operations ask for.
Ops == {"deliver", "release", "freeze", "unfreeze", "disputeOpened", "disputeWon",
        "disputeLost", "cancel", "refunded", "claimTransfer", "transferOk",
        "transferFailed", "offsetOnly", "manual", "payoutPaid"}

\* The `from` list each operation passes to transitionSettlement.
FromList ==
  [deliver        |-> {"PENDING"},
   release        |-> {"ON_HOLD"},
   freeze         |-> {"PENDING", "ON_HOLD", "ELIGIBLE", "TRANSFER_FAILED"},
   unfreeze       |-> {"FROZEN"},
   disputeOpened  |-> {"PENDING", "ON_HOLD", "ELIGIBLE", "TRANSFER_FAILED", "FROZEN"},
   disputeWon     |-> {"DISPUTED"},
   disputeLost    |-> {"DISPUTED", "FROZEN", "PENDING", "ON_HOLD", "ELIGIBLE"},
   cancel         |-> {"PENDING"},
   refunded       |-> {"PENDING", "ON_HOLD", "ELIGIBLE", "FROZEN", "DISPUTED",
                       "TRANSFER_FAILED"},
   claimTransfer  |-> {"ELIGIBLE"},
   transferOk     |-> {"TRANSFER_PENDING"},
   transferFailed |-> {"TRANSFER_PENDING"},
   offsetOnly     |-> {"ELIGIBLE"},
   manual         |-> {"ELIGIBLE", "TRANSFER_FAILED"},
   payoutPaid     |-> {"TRANSFERRED"}]

\* Mutants of From: lists one status too wide or too narrow.
FromClaimTwice(op) ==
  FromList[op] \cup (IF op = "claimTransfer" THEN {"TRANSFER_PENDING"} ELSE {})
FromPaidOutLost(op) ==
  FromList[op] \cup (IF op = "disputeLost" THEN {"PAID_OUT"} ELSE {})
FromRefundInFlight(op) ==
  FromList[op] \cup (IF op = "refunded" THEN {"TRANSFER_PENDING"} ELSE {})
FromNoDisputedRefund(op) ==
  FromList[op] \ (IF op = "refunded" THEN {"DISPUTED"} ELSE {})

From(op) == FromList[op]

\* A caller at pc outside transitionSettlement.
At(pc, arg, job) == [pc |-> pc, op |-> "none", to |-> "none", arg |-> arg, job |-> job]
Idle == At("idle", "none", NoJob)

Init ==
  /\ row = [status |-> "PENDING", delivered |-> FALSE, frozen |-> "none",
            receipt |-> FALSE, linked |-> FALSE]
  /\ windowOver = FALSE
  /\ transferRow = "none"
  /\ atStripe = FALSE
  /\ refund = "none"
  /\ clawedBack = FALSE
  /\ bank = [d \in Disputes |-> "none"]
  /\ disputeRow = [d \in Disputes |-> "none"]
  /\ issue = [k \in Issues |-> "none"]
  /\ queue = {}
  /\ sent = {}
  /\ call = [c \in Callers |-> Idle]
-------------------------------------------------------------------------------
(***************************************************************************)
(* What happens outside: orders are delivered, buyers open and close       *)
(* returns and cases, banks raise and decide disputes, Stripe pays banks.  *)
(***************************************************************************)
Report(job) ==
  /\ job \notin sent
  /\ sent' = sent \cup {job}
  /\ queue' = queue \cup {job}

Send(job) ==
  /\ Cardinality(sent) < MaxEvents
  /\ Report(job)

OrderEvent(kind) ==
  /\ kind \in Operations
  /\ Send(<<kind, "order">>)
  /\ UNCHANGED <<row, windowOver, money, bank, disputeRow, issue, call>>

WindowPasses ==
  /\ row.delivered
  /\ ~windowOver
  /\ windowOver' = TRUE
  /\ UNCHANGED <<row, money, bank, disputeRow, issue, queue, sent, call>>

OpenIssue(k) ==
  /\ k \in Operations
  /\ issue[k] = "none"
  /\ issue' = [issue EXCEPT ![k] = "open"]
  /\ Send(<<"OPENED", k>>)
  /\ UNCHANGED <<row, windowOver, money, bank, disputeRow, call>>

ResolveIssue(k) ==
  /\ issue[k] = "open"
  /\ issue' = [issue EXCEPT ![k] = "resolved"]
  /\ Send(<<"RESOLVED", k>>)
  /\ UNCHANGED <<row, windowOver, money, bank, disputeRow, call>>

BankRaisesDispute(d) ==
  /\ "dispute" \in Operations
  /\ bank[d] = "none"
  /\ bank' = [bank EXCEPT ![d] = "open"]
  /\ Send(<<"charge.dispute.created", d>>)
  /\ UNCHANGED <<row, windowOver, money, disputeRow, issue, call>>

BankDecidesDispute(d, outcome) ==
  /\ bank[d] = "open"
  /\ bank' = [bank EXCEPT ![d] = outcome]
  /\ Send(<<"charge.dispute.closed", d>>)
  /\ UNCHANGED <<row, windowOver, money, disputeRow, issue, call>>

\* Stripe starts paying the connected account's balance out; the payout arrives,
\* or bounces, before or after Stripe had called it paid.
StripePaysBank(kind) ==
  /\ atStripe
  /\ kind # "payout.created" => <<"payout.created", "order">> \in sent
  /\ Send(<<kind, "order">>)
  /\ UNCHANGED <<row, windowOver, money, bank, disputeRow, issue, call>>

\* A refund of everything made in the Stripe dashboard.
DashboardRefund ==
  /\ "dashboard" \in Operations
  /\ refund = "none"
  /\ refund' = "SUCCEEDED"
  /\ Send(<<"charge.refunded", "order">>)
  /\ UNCHANGED <<row, transferRow, atStripe, clawedBack, windowOver, bank,
                 disputeRow, issue, call>>

Environment ==
  \/ DashboardRefund
  \/ \E kind \in {"FULFILLMENT_ORDER_CREATED", "FULFILLMENT_DELIVERED", "FULFILLMENT_CANCELLED"} :
       OrderEvent(kind)
  \/ WindowPasses
  \/ \E k \in Issues : OpenIssue(k) \/ ResolveIssue(k)
  \/ \E d \in Disputes : BankRaisesDispute(d)
  \/ \E d \in Disputes, outcome \in {"won", "lost"} : BankDecidesDispute(d, outcome)
  \/ \E kind \in {"payout.created", "payout.paid", "payout.failed"} : StripePaysBank(kind)
-------------------------------------------------------------------------------
(***************************************************************************)
(* transitionSettlement                                                    *)
(***************************************************************************)
\* How a caller proceeds: done; on to another step; on to a step with its data.
Finish(c) == call' = [call EXCEPT ![c] = Idle]
MoveTo(c, pc) == call' = [call EXCEPT ![c].pc = pc]
Enter(c, pc, arg, job) == call' = [call EXCEPT ![c] = At(pc, arg, job)]

\* The operation's transaction has committed; a job still has to be acknowledged.
Commit(c) ==
  IF call[c].job = NoJob THEN Finish(c) ELSE Enter(c, "ack", "none", call[c].job)

\* Caller c now runs transitionSettlement for operation op.
Submit(c, op, to, arg, job) ==
  call' = [call EXCEPT ![c] = [pc |-> "before", op |-> op, to |-> to,
                               arg |-> arg, job |-> job]]

\* The transaction that ends a transfer updates the PayoutTransfer row whether
\* or not the transition in it changes anything.
SideRow(c) == IF call[c].op = "transferOk" THEN "TRANSFERRED" ELSE transferRow

\* transitionSettlement's own read of the row: a no-op when already there, a
\* refusal when the move is not in AllowedTransitions, else on to the claim.
TransitionRead(c) ==
  /\ call[c].pc = "before"
  /\ \/ /\ call[c].to \in AllowedTransitions[row.status]
        /\ MoveTo(c, "claim")
        /\ UNCHANGED transferRow
     \/ /\ call[c].to \notin AllowedTransitions[row.status]
        /\ transferRow' = SideRow(c)
        /\ Finish(c)
  /\ UNCHANGED <<row, atStripe, refund, clawedBack, outside, queue>>

\* Mutant of Claimed: lifting a freeze does not clear its reason.
ClaimedKeepsReason(c) ==
  [row EXCEPT !.status = call[c].to,
              !.frozen = IF call[c].op \in {"freeze", "unfreeze"} THEN call[c].arg ELSE @]

\* The columns a successful claim writes together with the status.
Claimed(c) ==
  LET op == call[c].op IN
  [row EXCEPT !.status = call[c].to,
              !.frozen = CASE op = "freeze" -> call[c].arg
                           [] op = "unfreeze" -> "none"
                           [] OTHER -> row.frozen]

\* The conditional UPDATE ... WHERE status IN (from).  Winning the transfer
\* claim is the only win that has more work behind it.
TransitionClaim(c) ==
  /\ call[c].pc = "claim"
  /\ transferRow' = SideRow(c)
  /\ \/ /\ row.status \in From(call[c].op)
        /\ row' = Claimed(c)
        /\ IF call[c].op = "claimTransfer"
           THEN MoveTo(c, "upsert")
           ELSE Commit(c)
     \/ /\ row.status \notin From(call[c].op)
        /\ UNCHANGED row
        /\ Finish(c)
  /\ UNCHANGED <<atStripe, refund, clawedBack, outside, queue>>

\* The worker acknowledges a job whose transaction has committed.
Acknowledge(c) ==
  /\ call[c].pc = "ack"
  /\ Finish(c)
  /\ UNCHANGED <<row, money, outside, queue>>

\* A worker dies in the middle of a job: the queue hands the job out again.
\* A request that dies is gone.
Crash(c) ==
  /\ "crash" \in Operations
  /\ call[c].pc # "idle"
  /\ queue' = queue \cup ({call[c].job} \cap Jobs)
  /\ Finish(c)
  /\ UNCHANGED <<row, money, outside>>
-------------------------------------------------------------------------------
(***************************************************************************)
(* Deliveries, releases, freezes                                           *)
(***************************************************************************)
Free(c) == call[c].pc = "idle"

Take(c, job) ==
  /\ Free(c)
  /\ job \in queue
  /\ queue' = queue \ {job}

\* linkFulfillmentOrder: from now on what the main server says of its order
\* finds the settlement.  The command may run after any of those, or find no
\* settlement yet, and then never again.
LinkFulfillmentOrder(c) ==
  /\ Take(c, <<"FULFILLMENT_ORDER_CREATED", "order">>)
  /\ row' = [row EXCEPT !.linked = TRUE]
  /\ UNCHANGED <<money, outside, call>>

\* recordDelivery, which finds the settlement by its payment: the first
\* statement of its transaction sets the delivery date if there is none, which
\* locks the row, so the transition behind it cannot interleave.  A replay of
\* the command finds the date set and runs the transition alone.
RecordDelivery(c) ==
  /\ Take(c, <<"FULFILLMENT_DELIVERED", "order">>)
  /\ \/ /\ ~row.delivered
        /\ row' = [row EXCEPT !.delivered = TRUE,
                              !.status = IF row.status = "PENDING" THEN "ON_HOLD" ELSE @]
        /\ Enter(c, "ack", "none", <<"FULFILLMENT_DELIVERED", "order">>)
     \/ /\ row.delivered
        /\ Submit(c, "deliver", "ON_HOLD", "none", <<"FULFILLMENT_DELIVERED", "order">>)
        /\ UNCHANGED row
  /\ UNCHANGED <<money, outside>>

\* Delivered, and the protection window over or waived by the buyer.
WindowServed == row.delivered /\ (windowOver \/ (EarlyRelease /\ row.receipt))

\* Mutants of the eligibility checks, each with one condition forgotten.
RowEligibleNoWindow ==
  /\ row.frozen # "RETURN"
  /\ row.status \notin {"DISPUTED", "FROZEN", "TRANSFER_PENDING"} \cup WithSeller
  /\ ~(row.linked /\ issue["DISPUTE_CASE"] = "open")
RowEligibleNoCase ==
  /\ WindowServed
  /\ row.frozen # "RETURN"
  /\ row.status \notin {"DISPUTED", "FROZEN", "TRANSFER_PENDING"} \cup WithSeller
PaymentEligibleNoDispute == refund # "RECORDED"

\* evaluateEligibility, first what it reads with the settlement row: the row
\* itself and, through the order it is linked to, the buyer's dispute case ...
RowEligible ==
  /\ WindowServed
  /\ row.frozen # "RETURN"
  /\ row.status \notin {"DISPUTED", "FROZEN", "TRANSFER_PENDING"} \cup WithSeller
  /\ ~(row.linked /\ issue["DISPUTE_CASE"] = "open")

\* ... then, in later queries, the payment and its open card disputes.
PaymentEligible ==
  /\ refund # "RECORDED"
  /\ \A d \in Disputes : disputeRow[d] \in {"none", "WON"}

\* releaseIfEligible, from the release job, the admin route or a confirmation.
ReleaseIfEligible(c) ==
  /\ call[c].pc \in {"idle", "confirmed"}
  /\ \/ RowEligible /\ MoveTo(c, "evaluate")
     \/ ~RowEligible /\ call[c].pc = "confirmed" /\ Finish(c)
  /\ UNCHANGED <<row, money, outside, queue>>

EvaluatePayment(c) ==
  /\ call[c].pc = "evaluate"
  /\ \/ PaymentEligible /\ Submit(c, "release", "ELIGIBLE", "none", NoJob)
     \/ ~PaymentEligible /\ Finish(c)
  /\ UNCHANGED <<row, money, outside, queue>>

ConfirmBuyerReceipt(c) ==
  /\ "confirm" \in Operations
  /\ Free(c)
  /\ row.linked
  /\ issue["DISPUTE_CASE"] # "open"
  /\ row' = [row EXCEPT !.receipt = TRUE]
  /\ IF EarlyRelease THEN MoveTo(c, "confirmed") ELSE UNCHANGED call
  /\ UNCHANGED <<money, outside, queue>>

FreezeSettlement(c) ==
  /\ "hold" \in Operations
  /\ Free(c)
  /\ Submit(c, "freeze", "FROZEN", "ADMIN_HOLD", NoJob)
  /\ UNCHANGED <<row, money, outside, queue>>

\* Mutant of RestoreTo: back to the status a settlement starts in.
RestoreToStart == "PENDING"

\* Where a lifted hold or a won dispute sends the settlement.
RestoreTo == IF row.delivered THEN "ON_HOLD" ELSE "PENDING"

UnfreezeSettlement(c) ==
  /\ "hold" \in Operations
  /\ Free(c)
  /\ row.status = "FROZEN"
  /\ Submit(c, "unfreeze", RestoreTo, "ADMIN", NoJob)
  /\ UNCHANGED <<row, money, outside, queue>>

\* Returns, cases and cancellations name the main server's order: a settlement
\* that is not linked to it is not found, and the command does nothing.
OnBuyerIssueOpened(c, k) ==
  /\ Take(c, <<"OPENED", k>>)
  /\ \/ /\ ~row.linked \/ row.status \in WithSeller
        /\ UNCHANGED call
     \/ /\ row.linked
        /\ row.status \notin WithSeller
        /\ Submit(c, "freeze", "FROZEN",
                  IF k = "RETURN" THEN "RETURN" ELSE "BUYER_DISPUTE_CASE", <<"OPENED", k>>)
  /\ UNCHANGED <<row, money, outside>>

OnBuyerIssueResolved(c, k) ==
  /\ Take(c, <<"RESOLVED", k>>)
  /\ \/ /\ ~row.linked \/ row.status # "FROZEN"
        /\ UNCHANGED call
     \/ /\ row.linked
        /\ row.status = "FROZEN"
        /\ Submit(c, "unfreeze", RestoreTo, "SYSTEM", <<"RESOLVED", k>>)
  /\ UNCHANGED <<row, money, outside>>

FulfillmentCancelled(c) ==
  /\ Take(c, <<"FULFILLMENT_CANCELLED", "order">>)
  /\ \/ ~row.linked /\ UNCHANGED call
     \/ row.linked /\ Submit(c, "cancel", "CANCELLED", "none", <<"FULFILLMENT_CANCELLED", "order">>)
  /\ UNCHANGED <<row, money, outside>>
-------------------------------------------------------------------------------
(***************************************************************************)
(* Card disputes and refunds                                               *)
(***************************************************************************)
\* The webhook stores the dispute in a transaction of its own, then acts on
\* the settlement.
HandleDisputeCreated(c, d) ==
  /\ Take(c, <<"charge.dispute.created", d>>)
  /\ disputeRow' = [disputeRow EXCEPT ![d] = "NEEDS_RESPONSE"]
  /\ Enter(c, "disputeOpened", "none", <<"charge.dispute.created", d>>)
  /\ UNCHANGED <<row, money, windowOver, bank, issue, sent>>

OnCardDisputeOpened(c) ==
  /\ call[c].pc = "disputeOpened"
  /\ \/ row.status \in WithSeller /\ Finish(c)
     \/ /\ row.status \notin WithSeller
        /\ Submit(c, "disputeOpened", "DISPUTED", "none", call[c].job)
  /\ UNCHANGED <<row, money, outside, queue>>

\* Stripe closes a dispute as won or lost; an inquiry it closes as a warning
\* counts as won.  A close that finds no local row does nothing more.
HandleDisputeClosed(c, d) ==
  /\ Take(c, <<"charge.dispute.closed", d>>)
  /\ \/ disputeRow[d] = "none" /\ UNCHANGED <<disputeRow, call>>
     \/ /\ disputeRow[d] # "none"
        /\ disputeRow' = [disputeRow EXCEPT ![d] = IF bank[d] = "won" THEN "WON" ELSE "LOST"]
        /\ Enter(c, "disputeClosed", bank[d], <<"charge.dispute.closed", d>>)
  /\ UNCHANGED <<row, money, windowOver, bank, issue, sent>>

OnCardDisputeClosed(c) ==
  /\ call[c].pc = "disputeClosed"
  /\ \/ /\ call[c].arg = "won" /\ row.status = "DISPUTED"
        /\ Submit(c, "disputeWon", RestoreTo, "none", call[c].job)
        /\ UNCHANGED clawedBack
     \/ /\ call[c].arg = "won" /\ row.status # "DISPUTED"
        /\ Finish(c)
        /\ UNCHANGED clawedBack
     \/ /\ call[c].arg = "lost" /\ row.status \in WithSeller
        /\ clawedBack' = TRUE
        /\ Finish(c)
     \/ /\ call[c].arg = "lost" /\ row.status \notin WithSeller
        /\ Submit(c, "disputeLost", "REFUNDED", "none", call[c].job)
        /\ UNCHANGED clawedBack
  /\ UNCHANGED <<row, transferRow, atStripe, refund, outside, queue>>

\* createRefund for the whole amount: refused while a transfer is in flight
\* or a refund of everything is processing or done.
CreateRefund(c) ==
  /\ "refund" \in Operations
  /\ Free(c)
  /\ refund \in {"none", "FAILED"}
  /\ row.status # "TRANSFER_PENDING"
  /\ refund' = "PROCESSING"
  /\ MoveTo(c, "stripeRefund")
  /\ UNCHANGED <<row, transferRow, atStripe, clawedBack, outside, queue>>

\* Stripe takes the refund and will report it, or refuses it.
StripeRefunds(c) ==
  /\ call[c].pc = "stripeRefund"
  /\ \/ /\ refund' = "SUCCEEDED"
        /\ MoveTo(c, "applyRefund")
        /\ Report(<<"charge.refunded", "order">>)
     \/ /\ refund' = "FAILED"
        /\ Finish(c)
        /\ UNCHANGED <<queue, sent>>
  /\ UNCHANGED <<row, transferRow, atStripe, clawedBack, windowOver, bank, disputeRow, issue>>

\* recordStripeRefundEvent carries the same refund to the settlement again.
HandleChargeRefunded(c) ==
  /\ Take(c, <<"charge.refunded", "order">>)
  /\ refund' = "RECORDED"
  /\ Enter(c, "applyRefund", "none", NoJob)
  /\ UNCHANGED <<row, transferRow, atStripe, clawedBack, outside>>

ApplyRefundToSettlement(c) ==
  /\ call[c].pc = "applyRefund"
  /\ \/ /\ row.status \in WithSeller
        /\ clawedBack' = TRUE
        /\ Finish(c)
     \/ /\ row.status \notin WithSeller
        /\ Submit(c, "refunded", "REFUNDED", "none", call[c].job)
        /\ UNCHANGED clawedBack
  /\ UNCHANGED <<row, transferRow, atStripe, refund, outside, queue>>
-------------------------------------------------------------------------------
(***************************************************************************)
(* Paying the seller                                                       *)
(***************************************************************************)
\* What the PayoutTransfer row may say once the transfer's success is recorded.
Recorded == {"TRANSFERRED", "PAYOUT_PENDING", "PAID_OUT"}

\* transferSettlement up to its claim.  Earlier debt may consume the whole
\* net amount; then nothing is sent and the settlement is closed directly.
TransferSettlement(c) ==
  /\ "transfer" \in Operations
  /\ Free(c)
  /\ row.status = "ELIGIBLE"
  /\ \/ Submit(c, "claimTransfer", "TRANSFER_PENDING", "none", NoJob)
     \/ Submit(c, "offsetOnly", "PAID_OUT", "none", NoJob)
  /\ UNCHANGED <<row, money, outside, queue>>

\* The PayoutTransfer upsert by idempotency key.  A manual payout's row holds
\* the unique settlementId under another key: the insert throws.
UpsertTransferRow(c) ==
  /\ call[c].pc = "upsert"
  /\ \/ /\ transferRow # "MANUAL"
        /\ transferRow' = "PENDING"
        /\ MoveTo(c, "stripe")
     \/ /\ transferRow = "MANUAL"
        /\ UNCHANGED transferRow
        /\ Finish(c)
  /\ UNCHANGED <<row, atStripe, refund, clawedBack, outside, queue>>

\* provider.createTransfer: created (or found under the key), refused for
\* good, or an error that leaves open whether Stripe created it.
CreateTransfer(c) ==
  /\ call[c].pc = "stripe"
  /\ \/ /\ atStripe' = TRUE
        /\ Submit(c, "transferOk", "TRANSFERRED", "none", NoJob)
        /\ UNCHANGED transferRow
     \/ /\ ~atStripe
        /\ transferRow' = "FAILED"
        /\ Submit(c, "transferFailed", "TRANSFER_FAILED", "none", NoJob)
        /\ UNCHANGED atStripe
     \/ /\ atStripe' \in {atStripe, TRUE}
        /\ Finish(c)
        /\ UNCHANGED transferRow
  /\ UNCHANGED <<row, refund, clawedBack, outside, queue>>

RecordManualPayout(c) ==
  /\ "manual" \in Operations
  /\ Free(c)
  /\ row.status \in {"ELIGIBLE", "TRANSFER_FAILED"}
  /\ MoveTo(c, "manualRow")
  /\ UNCHANGED <<row, money, outside, queue>>

\* Mutant of UpsertManualRow: no unique settlementId.
UpsertManualRowAnyway(c) ==
  /\ call[c].pc = "manualRow"
  /\ transferRow' = "MANUAL"
  /\ Submit(c, "manual", "PAID_OUT", "none", NoJob)
  /\ UNCHANGED <<row, atStripe, refund, clawedBack, outside, queue>>

\* The manual payout's upsert meets the same unique settlementId.
UpsertManualRow(c) ==
  /\ call[c].pc = "manualRow"
  /\ \/ /\ transferRow \in {"none", "MANUAL"}
        /\ transferRow' = "MANUAL"
        /\ Submit(c, "manual", "PAID_OUT", "none", NoJob)
     \/ /\ transferRow \notin {"none", "MANUAL"}
        /\ UNCHANGED transferRow
        /\ Finish(c)
  /\ UNCHANGED <<row, atStripe, refund, clawedBack, outside, queue>>

\* attributePayout: only a transfer whose success was recorded can be matched.
\* A payout that is not paid moves the transfer row alone, back from PAID_OUT too.
AttributePayout(c, kind) ==
  /\ Take(c, <<kind, "order">>)
  /\ \/ /\ transferRow \in Recorded
        /\ IF kind = "payout.paid"
           THEN /\ transferRow' = "PAID_OUT"
                /\ Submit(c, "payoutPaid", "PAID_OUT", "none", <<kind, "order">>)
           ELSE transferRow' = "PAYOUT_PENDING" /\ UNCHANGED call
     \/ /\ transferRow \notin Recorded
        /\ UNCHANGED <<transferRow, call>>
  /\ UNCHANGED <<row, atStripe, refund, clawedBack, outside>>

\* recordPayoutFailure: the transfer row goes back, the settlement does not.
RecordPayoutFailure(c) ==
  /\ Take(c, <<"payout.failed", "order">>)
  /\ transferRow' = IF transferRow \in Recorded THEN "TRANSFERRED" ELSE transferRow
  /\ UNCHANGED <<row, atStripe, refund, clawedBack, outside, call>>
-------------------------------------------------------------------------------
Caller(c) ==
  \/ TransitionRead(c) \/ TransitionClaim(c) \/ Crash(c) \/ Acknowledge(c)
  \/ LinkFulfillmentOrder(c) \/ RecordDelivery(c) \/ ReleaseIfEligible(c) \/ EvaluatePayment(c)
  \/ ConfirmBuyerReceipt(c)
  \/ FreezeSettlement(c) \/ UnfreezeSettlement(c) \/ FulfillmentCancelled(c)
  \/ \E k \in Issues : OnBuyerIssueOpened(c, k) \/ OnBuyerIssueResolved(c, k)
  \/ \E d \in Disputes : HandleDisputeCreated(c, d) \/ HandleDisputeClosed(c, d)
  \/ OnCardDisputeOpened(c) \/ OnCardDisputeClosed(c)
  \/ CreateRefund(c) \/ StripeRefunds(c) \/ HandleChargeRefunded(c)
  \/ ApplyRefundToSettlement(c)
  \/ TransferSettlement(c) \/ UpsertTransferRow(c) \/ CreateTransfer(c)
  \/ RecordManualPayout(c) \/ UpsertManualRow(c)
  \/ RecordPayoutFailure(c)
  \/ \E kind \in {"payout.created", "payout.paid"} : AttributePayout(c, kind)

Next == Environment \/ \E c \in Callers : Caller(c)

Spec == Init /\ [][Next]_vars

\* A call that has started runs to its end.
Continue(c) ==
  \/ TransitionRead(c) \/ TransitionClaim(c) \/ Acknowledge(c)
  \/ EvaluatePayment(c) \/ OnCardDisputeOpened(c) \/ OnCardDisputeClosed(c)
  \/ StripeRefunds(c) \/ ApplyRefundToSettlement(c)
  \/ UpsertTransferRow(c) \/ CreateTransfer(c) \/ UpsertManualRow(c)

\* Calls run to their end, and transfer jobs keep being attempted for as long
\* as transferSettlement would do something.
FairSpec ==
  /\ Spec
  /\ \A c \in Callers : WF_vars(Continue(c)) /\ WF_vars(TransferSettlement(c))
-------------------------------------------------------------------------------
PCs == {"idle", "confirmed", "evaluate", "before", "claim", "ack", "upsert", "stripe", "manualRow",
        "disputeOpened", "disputeClosed", "stripeRefund", "applyRefund"}

Rows == [status : Status, delivered : BOOLEAN, frozen : FreezeReasons \cup {"none"},
         receipt : BOOLEAN, linked : BOOLEAN]
Args == FreezeReasons \cup {"none", "ADMIN", "SYSTEM", "open", "won", "lost"}
Calls == [pc : PCs, op : Ops \cup {"none"}, to : Status \cup {"none"}, arg : Args,
          job : Jobs \cup {NoJob}]

\* Every variable keeps its type.
TypeOK ==
  /\ row \in Rows
  /\ windowOver \in BOOLEAN
  /\ transferRow \in {"none", "PENDING", "FAILED", "MANUAL"} \cup Recorded
  /\ atStripe \in BOOLEAN
  /\ refund \in {"none", "PROCESSING", "SUCCEEDED", "FAILED", "RECORDED"}
  /\ clawedBack \in BOOLEAN
  /\ bank \in [Disputes -> {"none", "open", "won", "lost"}]
  /\ disputeRow \in [Disputes -> {"none", "NEEDS_RESPONSE", "WON", "LOST"}]
  /\ issue \in [Issues -> {"none", "open", "resolved"}]
  /\ queue \subseteq Jobs
  /\ sent \subseteq Jobs
  /\ call \in [Callers -> Calls]

\* No money is released, sent or paid before the item was delivered and the
\* protection window served (or the buyer confirmed where that releases early):
\* however the two reads before a claim interleave with freezes, disputes and
\* deliveries by other callers.
PaidOnlyAfterWindow ==
  row.status \in PastWindow => WindowServed

\* A caller between winning the transfer claim and recording its outcome.
InTransfer(c) ==
  \/ call[c].pc \in {"upsert", "stripe"}
  \/ call[c].op \in {"transferOk", "transferFailed"}

\* Two workers racing on one settlement: one at most is past the claim, and
\* while it is, nobody else can move the row off TRANSFER_PENDING.
OneTransferInFlight ==
  /\ \A c \in Callers : InTransfer(c) => row.status = "TRANSFER_PENDING"
  /\ \A c, d \in Callers : InTransfer(c) /\ InTransfer(d) => c = d

\* A seller is never paid both by Stripe and by a recorded bank transfer, and
\* a settlement is TRANSFERRED only when its transfer exists and is recorded.
NeverPaidTwice ==
  /\ ~(atStripe /\ transferRow \in {"none", "MANUAL"})
  /\ row.status = "TRANSFERRED" => atStripe /\ transferRow \in Recorded

\* PAID_OUT, REFUNDED and CANCELLED are terminal under every interleaving of
\* the read that checks legality with the claim that does not.
TerminalForever ==
  [][row.status \in {"PAID_OUT", "REFUNDED", "CANCELLED"} => row'.status = row.status]_vars

\* A delivered settlement is never left in PENDING, where nothing would move
\* it again, once no caller is working on it.
DeliveredLeavesPending ==
  row.status = "PENDING" /\ row.delivered => \E c \in Callers : ~Free(c)

\* A job has been handled to the end.
Handled(job) == job \in sent \ queue /\ \A c \in Callers : call[c].job # job

\* Money is not released or sent while a dispute is open whose opening the
\* server has already handled.
DisputeStopsMoney ==
  [][row.status # row'.status /\ row'.status \in {"ELIGIBLE", "TRANSFER_PENDING"} =>
       ~\E d \in Disputes : /\ disputeRow[d] = "NEEDS_RESPONSE"
                            /\ Handled(<<"charge.dispute.created", d>>)]_vars

\* Nor while a return is open whose opening the server has already handled.
ReturnStopsMoney ==
  [][row.status # row'.status /\ row'.status \in {"ELIGIBLE", "TRANSFER_PENDING"} =>
       ~(issue["RETURN"] = "open" /\ Handled(<<"OPENED", "RETURN">>))]_vars

\* A buyer's dispute case whose opening the server has handled stops the release
\* of a settlement that is linked to its order, through its own table: whether
\* it was linked then or later, and when what it froze is lifted meanwhile.
CaseStopsRelease ==
  [][row.status # row'.status /\ row'.status = "ELIGIBLE" /\ row.linked =>
       ~(issue["DISPUTE_CASE"] = "open" /\ Handled(<<"OPENED", "DISPUTE_CASE">>))]_vars

\* A claimed transfer comes to an end: the retry of the job finishes it.
TransferComesToAnEnd ==
  row.status = "TRANSFER_PENDING" ~> row.status # "TRANSFER_PENDING"

\* When a full refund has been handled, the settlement has felt it: it is void,
\* or the money was taken back from the seller.  Or a transfer had been tried
\* and was left unfinished or failed, where the refund is refused; then nothing
\* makes the settlement eligible or pays it again.
RefundReachesSettlement ==
  /\ refund = "RECORDED"
  /\ \A c \in Callers : Free(c)
  => \/ row.status \in {"REFUNDED", "CANCELLED"}
     \/ row.status \in WithSeller /\ clawedBack
     \/ /\ transferRow \in {"PENDING", "FAILED"}
        /\ row.status \notin WithSeller \cup {"ELIGIBLE"}

\* Without that exception, as the refund's own comment has it.
RefundAlwaysReaches ==
  /\ refund = "RECORDED"
  /\ \A c \in Callers : Free(c)
  => \/ row.status \in {"REFUNDED", "CANCELLED"}
     \/ row.status \in WithSeller /\ clawedBack

\* A buyer's dispute case stops the release, linked or not.
CaseAlwaysStopsRelease ==
  [][row.status # row'.status /\ row'.status = "ELIGIBLE" =>
       ~(issue["DISPUTE_CASE"] = "open" /\ Handled(<<"OPENED", "DISPUTE_CASE">>))]_vars

\* The promise this implements: a status is a phase of SettlementLifecycle.
Phase ==
  CASE row.status \in {"ELIGIBLE", "TRANSFER_FAILED"} -> "released"
    [] row.status = "TRANSFER_PENDING"               -> "sending"
    [] row.status \in WithSeller                     -> "paid"
    [] row.status \in {"REFUNDED", "CANCELLED"}      -> "void"
    [] OTHER                                         -> "held"

Lifecycle == INSTANCE SettlementLifecycle
  WITH phase <- Phase, served <- WindowServed, moneyOut <- atStripe

\* Whatever callers, crashes and jobs do, the settlement is held, released
\* only when the window is served, sent at most once, and ends paid or void.
ImplementsLifecycle == Lifecycle!Spec
===============================================================================
