--------------------------- MODULE SettlementProofs ---------------------------
(***************************************************************************)
(* What Settlement guarantees for any number of callers and disputes, with *)
(* or without early release, whatever the environment issues.              *)
(***************************************************************************)
EXTENDS Settlement, TLAPS

USE DEF vars, money, outside

-------------------------------------------------------------------------------
(***************************************************************************)
(* The call record: what each way to proceed stores, for whom.             *)
(***************************************************************************)
CallOK == call \in [Callers -> Calls]

\* Only caller c's record changes, and it becomes r.
Becomes(c, r) ==
  /\ call' \in [Callers -> Calls]
  /\ call'[c] = r
  /\ \A d \in Callers \ {c} : call'[d] = call[d]

\* An EXCEPT of call at c changes c's record and no other.
LEMMA Store ==
  ASSUME CallOK, NEW c \in Callers, NEW r \in Calls, call' = [call EXCEPT ![c] = r]
  PROVE  Becomes(c, r)
  BY DEF CallOK, Becomes

\* A record built by At is a well-typed call.
LEMMA AtTyped ==
  ASSUME NEW pc \in PCs, NEW arg \in Args, NEW job \in Jobs \cup {NoJob}
  PROVE  At(pc, arg, job) \in Calls
  BY DEF At, Calls

\* After Finish the caller is idle.
LEMMA FinishStores ==
  ASSUME CallOK, NEW c \in Callers, Finish(c)
  PROVE  Becomes(c, Idle)
<1>1. Idle \in Calls
  BY AtTyped DEF Idle, PCs, Args
<1>2. QED BY <1>1, Store DEF Finish

\* After Enter the caller is at the given step with the given data.
LEMMA EnterStores ==
  ASSUME CallOK, NEW c \in Callers, NEW pc \in PCs, NEW arg \in Args,
         NEW job \in Jobs \cup {NoJob}, Enter(c, pc, arg, job)
  PROVE  Becomes(c, At(pc, arg, job))
  BY AtTyped, Store DEF Enter

\* After Submit the caller is about to run transitionSettlement for op.
LEMMA SubmitStores ==
  ASSUME CallOK, NEW c \in Callers, NEW op \in Ops, NEW to \in Status, NEW arg \in Args,
         NEW job \in Jobs \cup {NoJob}, Submit(c, op, to, arg, job)
  PROVE  Becomes(c, [pc |-> "before", op |-> op, to |-> to, arg |-> arg, job |-> job])
<1>1. [pc |-> "before", op |-> op, to |-> to, arg |-> arg, job |-> job] \in Calls
  BY DEF Calls, PCs
<1>2. QED BY <1>1, Store DEF Submit

\* Replacing the program counter of a call keeps its other fields.
LEMMA NewPc ==
  ASSUME NEW x \in Calls, NEW pc \in PCs
  PROVE  [x EXCEPT !.pc = pc] =
           [pc |-> pc, op |-> x.op, to |-> x.to, arg |-> x.arg, job |-> x.job]
  BY DEF Calls

\* After MoveTo the caller is at the new step, its other fields kept.
LEMMA MoveStores ==
  ASSUME CallOK, NEW c \in Callers, NEW pc \in PCs, MoveTo(c, pc)
  PROVE  Becomes(c, [pc |-> pc, op |-> call[c].op, to |-> call[c].to,
                     arg |-> call[c].arg, job |-> call[c].job])
<1>1. [pc |-> pc, op |-> call[c].op, to |-> call[c].to,
       arg |-> call[c].arg, job |-> call[c].job] \in Calls
  BY DEF Calls, CallOK
<1>2. call' = [call EXCEPT ![c] = [call[c] EXCEPT !.pc = pc]]
  BY DEF MoveTo
<1>3. call[c] \in Calls
  BY DEF CallOK
<1>4. [call[c] EXCEPT !.pc = pc] = [pc |-> pc, op |-> call[c].op, to |-> call[c].to,
                                    arg |-> call[c].arg, job |-> call[c].job]
  BY <1>3, NewPc, Zenon
<1>5. QED BY <1>1, <1>2, <1>4, Store, Zenon

\* After Commit the caller is idle or has a job to acknowledge.
LEMMA CommitStores ==
  ASSUME CallOK, NEW c \in Callers, Commit(c)
  PROVE  \E r \in {Idle, At("ack", "none", call[c].job)} : Becomes(c, r)
<1>1. call[c].job \in Jobs \cup {NoJob}
  BY DEF CallOK, Calls
<1>2. CASE call[c].job = NoJob
  BY <1>2, FinishStores DEF Commit
<1>3. CASE call[c].job # NoJob
  BY <1>1, <1>3, EnterStores DEF Commit, PCs, Args
<1>4. QED BY <1>2, <1>3

\* Whichever way a caller proceeds, call stays well typed.
LEMMA CallStaysTyped ==
  ASSUME CallOK, NEW c \in Callers
  PROVE  /\ Finish(c) => CallOK'
         /\ \A pc \in PCs : MoveTo(c, pc) => CallOK'
         /\ \A pc \in PCs, arg \in Args, job \in Jobs \cup {NoJob} :
              Enter(c, pc, arg, job) => CallOK'
         /\ \A op \in Ops, to \in Status, arg \in Args, job \in Jobs \cup {NoJob} :
              Submit(c, op, to, arg, job) => CallOK'
         /\ Commit(c) => CallOK'
<1>1. Finish(c) => CallOK'
  BY FinishStores DEF Becomes, CallOK
<1>2. ASSUME NEW pc \in PCs, MoveTo(c, pc) PROVE CallOK'
  BY <1>2, MoveStores DEF Becomes, CallOK
<1>3. ASSUME NEW pc \in PCs, NEW arg \in Args, NEW job \in Jobs \cup {NoJob},
             Enter(c, pc, arg, job)
      PROVE  CallOK'
  BY <1>3, EnterStores DEF Becomes, CallOK
<1>4. ASSUME NEW op \in Ops, NEW to \in Status, NEW arg \in Args,
             NEW job \in Jobs \cup {NoJob}, Submit(c, op, to, arg, job)
      PROVE  CallOK'
  BY <1>4, SubmitStores DEF Becomes, CallOK
<1>5. Commit(c) => CallOK'
  BY CommitStores DEF Becomes, CallOK
<1>6. QED BY <1>1, <1>2, <1>3, <1>4, <1>5

-------------------------------------------------------------------------------
(***************************************************************************)
(* The inductive invariant.  A caller between its check and its claim      *)
(* carries what it has seen; these parts say what of that is still true    *)
(* when the claim is made.                                                 *)
(***************************************************************************)
\* The status each operation asks for.
Target ==
  [deliver        |-> {"ON_HOLD"},
   release        |-> {"ELIGIBLE"},
   freeze         |-> {"FROZEN"},
   unfreeze       |-> {"PENDING", "ON_HOLD"},
   disputeOpened  |-> {"DISPUTED"},
   disputeWon     |-> {"PENDING", "ON_HOLD"},
   disputeLost    |-> {"REFUNDED"},
   cancel         |-> {"CANCELLED"},
   refunded       |-> {"REFUNDED"},
   claimTransfer  |-> {"TRANSFER_PENDING"},
   transferOk     |-> {"TRANSFERRED"},
   transferFailed |-> {"TRANSFER_FAILED"},
   offsetOnly     |-> {"PAID_OUT"},
   manual         |-> {"PAID_OUT"},
   payoutPaid     |-> {"PAID_OUT"}]

\* A caller's record fits its program counter.
CallShape(c) ==
  /\ call[c].pc \in {"before", "claim"} =>
       call[c].op \in Ops /\ call[c].to \in Target[call[c].op]
  /\ call[c].pc \in {"upsert", "stripe"} => call[c].op = "claimTransfer"
  /\ call[c].pc \notin {"before", "claim", "upsert", "stripe"} => call[c].op = "none"
  /\ call[c].op = "freeze" => call[c].arg \in FreezeReasons

\* A release still in flight was checked against a window that stays served.
ReleaseServed(c) ==
  call[c].pc = "evaluate" \/ call[c].op = "release" => WindowServed

\* What a caller in a transfer knows of Stripe and of the PayoutTransfer row.
TransferShape(c) ==
  /\ call[c].op = "transferOk" => atStripe
  /\ call[c].op = "transferFailed" => ~atStripe
  /\ call[c].pc = "stripe" => transferRow \notin {"none", "MANUAL"}

\* Money at Stripe means a transfer in flight or done.
MoneyShape ==
  atStripe => row.status \in {"TRANSFER_PENDING"} \cup WithSeller

IInv ==
  /\ TypeOK
  /\ \A c \in Callers : CallShape(c) /\ ReleaseServed(c) /\ TransferShape(c)
  /\ PaidOnlyAfterWindow
  /\ OneTransferInFlight
  /\ MoneyShape
  /\ NeverPaidTwice

\* What Stripe says of a bank payout of this settlement's account.
Attributed(c) == \E kind \in {"payout.created", "payout.paid"} : AttributePayout(c, kind)

-------------------------------------------------------------------------------
(***************************************************************************)
(* Types                                                                   *)
(***************************************************************************)

\* What the main server says of its order, and Stripe of its payouts.
OrderKinds == {"FULFILLMENT_ORDER_CREATED", "FULFILLMENT_DELIVERED", "FULFILLMENT_CANCELLED"}
PayoutKinds == {"payout.created", "payout.paid", "payout.failed"}

\* Every queue message the actions name is a job.
LEMMA JobKinds ==
  /\ \A kind \in OrderKinds \cup PayoutKinds \cup {"charge.refunded"} : <<kind, "order">> \in Jobs
  /\ /\ <<"FULFILLMENT_DELIVERED", "order">> \in Jobs
     /\ <<"FULFILLMENT_CANCELLED", "order">> \in Jobs
     /\ <<"charge.refunded", "order">> \in Jobs
  /\ \A kind \in {"OPENED", "RESOLVED"}, k \in Issues : <<kind, k>> \in Jobs
  /\ \A kind \in {"charge.dispute.created", "charge.dispute.closed"}, d \in Disputes :
       <<kind, d>> \in Jobs
  BY DEF Jobs, OrderKinds, PayoutKinds

\* A step of the environment keeps every variable's type.
LEMMA EnvironmentTypes ==
  ASSUME TypeOK, Environment
  PROVE  TypeOK'
<1>1. CASE DashboardRefund
  BY <1>1, JobKinds DEF DashboardRefund, Send, Report, TypeOK
<1>2. CASE \E kind \in OrderKinds : OrderEvent(kind)
  BY <1>2, JobKinds DEF OrderEvent, Send, Report, TypeOK
<1>3. CASE WindowPasses
  BY <1>3 DEF WindowPasses, TypeOK
<1>4. ASSUME NEW k \in Issues, OpenIssue(k) \/ ResolveIssue(k)
      PROVE  TypeOK'
  BY <1>4, JobKinds DEF OpenIssue, ResolveIssue, Send, Report, TypeOK
<1>5. ASSUME NEW d \in Disputes, BankRaisesDispute(d)
      PROVE  TypeOK'
  BY <1>5, JobKinds DEF BankRaisesDispute, Send, Report, TypeOK
<1>6. ASSUME NEW d \in Disputes, NEW outcome \in {"won", "lost"}, BankDecidesDispute(d, outcome)
      PROVE  TypeOK'
  BY <1>6, JobKinds DEF BankDecidesDispute, Send, Report, TypeOK
<1>7. CASE \E kind \in PayoutKinds : StripePaysBank(kind)
  BY <1>7, JobKinds DEF StripePaysBank, Send, Report, TypeOK
<1>8. QED BY <1>1, <1>2, <1>3, <1>4, <1>5, <1>6, <1>7 DEF Environment, OrderKinds, PayoutKinds

\* What one caller's step must establish; the other callers keep the rest.
LEMMA OneCallerSteps ==
  ASSUME IInv, TypeOK', NEW c \in Callers, NEW r, Becomes(c, r),
         WindowServed => WindowServed',
         CallShape(c)', ReleaseServed(c)', TransferShape(c)',
         \A d \in Callers \ {c} :
           InTransfer(d) => row'.status = row.status /\ atStripe' = atStripe,
         \A d \in Callers \ {c} :
           call[d].pc = "stripe" => transferRow' \notin {"none", "MANUAL"},
         InTransfer(c)' => row'.status = "TRANSFER_PENDING",
         InTransfer(c)' => \A d \in Callers \ {c} : ~InTransfer(d),
         PaidOnlyAfterWindow', MoneyShape', NeverPaidTwice'
  PROVE  IInv'
<1>1. ASSUME NEW d \in Callers
      PROVE  CallShape(d)' /\ ReleaseServed(d)' /\ TransferShape(d)'
  <2>1. CASE d = c
    BY <2>1
  <2>2. CASE d # c
    <3>1. call'[d] = call[d]
      BY <2>2 DEF Becomes
    <3>2. CallShape(d) /\ ReleaseServed(d) /\ TransferShape(d)
      BY DEF IInv
    <3>3. CallShape(d)'
      BY <3>1, <3>2 DEF CallShape
    <3>4. ReleaseServed(d)'
      BY <3>1, <3>2 DEF ReleaseServed
    <3>5. TransferShape(d)'
      BY <2>2, <3>1, <3>2 DEF TransferShape, InTransfer
    <3>6. QED BY <3>3, <3>4, <3>5
  <2>3. QED BY <2>1, <2>2
<1>2. OneTransferInFlight'
  <2>1. \A d \in Callers \ {c} : InTransfer(d)' <=> InTransfer(d)
    BY DEF Becomes, InTransfer
  <2>2. OneTransferInFlight
    BY DEF IInv
  <2>3. QED BY <2>1, <2>2 DEF OneTransferInFlight
<1>3. QED BY <1>1, <1>2 DEF IInv

\* A step that touches neither the row nor the money, after which the caller
\* is outside a transfer and, if it is releasing, has seen the window served.
Harmless(r) ==
  \/ /\ r.op = "none"
     /\ r.pc \notin {"before", "claim", "upsert", "stripe"}
     /\ r.pc = "evaluate" => WindowServed
  \/ /\ r.pc = "before"
     /\ r.op \in Ops \ {"transferOk", "transferFailed"}
     /\ r.to \in Target[r.op]
     /\ r.op = "freeze" => r.arg \in FreezeReasons
     /\ r.op = "release" => WindowServed

Calm(c) == \E r : Becomes(c, r) /\ Harmless(r)

\* A calm step preserves the inductive invariant.
LEMMA CalmSteps ==
  ASSUME IInv, TypeOK', NEW c \in Callers, Calm(c),
         UNCHANGED <<row, windowOver, transferRow, atStripe>>
  PROVE  IInv'
<1>1. PICK r : Becomes(c, r) /\ Harmless(r)
  BY DEF Calm
<1>2. call'[c] = r
  BY <1>1 DEF Becomes
<1>3. WindowServed' <=> WindowServed
  BY DEF WindowServed
<1>4. CallShape(c)'
  BY <1>1, <1>2 DEF CallShape, Harmless, Ops
<1>5. ReleaseServed(c)'
  BY <1>1, <1>2, <1>3 DEF ReleaseServed, Harmless
<1>6. TransferShape(c)'
  BY <1>1, <1>2 DEF TransferShape, Harmless
<1>7. ~InTransfer(c)'
  BY <1>1, <1>2 DEF InTransfer, Harmless
<1>8. /\ PaidOnlyAfterWindow' /\ MoneyShape' /\ NeverPaidTwice'
      /\ \A d \in Callers : call[d].pc = "stripe" => transferRow' \notin {"none", "MANUAL"}
  BY <1>3 DEF IInv, PaidOnlyAfterWindow, MoneyShape, NeverPaidTwice, TransferShape
<1>9. QED BY <1>1, <1>3, <1>4, <1>5, <1>6, <1>7, <1>8, OneCallerSteps

\* The row after a delivery and after a claim.
LEMMA DeliveredRow ==
  ASSUME row \in Rows,
         row' = [row EXCEPT !.delivered = TRUE,
                            !.status = IF row.status = "PENDING" THEN "ON_HOLD" ELSE @]
  PROVE  /\ row' \in Rows
         /\ row'.delivered = TRUE
         /\ row'.receipt = row.receipt
         /\ row'.linked = row.linked
         /\ row'.status = IF row.status = "PENDING" THEN "ON_HOLD" ELSE row.status
  BY DEF Rows, Status

\* A claim writes a well-typed row with the wanted status.
LEMMA ClaimedRow ==
  ASSUME NEW c \in Callers, row \in Rows, call[c].to \in Status,
         call[c].op = "freeze" => call[c].arg \in FreezeReasons
  PROVE  /\ Claimed(c) \in Rows
         /\ Claimed(c).status = call[c].to
         /\ Claimed(c).delivered = row.delivered
         /\ Claimed(c).receipt = row.receipt
         /\ Claimed(c).linked = row.linked
  BY DEF Claimed, Rows

\* Linking the settlement to its order touches nothing else of the row.
LEMMA LinkedRow ==
  ASSUME row \in Rows, row' = [row EXCEPT !.linked = TRUE]
  PROVE  /\ row' \in Rows
         /\ row'.status = row.status
         /\ row'.delivered = row.delivered
         /\ row'.receipt = row.receipt
  BY DEF Rows

\* Every target is a status.
LEMMA TargetStatus ==
  \A op \in Ops : Target[op] \subseteq Status
  BY DEF Ops, Target, Status

\* A step of a caller whose record fits its program counter keeps every
\* variable's type.
LEMMA CallerTypes ==
  ASSUME TypeOK, NEW c \in Callers, CallShape(c), Caller(c)
  PROVE  TypeOK'
<1>1. CallOK
  BY DEF TypeOK, CallOK
<1>2. NoJob \in Jobs \cup {NoJob} /\ call[c].job \in Jobs \cup {NoJob}
  BY <1>1 DEF CallOK, Calls
<1>3. call[c].op \in Ops \cup {"none"} /\ call[c].to \in Status \cup {"none"} /\ call[c].arg \in Args
  BY <1>1 DEF CallOK, Calls
<1>4. CASE TransitionRead(c)
  <2>1. CallOK'
    BY <1>1, <1>2, <1>4, CallStaysTyped DEF TransitionRead, PCs
  <2>2. QED BY <1>3, <1>4, <2>1 DEF CallOK, TransitionRead, TypeOK, SideRow, Recorded
<1>5. CASE TransitionClaim(c)
  <2>1. CallOK'
    BY <1>1, <1>2, <1>5, CallStaysTyped DEF TransitionClaim, PCs
  <2>2. call[c].op \in Ops /\ call[c].to \in Status
    BY <1>5, TargetStatus DEF TransitionClaim, CallShape
  <2>3. /\ call[c].op = "freeze" => call[c].arg \in FreezeReasons
        /\ row \in Rows
    BY DEF CallShape, TypeOK
  <2>4. row' \in Rows
    BY <1>5, <2>2, <2>3, ClaimedRow DEF TransitionClaim
  <2>5. QED BY <1>5, <2>1, <2>4 DEF CallOK, TransitionClaim, TypeOK, SideRow, Recorded
<1>6. CASE Crash(c)
  <2>1. CallOK'
    BY <1>1, <1>2, <1>6, CallStaysTyped DEF Crash
  <2>2. QED BY <1>3, <1>6, <2>1 DEF CallOK, Crash, TypeOK
<1>7. CASE Acknowledge(c)
  <2>1. CallOK'
    BY <1>1, <1>2, <1>7, CallStaysTyped DEF Acknowledge
  <2>2. QED BY <1>3, <1>7, <2>1 DEF CallOK, Acknowledge, TypeOK
<1>8. CASE RecordDelivery(c)
  <2>1. CallOK'
    BY <1>1, <1>2, <1>8, CallStaysTyped, JobKinds DEF RecordDelivery, Args, PCs, Ops, Status, Take
  <2>2. row' \in Rows
    BY <1>8, DeliveredRow DEF RecordDelivery, TypeOK
  <2>3. QED BY <1>8, <2>1, <2>2 DEF CallOK, RecordDelivery, TypeOK, Take
<1>9. CASE ReleaseIfEligible(c)
  <2>1. CallOK'
    BY <1>1, <1>2, <1>9, CallStaysTyped DEF ReleaseIfEligible, PCs
  <2>2. QED BY <1>3, <1>9, <2>1 DEF CallOK, ReleaseIfEligible, TypeOK
<1>10. CASE EvaluatePayment(c)
  <2>1. CallOK'
    BY <1>1, <1>2, <1>10, CallStaysTyped DEF EvaluatePayment, Args, Ops, Status
  <2>2. QED BY <1>3, <1>10, <2>1 DEF CallOK, EvaluatePayment, TypeOK
<1>11. CASE ConfirmBuyerReceipt(c)
  <2>1. CallOK'
    BY <1>1, <1>2, <1>11, CallStaysTyped DEF ConfirmBuyerReceipt, PCs, CallOK
  <2>2. QED BY <1>3, <1>11, <2>1 DEF CallOK, ConfirmBuyerReceipt, TypeOK, Rows
<1>12. CASE FreezeSettlement(c)
  <2>1. CallOK'
    BY <1>1, <1>2, <1>12, CallStaysTyped DEF FreezeSettlement, Args, FreezeReasons, Ops, Status
  <2>2. QED BY <1>3, <1>12, <2>1 DEF CallOK, FreezeSettlement, TypeOK
<1>13. CASE UnfreezeSettlement(c)
  <2>1. CallOK'
    BY <1>1, <1>2, <1>13, CallStaysTyped DEF UnfreezeSettlement, Args, Ops, Status, RestoreTo
  <2>2. QED BY <1>3, <1>13, <2>1 DEF CallOK, UnfreezeSettlement, TypeOK
<1>14. CASE FulfillmentCancelled(c)
  <2>1. CallOK'
    BY <1>1, <1>2, <1>14, CallStaysTyped, JobKinds DEF FulfillmentCancelled, Args, Ops, Status, CallOK, Take
  <2>2. QED BY <1>3, <1>14, <2>1 DEF CallOK, FulfillmentCancelled, TypeOK, Take
<1>15. CASE \E k \in Issues : OnBuyerIssueOpened(c, k)
  <2>1. CallOK'
    BY <1>1, <1>2, <1>15, CallStaysTyped, JobKinds DEF OnBuyerIssueOpened, Args, FreezeReasons, Ops, Status, CallOK, Take
  <2>2. QED BY <1>3, <1>15, <2>1 DEF CallOK, OnBuyerIssueOpened, TypeOK, Take
<1>16. CASE \E k \in Issues : OnBuyerIssueResolved(c, k)
  <2>1. CallOK'
    BY <1>1, <1>2, <1>16, CallStaysTyped, JobKinds DEF OnBuyerIssueResolved, Args, Ops, Status, RestoreTo, CallOK, Take
  <2>2. QED BY <1>3, <1>16, <2>1 DEF CallOK, OnBuyerIssueResolved, TypeOK, Take
<1>17. CASE \E d \in Disputes : HandleDisputeCreated(c, d)
  <2>1. CallOK'
    BY <1>1, <1>2, <1>17, CallStaysTyped, JobKinds DEF HandleDisputeCreated, Args, PCs, Take
  <2>2. QED BY <1>3, <1>17, <2>1 DEF CallOK, HandleDisputeCreated, TypeOK, Take
<1>18. CASE \E d \in Disputes : HandleDisputeClosed(c, d)
  <2>1. CallOK'
    BY <1>1, <1>2, <1>18, CallStaysTyped, JobKinds DEF HandleDisputeClosed, Args, PCs, CallOK, TypeOK, Take
  <2>2. QED BY <1>3, <1>18, <2>1 DEF CallOK, HandleDisputeClosed, TypeOK, Take
<1>19. CASE OnCardDisputeOpened(c)
  <2>1. CallOK'
    BY <1>1, <1>2, <1>19, CallStaysTyped DEF OnCardDisputeOpened, Args, Ops, Status
  <2>2. QED BY <1>3, <1>19, <2>1 DEF CallOK, OnCardDisputeOpened, TypeOK
<1>20. CASE OnCardDisputeClosed(c)
  <2>1. CallOK'
    BY <1>1, <1>2, <1>20, CallStaysTyped DEF OnCardDisputeClosed, Args, Ops, Status, RestoreTo
  <2>2. QED BY <1>3, <1>20, <2>1 DEF CallOK, OnCardDisputeClosed, TypeOK
<1>21. CASE CreateRefund(c)
  <2>1. CallOK'
    BY <1>1, <1>2, <1>21, CallStaysTyped DEF CreateRefund, PCs
  <2>2. QED BY <1>3, <1>21, <2>1 DEF CallOK, CreateRefund, TypeOK
<1>22. CASE StripeRefunds(c)
  <2>1. CallOK'
    BY <1>1, <1>2, <1>22, CallStaysTyped DEF StripeRefunds, PCs
  <2>2. QED BY <1>3, <1>22, <2>1, JobKinds DEF CallOK, StripeRefunds, TypeOK, Report
<1>23. CASE HandleChargeRefunded(c)
  <2>1. CallOK'
    BY <1>1, <1>2, <1>23, CallStaysTyped DEF HandleChargeRefunded, PCs, Args, Take
  <2>2. QED BY <1>3, <1>23, <2>1 DEF CallOK, HandleChargeRefunded, TypeOK, Take
<1>24. CASE ApplyRefundToSettlement(c)
  <2>1. CallOK'
    BY <1>1, <1>2, <1>24, CallStaysTyped DEF ApplyRefundToSettlement, Args, Ops, Status
  <2>2. QED BY <1>3, <1>24, <2>1 DEF CallOK, ApplyRefundToSettlement, TypeOK
<1>25. CASE TransferSettlement(c)
  <2>1. CallOK'
    BY <1>1, <1>2, <1>25, CallStaysTyped DEF TransferSettlement, Args, Ops, Status
  <2>2. QED BY <1>3, <1>25, <2>1 DEF CallOK, TransferSettlement, TypeOK
<1>26. CASE UpsertTransferRow(c)
  <2>1. CallOK'
    BY <1>1, <1>2, <1>26, CallStaysTyped DEF UpsertTransferRow, PCs
  <2>2. QED BY <1>3, <1>26, <2>1 DEF CallOK, UpsertTransferRow, TypeOK
<1>27. CASE CreateTransfer(c)
  <2>1. CallOK'
    BY <1>1, <1>2, <1>27, CallStaysTyped DEF CreateTransfer, Args, Ops, Status
  <2>2. QED BY <1>3, <1>27, <2>1 DEF CallOK, CreateTransfer, TypeOK
<1>28. CASE RecordManualPayout(c)
  <2>1. CallOK'
    BY <1>1, <1>2, <1>28, CallStaysTyped DEF RecordManualPayout, PCs
  <2>2. QED BY <1>3, <1>28, <2>1 DEF CallOK, RecordManualPayout, TypeOK
<1>29. CASE UpsertManualRow(c)
  <2>1. CallOK'
    BY <1>1, <1>2, <1>29, CallStaysTyped DEF UpsertManualRow, Args, Ops, Status
  <2>2. QED BY <1>3, <1>29, <2>1 DEF CallOK, UpsertManualRow, TypeOK
<1>30. ASSUME NEW kind \in {"payout.created", "payout.paid"}, AttributePayout(c, kind)
       PROVE  TypeOK'
  <2>1. <<kind, "order">> \in Jobs
    BY JobKinds DEF PayoutKinds
  <2>2. CallOK'
    BY <1>1, <1>2, <1>30, <2>1, CallStaysTyped DEF AttributePayout, Args, Ops, Status, CallOK, Take
  <2>3. transferRow' \in {"none", "PENDING", "FAILED", "MANUAL"} \cup Recorded
    BY <1>30 DEF AttributePayout, Recorded, TypeOK
  <2>4. QED BY <1>3, <1>30, <2>2, <2>3 DEF CallOK, AttributePayout, TypeOK, Take
<1>31. CASE RecordPayoutFailure(c)
  <2>1. CallOK'
    BY <1>1, <1>2, <1>31, CallStaysTyped DEF RecordPayoutFailure, CallOK, Take
  <2>2. QED BY <1>3, <1>31, <2>1 DEF CallOK, RecordPayoutFailure, TypeOK, Take, Recorded
<1>32. CASE LinkFulfillmentOrder(c)
  <2>1. CallOK'
    BY <1>1, <1>32 DEF LinkFulfillmentOrder, CallOK
  <2>2. row' \in Rows
    BY <1>32, LinkedRow DEF LinkFulfillmentOrder, TypeOK
  <2>3. QED BY <1>32, <2>1, <2>2 DEF CallOK, LinkFulfillmentOrder, TypeOK, Take
<1>33. QED BY <1>4, <1>5, <1>6, <1>7, <1>8, <1>9, <1>10, <1>11, <1>12, <1>13, <1>14, <1>15, <1>16, <1>17, <1>18, <1>19, <1>20, <1>21, <1>22, <1>23, <1>24, <1>25, <1>26, <1>27, <1>28, <1>29, <1>30, <1>31, <1>32 DEF Caller

\* The ways to proceed that are calm.
LEMMA CalmMoves ==
  ASSUME CallOK, NEW c \in Callers, CallShape(c)
  PROVE  /\ Finish(c) => Calm(c)
         /\ \A pc \in PCs \ {"before", "claim", "upsert", "stripe", "evaluate"},
              arg \in Args, job \in Jobs \cup {NoJob} : Enter(c, pc, arg, job) => Calm(c)
         /\ \A pc \in PCs \ {"before", "claim", "upsert", "stripe"} :
              /\ MoveTo(c, pc)
              /\ call[c].op = "none"
              /\ pc = "evaluate" => WindowServed
              => Calm(c)
         /\ \A op \in Ops \ {"transferOk", "transferFailed"}, arg \in Args,
              job \in Jobs \cup {NoJob} : \A to \in Target[op] :
                /\ Submit(c, op, to, arg, job)
                /\ op = "freeze" => arg \in FreezeReasons
                /\ op = "release" => WindowServed
                => Calm(c)
         /\ UNCHANGED call /\ call[c].pc = "idle" => Calm(c)
<1>1. Finish(c) => Calm(c)
  BY FinishStores DEF Calm, Harmless, Idle, At
<1>2. ASSUME NEW pc \in PCs \ {"before", "claim", "upsert", "stripe", "evaluate"},
             NEW arg \in Args, NEW job \in Jobs \cup {NoJob}, Enter(c, pc, arg, job)
      PROVE  Calm(c)
  <2>1. Becomes(c, At(pc, arg, job))
    BY <1>2, EnterStores
  <2>2. Harmless(At(pc, arg, job))
    BY DEF Harmless, At
  <2>3. QED BY <2>1, <2>2 DEF Calm
<1>3. ASSUME NEW pc \in PCs \ {"before", "claim", "upsert", "stripe"}, MoveTo(c, pc),
             call[c].op = "none", pc = "evaluate" => WindowServed
      PROVE  Calm(c)
  <2> DEFINE r == [pc |-> pc, op |-> call[c].op, to |-> call[c].to,
                   arg |-> call[c].arg, job |-> call[c].job]
  <2>1. Becomes(c, r)
    BY <1>3, MoveStores
  <2>2. Harmless(r)
    BY <1>3 DEF Harmless
  <2>3. QED BY <2>1, <2>2 DEF Calm
<1>4. ASSUME NEW op \in Ops \ {"transferOk", "transferFailed"}, NEW arg \in Args,
             NEW job \in Jobs \cup {NoJob}, NEW to \in Target[op],
             Submit(c, op, to, arg, job), op = "freeze" => arg \in FreezeReasons,
             op = "release" => WindowServed
      PROVE  Calm(c)
  <2>1. to \in Status
    BY TargetStatus
  <2>2. Becomes(c, [pc |-> "before", op |-> op, to |-> to, arg |-> arg, job |-> job])
    BY <1>4, <2>1, SubmitStores
  <2>3. QED BY <1>4, <2>2 DEF Calm, Harmless
<1>5. ASSUME UNCHANGED call, call[c].pc = "idle"
      PROVE  Calm(c)
  <2>1. Becomes(c, call[c])
    BY <1>5 DEF Becomes, CallOK
  <2>2. QED BY <1>5, <2>1 DEF Calm, Harmless, CallShape
<1>6. QED BY <1>1, <1>2, <1>3, <1>4, <1>5

\* A step of the environment preserves the inductive invariant.
LEMMA EnvironmentSteps ==
  ASSUME IInv, Environment
  PROVE  IInv'
<1>1. TypeOK'
  BY EnvironmentTypes DEF IInv
<1>2. /\ UNCHANGED <<row, transferRow, atStripe, call>>
      /\ windowOver => windowOver'
  <2>1. CASE DashboardRefund
    BY <2>1 DEF DashboardRefund
  <2>2. CASE \E kind \in OrderKinds : OrderEvent(kind)
    BY <2>2 DEF OrderEvent
  <2>3. CASE WindowPasses
    BY <2>3 DEF WindowPasses
  <2>4. CASE \E k \in Issues : OpenIssue(k) \/ ResolveIssue(k)
    BY <2>4 DEF OpenIssue, ResolveIssue
  <2>5. CASE \E d \in Disputes : BankRaisesDispute(d)
    BY <2>5 DEF BankRaisesDispute
  <2>6. CASE \E d \in Disputes, outcome \in {"won", "lost"} : BankDecidesDispute(d, outcome)
    BY <2>6 DEF BankDecidesDispute
  <2>7. CASE \E kind \in PayoutKinds : StripePaysBank(kind)
    BY <2>7 DEF StripePaysBank
  <2>8. QED BY <2>1, <2>2, <2>3, <2>4, <2>5, <2>6, <2>7 DEF Environment, OrderKinds, PayoutKinds
<1>3. WindowServed => WindowServed'
  BY <1>2 DEF WindowServed
<1>4. ASSUME NEW c \in Callers
      PROVE  CallShape(c)' /\ ReleaseServed(c)' /\ TransferShape(c)'
  BY <1>2, <1>3 DEF IInv, CallShape, ReleaseServed, TransferShape
<1>5. PaidOnlyAfterWindow' /\ OneTransferInFlight' /\ MoneyShape' /\ NeverPaidTwice'
  BY <1>2, <1>3 DEF IInv, PaidOnlyAfterWindow, OneTransferInFlight, InTransfer, MoneyShape,
                    NeverPaidTwice
<1>6. QED BY <1>1, <1>4, <1>5 DEF IInv

\* The steps of a caller that neither claim nor touch a transfer.
Bystander(c) ==
  \/ Crash(c) \/ Acknowledge(c) \/ ReleaseIfEligible(c) \/ EvaluatePayment(c)
  \/ FreezeSettlement(c) \/ UnfreezeSettlement(c) \/ FulfillmentCancelled(c)
  \/ \E k \in Issues : OnBuyerIssueOpened(c, k) \/ OnBuyerIssueResolved(c, k)
  \/ \E d \in Disputes : HandleDisputeCreated(c, d) \/ HandleDisputeClosed(c, d)
  \/ OnCardDisputeOpened(c) \/ OnCardDisputeClosed(c)
  \/ CreateRefund(c) \/ StripeRefunds(c) \/ HandleChargeRefunded(c)
  \/ ApplyRefundToSettlement(c) \/ TransferSettlement(c) \/ RecordManualPayout(c)

\* A bystander's step is calm and leaves the row and the money alone.
LEMMA BystandersAreCalm ==
  ASSUME IInv, NEW c \in Callers, Bystander(c)
  PROVE  Calm(c) /\ UNCHANGED <<row, windowOver, transferRow, atStripe>>
<1>1. CallOK /\ CallShape(c)
  BY DEF IInv, TypeOK, CallOK
<1>2. NoJob \in Jobs \cup {NoJob} /\ call[c].job \in Jobs \cup {NoJob}
  BY <1>1 DEF CallOK, Calls
<1>3. /\ {"none", "ADMIN", "SYSTEM", "open", "won", "lost", "ADMIN_HOLD", "RETURN",
          "BUYER_DISPUTE_CASE"} \subseteq Args
      /\ {"ADMIN_HOLD", "RETURN", "BUYER_DISPUTE_CASE"} \subseteq FreezeReasons
  BY DEF Args, FreezeReasons
<1>4. CASE Crash(c)
  BY <1>1, <1>2, <1>3, <1>4, CalmMoves DEF Crash
<1>5. CASE Acknowledge(c)
  BY <1>1, <1>2, <1>3, <1>5, CalmMoves DEF Acknowledge
<1>6. CASE ReleaseIfEligible(c)
  BY <1>1, <1>2, <1>3, <1>6, CalmMoves DEF ReleaseIfEligible, RowEligible, PCs, CallShape
<1>7. CASE EvaluatePayment(c)
  BY <1>1, <1>2, <1>3, <1>7, CalmMoves DEF EvaluatePayment, Ops, Target, IInv, ReleaseServed
<1>8. CASE FreezeSettlement(c)
  <2>1. Submit(c, "freeze", "FROZEN", "ADMIN_HOLD", NoJob) /\ "FROZEN" \in Target["freeze"]
    BY <1>8 DEF FreezeSettlement, Target
  <2>2. Calm(c)
    BY <1>1, <1>2, <1>3, <2>1, CalmMoves DEF Ops
  <2>3. QED BY <1>8, <2>2 DEF FreezeSettlement
<1>9. CASE UnfreezeSettlement(c)
  <2>1. Submit(c, "unfreeze", RestoreTo, "ADMIN", NoJob) /\ RestoreTo \in Target["unfreeze"]
    BY <1>9 DEF UnfreezeSettlement, Target, RestoreTo
  <2>2. Calm(c)
    BY <1>1, <1>2, <1>3, <2>1, CalmMoves DEF Ops
  <2>3. QED BY <1>9, <2>2 DEF UnfreezeSettlement
<1>10. CASE FulfillmentCancelled(c)
  BY <1>1, <1>2, <1>3, <1>10, CalmMoves, JobKinds DEF FulfillmentCancelled, Ops, Take, Free, Target
<1>11. CASE \E k \in Issues : OnBuyerIssueOpened(c, k)
  BY <1>1, <1>2, <1>3, <1>11, CalmMoves, JobKinds DEF OnBuyerIssueOpened, Ops, Take, Free, Target
<1>12. CASE \E k \in Issues : OnBuyerIssueResolved(c, k)
  BY <1>1, <1>2, <1>3, <1>12, CalmMoves, JobKinds DEF OnBuyerIssueResolved, Ops, Take, Free, Target, RestoreTo
<1>13. CASE \E d \in Disputes : HandleDisputeCreated(c, d)
  BY <1>1, <1>2, <1>3, <1>13, CalmMoves, JobKinds DEF HandleDisputeCreated, Take, Free, PCs
<1>14. CASE \E d \in Disputes : HandleDisputeClosed(c, d)
  BY <1>1, <1>2, <1>3, <1>14, CalmMoves, JobKinds DEF HandleDisputeClosed, Take, Free, PCs, IInv, TypeOK
<1>15. CASE OnCardDisputeOpened(c)
  BY <1>1, <1>2, <1>3, <1>15, CalmMoves DEF OnCardDisputeOpened, Ops, Target
<1>16. CASE OnCardDisputeClosed(c)
  BY <1>1, <1>2, <1>3, <1>16, CalmMoves DEF OnCardDisputeClosed, Ops, Target, RestoreTo
<1>17. CASE CreateRefund(c)
  BY <1>1, <1>2, <1>3, <1>17, CalmMoves DEF CreateRefund, Free, PCs, CallShape
<1>18. CASE StripeRefunds(c)
  BY <1>1, <1>2, <1>3, <1>18, CalmMoves DEF StripeRefunds, PCs, CallShape
<1>19. CASE HandleChargeRefunded(c)
  BY <1>1, <1>2, <1>3, <1>19, CalmMoves, JobKinds DEF HandleChargeRefunded, Take, Free, PCs
<1>20. CASE ApplyRefundToSettlement(c)
  BY <1>1, <1>2, <1>3, <1>20, CalmMoves DEF ApplyRefundToSettlement, Ops, Target
<1>21. CASE TransferSettlement(c)
  <2>1. /\ \/ Submit(c, "claimTransfer", "TRANSFER_PENDING", "none", NoJob)
           \/ Submit(c, "offsetOnly", "PAID_OUT", "none", NoJob)
        /\ "TRANSFER_PENDING" \in Target["claimTransfer"] /\ "PAID_OUT" \in Target["offsetOnly"]
    BY <1>21 DEF TransferSettlement, Target
  <2>2. Calm(c)
    BY <1>1, <1>2, <1>3, <2>1, CalmMoves DEF Ops
  <2>3. QED BY <1>21, <2>2 DEF TransferSettlement
<1>22. CASE RecordManualPayout(c)
  BY <1>1, <1>2, <1>3, <1>22, CalmMoves DEF RecordManualPayout, Free, PCs, CallShape
<1>23. QED BY <1>4, <1>5, <1>6, <1>7, <1>8, <1>9, <1>10, <1>11, <1>12, <1>13, <1>14, <1>15, <1>16, <1>17, <1>18, <1>19, <1>20, <1>21, <1>22 DEF Bystander
-------------------------------------------------------------------------------
(***************************************************************************)
(* The claims                                                              *)
(***************************************************************************)
\* What winning a claim says about where the row was and where it goes.
LEMMA Claims ==
  ASSUME NEW op \in Ops, NEW to \in Target[op], NEW s \in From(op)
  PROVE  /\ s \notin {"PAID_OUT", "REFUNDED", "CANCELLED"}
         /\ to \in PastWindow => s \in PastWindow \/ op = "release"
         /\ s = "TRANSFER_PENDING" <=> op \in {"transferOk", "transferFailed"}
         /\ to = "TRANSFER_PENDING" <=> op = "claimTransfer"
         /\ op = "claimTransfer" => s = "ELIGIBLE"
         /\ to = "TRANSFERRED" <=> op = "transferOk"
         /\ s \in WithSeller => to \in WithSeller
         /\ op = "transferFailed" => to \notin {"TRANSFER_PENDING"} \cup WithSeller
  BY DEF Ops, Target, From, FromList, PastWindow, WithSeller

\* The read and legality check of transitionSettlement preserves the invariant.
LEMMA TransitionReadStep ==
  ASSUME IInv, TypeOK', NEW c \in Callers, TransitionRead(c)
  PROVE  IInv'
<1>1. CallOK /\ CallShape(c) /\ ReleaseServed(c) /\ TransferShape(c)
  BY DEF IInv, TypeOK, CallOK
<1>2. UNCHANGED <<row, windowOver, atStripe>> /\ transferRow' \in {transferRow, "TRANSFERRED"}
  BY DEF TransitionRead, SideRow
<1>3. WindowServed' <=> WindowServed
  BY <1>2 DEF WindowServed
<1>4. PaidOnlyAfterWindow' /\ MoneyShape' /\ NeverPaidTwice'
  BY <1>2, <1>3 DEF IInv, PaidOnlyAfterWindow, MoneyShape, NeverPaidTwice, Recorded
<1>5. \A d \in Callers : call[d].pc = "stripe" => transferRow' \notin {"none", "MANUAL"}
  BY <1>2 DEF IInv, TransferShape
<1>6. PICK r : /\ Becomes(c, r)
               /\ \/ r = Idle
                  \/ /\ r.pc = "claim" /\ call[c].pc = "before"
                     /\ r.op = call[c].op /\ r.to = call[c].to /\ r.arg = call[c].arg
  <2>1. CASE Finish(c)
    BY <1>1, <2>1, FinishStores
  <2>2. CASE MoveTo(c, "claim")
    <3> DEFINE r == [pc |-> "claim", op |-> call[c].op, to |-> call[c].to,
                     arg |-> call[c].arg, job |-> call[c].job]
    <3>1. Becomes(c, r)
      BY <1>1, <2>2, MoveStores DEF PCs
    <3>2. r.pc = "claim" /\ r.op = call[c].op /\ r.to = call[c].to /\ r.arg = call[c].arg
      OBVIOUS
    <3>3. QED BY <3>1, <3>2 DEF TransitionRead
  <2>3. QED BY <2>1, <2>2 DEF TransitionRead
<1>7. call'[c] = r
  BY <1>6 DEF Becomes
<1>8. CallShape(c)' /\ ReleaseServed(c)' /\ TransferShape(c)'
  BY <1>1, <1>2, <1>3, <1>6, <1>7 DEF CallShape, ReleaseServed, TransferShape, Idle, At
<1>9. InTransfer(c)' => InTransfer(c)
  BY <1>6, <1>7 DEF InTransfer, Idle, At
<1>10. QED
  BY <1>2, <1>3, <1>4, <1>5, <1>6, <1>8, <1>9, OneCallerSteps DEF IInv, OneTransferInFlight

\* A claim that is lost changes nothing but, for a transfer that succeeded,
\* the PayoutTransfer row.
LEMMA ClaimLostStep ==
  ASSUME IInv, TypeOK', NEW c \in Callers, TransitionClaim(c), UNCHANGED row, Finish(c)
  PROVE  IInv'
<1>1. CallOK /\ CallShape(c) /\ ReleaseServed(c) /\ TransferShape(c)
  BY DEF IInv, TypeOK, CallOK
<1>2. UNCHANGED <<row, windowOver, atStripe>> /\ transferRow' \in {transferRow, "TRANSFERRED"}
  BY DEF TransitionClaim, SideRow
<1>3. WindowServed' <=> WindowServed
  BY <1>2 DEF WindowServed
<1>4. PaidOnlyAfterWindow' /\ MoneyShape' /\ NeverPaidTwice'
  BY <1>2, <1>3 DEF IInv, PaidOnlyAfterWindow, MoneyShape, NeverPaidTwice, Recorded
<1>5. \A d \in Callers : call[d].pc = "stripe" => transferRow' \notin {"none", "MANUAL"}
  BY <1>2 DEF IInv, TransferShape
<1>6. Becomes(c, Idle) /\ call'[c] = Idle
  BY <1>1, FinishStores DEF Becomes
<1>7. CallShape(c)' /\ ReleaseServed(c)' /\ TransferShape(c)' /\ ~InTransfer(c)'
  BY <1>6 DEF CallShape, ReleaseServed, TransferShape, InTransfer, Idle, At
<1>8. QED
  BY <1>2, <1>3, <1>4, <1>5, <1>6, <1>7, OneCallerSteps

\* What a won claim does to the row and to the caller.
LEMMA ClaimWon ==
  ASSUME IInv, NEW c \in Callers, TransitionClaim(c), ~(UNCHANGED row /\ Finish(c))
  PROVE  /\ call[c].op \in Ops /\ call[c].to \in Target[call[c].op]
         /\ row.status \in From(call[c].op)
         /\ row'.status = call[c].to
         /\ row'.delivered = row.delivered /\ row'.receipt = row.receipt
         /\ row'.linked = row.linked
         /\ transferRow' = SideRow(c)
         /\ UNCHANGED <<windowOver, atStripe>>
         /\ \E r : /\ Becomes(c, r)
                   /\ \/ call[c].op = "claimTransfer" /\ r.pc = "upsert" /\ r.op = call[c].op
                      \/ call[c].op # "claimTransfer" /\ r.pc \in {"idle", "ack"} /\ r.op = "none"
<1>1. CallOK /\ CallShape(c) /\ row \in Rows
  BY DEF IInv, TypeOK, CallOK
<1>2. call[c].op \in Ops /\ call[c].to \in Target[call[c].op]
  BY <1>1 DEF TransitionClaim, CallShape
<1>3. /\ row.status \in From(call[c].op) /\ row' = Claimed(c)
      /\ IF call[c].op = "claimTransfer" THEN MoveTo(c, "upsert") ELSE Commit(c)
  BY DEF TransitionClaim
<1>4. /\ row'.status = call[c].to
      /\ row'.delivered = row.delivered /\ row'.receipt = row.receipt
      /\ row'.linked = row.linked
  BY <1>1, <1>2, <1>3, ClaimedRow, TargetStatus DEF CallShape
<1>5. \E r : /\ Becomes(c, r)
             /\ \/ call[c].op = "claimTransfer" /\ r.pc = "upsert" /\ r.op = call[c].op
                \/ call[c].op # "claimTransfer" /\ r.pc \in {"idle", "ack"} /\ r.op = "none"
  <2>1. CASE call[c].op = "claimTransfer"
    <3> DEFINE r == [pc |-> "upsert", op |-> call[c].op, to |-> call[c].to,
                     arg |-> call[c].arg, job |-> call[c].job]
    <3>1. Becomes(c, r)
      BY <1>1, <1>3, <2>1, MoveStores DEF PCs
    <3>2. r.pc = "upsert" /\ r.op = call[c].op
      OBVIOUS
    <3>3. QED BY <2>1, <3>1, <3>2
  <2>2. CASE call[c].op # "claimTransfer"
    <3>1. PICK r \in {Idle, At("ack", "none", call[c].job)} : Becomes(c, r)
      BY <1>1, <1>3, <2>2, CommitStores
    <3>2. r.pc \in {"idle", "ack"} /\ r.op = "none"
      BY <3>1 DEF Idle, At
    <3>3. QED BY <2>2, <3>1, <3>2
  <2>3. QED BY <2>1, <2>2
<1>6. transferRow' = SideRow(c) /\ UNCHANGED <<windowOver, atStripe>>
  BY DEF TransitionClaim
<1>7. QED BY <1>2, <1>3, <1>4, <1>5, <1>6

\* A claim that is won preserves the invariant, whoever else is working.
LEMMA ClaimWonStep ==
  ASSUME IInv, TypeOK', NEW c \in Callers, TransitionClaim(c), ~(UNCHANGED row /\ Finish(c))
  PROVE  IInv'
<1> DEFINE op == call[c].op
<1>1. /\ op \in Ops /\ call[c].to \in Target[op] /\ row.status \in From(op)
      /\ row'.status = call[c].to
      /\ row'.delivered = row.delivered /\ row'.receipt = row.receipt
      /\ transferRow' = SideRow(c) /\ UNCHANGED <<windowOver, atStripe>>
  BY ClaimWon
<1>2. PICK r : /\ Becomes(c, r)
               /\ \/ op = "claimTransfer" /\ r.pc = "upsert" /\ r.op = op
                  \/ op # "claimTransfer" /\ r.pc \in {"idle", "ack"} /\ r.op = "none"
  BY ClaimWon
<1>3. /\ row'.status \in PastWindow => row.status \in PastWindow \/ op = "release"
      /\ row.status = "TRANSFER_PENDING" <=> op \in {"transferOk", "transferFailed"}
      /\ row'.status = "TRANSFER_PENDING" <=> op = "claimTransfer"
      /\ op = "claimTransfer" => row.status = "ELIGIBLE"
      /\ row'.status = "TRANSFERRED" <=> op = "transferOk"
      /\ row.status \in WithSeller => row'.status \in WithSeller
      /\ op = "transferFailed" => row'.status \notin {"TRANSFER_PENDING"} \cup WithSeller
  BY <1>1, Claims
<1>4. call'[c] = r
  BY <1>2 DEF Becomes
<1>5. WindowServed' <=> WindowServed
  BY <1>1 DEF WindowServed
<1>6. CallShape(c)' /\ ReleaseServed(c)' /\ TransferShape(c)'
  BY <1>2, <1>4 DEF CallShape, ReleaseServed, TransferShape
<1>7. InTransfer(c)' => op = "claimTransfer"
  BY <1>2, <1>4 DEF InTransfer
<1>8. PaidOnlyAfterWindow'
  <2>1. op = "release" => WindowServed
    BY DEF IInv, ReleaseServed
  <2>2. QED BY <1>3, <1>5, <2>1 DEF IInv, PaidOnlyAfterWindow
<1>9. InTransfer(c) /\ op \in {"transferOk", "transferFailed"} => \A d \in Callers \ {c} : ~InTransfer(d)
  BY DEF IInv, OneTransferInFlight
<1>10. ASSUME NEW d \in Callers \ {c}, InTransfer(d)
       PROVE  FALSE
  <2>1. row.status = "TRANSFER_PENDING"
    BY <1>10 DEF IInv, OneTransferInFlight
  <2>2. InTransfer(c)
    BY <1>3, <2>1 DEF InTransfer
  <2>3. QED BY <1>10, <2>2 DEF IInv, OneTransferInFlight
<1>11. MoneyShape'
  BY <1>1, <1>3 DEF IInv, MoneyShape, TransferShape, WithSeller
<1>12. NeverPaidTwice'
  BY <1>1, <1>3 DEF IInv, NeverPaidTwice, TransferShape, SideRow, Recorded
<1>13. \A d \in Callers \ {c} : call[d].pc = "stripe" => transferRow' \notin {"none", "MANUAL"}
  BY <1>10 DEF InTransfer
<1>14. QED
  BY <1>2, <1>3, <1>5, <1>6, <1>7, <1>8, <1>10, <1>11, <1>12, <1>13, OneCallerSteps

-------------------------------------------------------------------------------
(***************************************************************************)
(* The other steps that touch the row or the money                         *)
(***************************************************************************)
\* A first delivery moves PENDING to ON_HOLD, a replay changes nothing yet.
LEMMA RecordDeliveryStep ==
  ASSUME IInv, TypeOK', NEW c \in Callers, RecordDelivery(c)
  PROVE  IInv'
<1>1. CallOK /\ CallShape(c) /\ row \in Rows
  BY DEF IInv, TypeOK, CallOK
<1>2. <<"FULFILLMENT_DELIVERED", "order">> \in Jobs /\ "none" \in Args /\ "ack" \in PCs
  BY JobKinds DEF Args, PCs
<1>3. CASE row.delivered
  <2>1. Submit(c, "deliver", "ON_HOLD", "none", <<"FULFILLMENT_DELIVERED", "order">>)
    BY <1>3 DEF RecordDelivery
  <2>2. "deliver" \in Ops \ {"transferOk", "transferFailed"} /\ "ON_HOLD" \in Target["deliver"]
    BY DEF Ops, Target
  <2>3. Calm(c)
    BY <1>1, <1>2, <2>1, <2>2, CalmMoves
  <2>4. UNCHANGED <<row, windowOver, transferRow, atStripe>>
    BY <1>3 DEF RecordDelivery
  <2>5. QED BY <2>3, <2>4, CalmSteps
<1>4. CASE ~row.delivered
  <2>1. /\ row'.delivered = TRUE
        /\ row'.receipt = row.receipt
        /\ row'.status = IF row.status = "PENDING" THEN "ON_HOLD" ELSE row.status
    BY <1>1, <1>4, DeliveredRow DEF RecordDelivery
  <2>2. Becomes(c, At("ack", "none", <<"FULFILLMENT_DELIVERED", "order">>))
    BY <1>1, <1>2, <1>4, EnterStores DEF RecordDelivery
  <2>3. /\ call'[c] = At("ack", "none", <<"FULFILLMENT_DELIVERED", "order">>)
        /\ UNCHANGED <<windowOver, transferRow, atStripe>>
    BY <1>4, <2>2 DEF Becomes, RecordDelivery
  <2>4. WindowServed => WindowServed'
    BY <2>1, <2>3 DEF WindowServed
  <2>5. CallShape(c)' /\ ReleaseServed(c)' /\ TransferShape(c)' /\ ~InTransfer(c)'
    BY <2>3 DEF CallShape, ReleaseServed, TransferShape, InTransfer, At
  <2>6. \A d \in Callers : InTransfer(d) => row'.status = row.status
    BY <2>1 DEF IInv, OneTransferInFlight
  <2>7. \A d \in Callers : call[d].pc = "stripe" => transferRow' \notin {"none", "MANUAL"}
    BY <2>3 DEF IInv, TransferShape
  <2>8. PaidOnlyAfterWindow' /\ MoneyShape' /\ NeverPaidTwice'
    BY <2>1, <2>3, <2>4
       DEF IInv, PaidOnlyAfterWindow, PastWindow, WithSeller, MoneyShape, NeverPaidTwice
  <2>9. QED BY <2>2, <2>3, <2>4, <2>5, <2>6, <2>7, <2>8, OneCallerSteps
<1>5. QED BY <1>3, <1>4

\* A confirmation can only help the window along.
LEMMA ConfirmBuyerReceiptStep ==
  ASSUME IInv, TypeOK', NEW c \in Callers, ConfirmBuyerReceipt(c)
  PROVE  IInv'
<1>1. CallOK /\ CallShape(c) /\ row \in Rows /\ call[c].pc = "idle" /\ call[c].op = "none"
  BY DEF IInv, TypeOK, CallOK, ConfirmBuyerReceipt, Free, CallShape
<1>2. row'.status = row.status /\ row'.delivered = row.delivered /\ row'.receipt = TRUE
  BY <1>1 DEF ConfirmBuyerReceipt, Rows
<1>3. UNCHANGED <<windowOver, transferRow, atStripe>>
  BY DEF ConfirmBuyerReceipt
<1>4. \E r : Becomes(c, r) /\ r.pc \in {"idle", "confirmed"} /\ r.op = "none"
  <2>1. CASE EarlyRelease
    <3> DEFINE r == [pc |-> "confirmed", op |-> call[c].op, to |-> call[c].to,
                     arg |-> call[c].arg, job |-> call[c].job]
    <3>1. Becomes(c, r)
      BY <1>1, <2>1, MoveStores DEF ConfirmBuyerReceipt, PCs
    <3>2. r.pc = "confirmed" /\ r.op = "none"
      BY <1>1
    <3>3. QED BY <3>1, <3>2
  <2>2. CASE ~EarlyRelease
    <3>1. Becomes(c, call[c])
      BY <1>1, <2>2 DEF Becomes, CallOK, ConfirmBuyerReceipt
    <3>2. QED BY <1>1, <3>1
  <2>3. QED BY <2>1, <2>2
<1>5. PICK r : Becomes(c, r) /\ r.pc \in {"idle", "confirmed"} /\ r.op = "none"
  BY <1>4
<1>6. call'[c] = r
  BY <1>5 DEF Becomes
<1>7. WindowServed => WindowServed'
  BY <1>2, <1>3 DEF WindowServed
<1>8. CallShape(c)' /\ ReleaseServed(c)' /\ TransferShape(c)' /\ ~InTransfer(c)'
  BY <1>5, <1>6 DEF CallShape, ReleaseServed, TransferShape, InTransfer
<1>9. \A d \in Callers : call[d].pc = "stripe" => transferRow' \notin {"none", "MANUAL"}
  BY <1>3 DEF IInv, TransferShape
<1>10. PaidOnlyAfterWindow' /\ MoneyShape' /\ NeverPaidTwice'
  BY <1>2, <1>3, <1>7 DEF IInv, PaidOnlyAfterWindow, MoneyShape, NeverPaidTwice
<1>11. QED BY <1>2, <1>3, <1>5, <1>7, <1>8, <1>9, <1>10, OneCallerSteps

\* Only the winner of the claim upserts the PayoutTransfer row.
LEMMA UpsertTransferRowStep ==
  ASSUME IInv, TypeOK', NEW c \in Callers, UpsertTransferRow(c)
  PROVE  IInv'
<1>1. CallOK /\ CallShape(c) /\ call[c].op = "claimTransfer" /\ InTransfer(c)
  BY DEF IInv, TypeOK, CallOK, UpsertTransferRow, CallShape, InTransfer
<1>2. row.status = "TRANSFER_PENDING" /\ \A d \in Callers \ {c} : ~InTransfer(d)
  BY <1>1 DEF IInv, OneTransferInFlight
<1>3. UNCHANGED <<row, windowOver, atStripe>>
  BY DEF UpsertTransferRow
<1>4. \E r : /\ Becomes(c, r)
             /\ \/ r = Idle /\ transferRow' = transferRow
                \/ r.pc = "stripe" /\ r.op = "claimTransfer" /\ transferRow' = "PENDING"
  <2>1. CASE transferRow # "MANUAL"
    <3> DEFINE r == [pc |-> "stripe", op |-> call[c].op, to |-> call[c].to,
                     arg |-> call[c].arg, job |-> call[c].job]
    <3>1. Becomes(c, r)
      BY <1>1, <2>1, MoveStores DEF UpsertTransferRow, PCs
    <3>2. r.pc = "stripe" /\ r.op = "claimTransfer" /\ transferRow' = "PENDING"
      BY <1>1, <2>1 DEF UpsertTransferRow
    <3>3. QED BY <3>1, <3>2
  <2>2. CASE transferRow = "MANUAL"
    BY <1>1, <2>2, FinishStores DEF UpsertTransferRow
  <2>3. QED BY <2>1, <2>2
<1>5. PICK r : /\ Becomes(c, r)
               /\ \/ r = Idle /\ transferRow' = transferRow
                  \/ r.pc = "stripe" /\ r.op = "claimTransfer" /\ transferRow' = "PENDING"
  BY <1>4
<1>6. call'[c] = r
  BY <1>5 DEF Becomes
<1>7. WindowServed' <=> WindowServed
  BY <1>3 DEF WindowServed
<1>8. CallShape(c)' /\ ReleaseServed(c)' /\ TransferShape(c)'
  BY <1>5, <1>6 DEF CallShape, ReleaseServed, TransferShape, Idle, At
<1>9. \A d \in Callers \ {c} : call[d].pc # "stripe"
  BY <1>2 DEF InTransfer
<1>10. PaidOnlyAfterWindow' /\ MoneyShape' /\ NeverPaidTwice'
  BY <1>2, <1>3, <1>5, <1>7 DEF IInv, PaidOnlyAfterWindow, MoneyShape, NeverPaidTwice
<1>11. QED BY <1>2, <1>3, <1>5, <1>7, <1>8, <1>9, <1>10, OneCallerSteps

\* A transfer exists at Stripe only under a claimed settlement.
LEMMA CreateTransferStep ==
  ASSUME IInv, TypeOK', NEW c \in Callers, CreateTransfer(c)
  PROVE  IInv'
<1>1. CallOK /\ CallShape(c) /\ InTransfer(c) /\ transferRow \notin {"none", "MANUAL"}
  BY DEF IInv, TypeOK, CallOK, CreateTransfer, InTransfer, TransferShape
<1>2. row.status = "TRANSFER_PENDING" /\ \A d \in Callers \ {c} : ~InTransfer(d)
  BY <1>1 DEF IInv, OneTransferInFlight
<1>3. UNCHANGED <<row, windowOver>> /\ transferRow' \notin {"none", "MANUAL"}
  BY <1>1 DEF CreateTransfer
<1>4. {"transferOk", "transferFailed"} \subseteq Ops /\ "none" \in Args
      /\ {"TRANSFERRED", "TRANSFER_FAILED"} \subseteq Status /\ NoJob \in Jobs \cup {NoJob}
  BY DEF Ops, Args, Status
<1>5. PICK r : /\ Becomes(c, r)
               /\ \/ r = Idle
                  \/ /\ r.pc = "before" /\ r.op = "transferOk" /\ r.to = "TRANSFERRED"
                     /\ atStripe'
                  \/ /\ r.pc = "before" /\ r.op = "transferFailed"
                     /\ r.to = "TRANSFER_FAILED" /\ ~atStripe'
  <2>1. CASE Submit(c, "transferOk", "TRANSFERRED", "none", NoJob) /\ atStripe'
    <3> DEFINE r == [pc |-> "before", op |-> "transferOk", to |-> "TRANSFERRED",
                     arg |-> "none", job |-> NoJob]
    <3>1. Becomes(c, r)
      BY <1>1, <1>4, <2>1, SubmitStores
    <3>2. r.pc = "before" /\ r.op = "transferOk" /\ r.to = "TRANSFERRED"
      OBVIOUS
    <3>3. QED BY <2>1, <3>1, <3>2
  <2>2. CASE Submit(c, "transferFailed", "TRANSFER_FAILED", "none", NoJob) /\ ~atStripe'
    <3> DEFINE r == [pc |-> "before", op |-> "transferFailed", to |-> "TRANSFER_FAILED",
                     arg |-> "none", job |-> NoJob]
    <3>1. Becomes(c, r)
      BY <1>1, <1>4, <2>2, SubmitStores
    <3>2. r.pc = "before" /\ r.op = "transferFailed" /\ r.to = "TRANSFER_FAILED"
      OBVIOUS
    <3>3. QED BY <2>2, <3>1, <3>2
  <2>3. CASE Finish(c)
    BY <1>1, <2>3, FinishStores
  <2>4. \/ Submit(c, "transferOk", "TRANSFERRED", "none", NoJob) /\ atStripe'
        \/ Submit(c, "transferFailed", "TRANSFER_FAILED", "none", NoJob) /\ ~atStripe'
        \/ Finish(c)
    BY DEF CreateTransfer
  <2>5. QED BY <2>1, <2>2, <2>3, <2>4
<1>6. call'[c] = r
  BY <1>5 DEF Becomes
<1>7. WindowServed' <=> WindowServed
  BY <1>3 DEF WindowServed
<1>8. CallShape(c)' /\ ReleaseServed(c)' /\ TransferShape(c)'
  BY <1>4, <1>5, <1>6 DEF CallShape, ReleaseServed, TransferShape, Idle, At, Target
<1>9. \A d \in Callers \ {c} : call[d].pc # "stripe"
  BY <1>2 DEF InTransfer
<1>10. PaidOnlyAfterWindow' /\ MoneyShape' /\ NeverPaidTwice'
  BY <1>2, <1>3, <1>7 DEF IInv, PaidOnlyAfterWindow, MoneyShape, NeverPaidTwice
<1>11. QED BY <1>2, <1>3, <1>5, <1>7, <1>8, <1>9, <1>10, OneCallerSteps

\* A step that, beyond being calm, rewrites the PayoutTransfer row without
\* mixing up Stripe transfers and manual payouts.
LEMMA TransferRowSteps ==
  ASSUME IInv, TypeOK', NEW c \in Callers, Calm(c), UNCHANGED <<row, windowOver, atStripe>>,
         \/ transferRow' = transferRow
         \/ transferRow \in Recorded /\ transferRow' \in Recorded
         \/ transferRow \in {"none", "MANUAL"} /\ transferRow' = "MANUAL"
  PROVE  IInv'
<1>1. PICK r : Becomes(c, r) /\ Harmless(r)
  BY DEF Calm
<1>2. call'[c] = r
  BY <1>1 DEF Becomes
<1>3. WindowServed' <=> WindowServed
  BY DEF WindowServed
<1>4. CallShape(c)'
  BY <1>1, <1>2 DEF CallShape, Harmless, Ops
<1>5. ReleaseServed(c)' /\ TransferShape(c)' /\ ~InTransfer(c)'
  BY <1>1, <1>2, <1>3 DEF ReleaseServed, TransferShape, InTransfer, Harmless
<1>6. \A d \in Callers : call[d].pc = "stripe" => transferRow' \notin {"none", "MANUAL"}
  BY DEF IInv, TransferShape, Recorded
<1>7. PaidOnlyAfterWindow' /\ MoneyShape' /\ NeverPaidTwice'
  BY <1>3 DEF IInv, PaidOnlyAfterWindow, MoneyShape, NeverPaidTwice, Recorded
<1>8. QED BY <1>1, <1>3, <1>4, <1>5, <1>6, <1>7, OneCallerSteps

\* Manual payouts and bank payout reports keep the two kinds of payment apart.
LEMMA PayoutRowSteps ==
  ASSUME IInv, TypeOK', NEW c \in Callers,
         UpsertManualRow(c) \/ Attributed(c) \/ RecordPayoutFailure(c)
  PROVE  IInv'
<1>1. CallOK /\ CallShape(c)
  BY DEF IInv, TypeOK, CallOK
<1>2. /\ {"manual", "payoutPaid"} \subseteq Ops \ {"transferOk", "transferFailed"}
      /\ "none" \in Args /\ NoJob \in Jobs \cup {NoJob}
      /\ "PAID_OUT" \in Target["manual"] /\ "PAID_OUT" \in Target["payoutPaid"]
  BY DEF Ops, Args, Target
<1>3. CASE UpsertManualRow(c)
  <2>1. \/ Submit(c, "manual", "PAID_OUT", "none", NoJob)
        \/ Finish(c)
    BY <1>3 DEF UpsertManualRow
  <2>2. Calm(c)
    BY <1>1, <1>2, <2>1, CalmMoves
  <2>3. QED BY <1>3, <2>2, TransferRowSteps DEF UpsertManualRow
<1>4. ASSUME NEW kind \in {"payout.created", "payout.paid"}, AttributePayout(c, kind)
      PROVE  IInv'
  <2>1. /\ \/ Submit(c, "payoutPaid", "PAID_OUT", "none", <<kind, "order">>)
           \/ UNCHANGED call /\ call[c].pc = "idle"
        /\ <<kind, "order">> \in Jobs
    BY <1>4, JobKinds DEF AttributePayout, Take, Free, PayoutKinds
  <2>2. Calm(c)
    BY <1>1, <1>2, <2>1, CalmMoves
  <2>3. transferRow' = transferRow \/ (transferRow \in Recorded /\ transferRow' \in Recorded)
    BY <1>4 DEF AttributePayout, Recorded
  <2>4. QED BY <1>4, <2>2, <2>3, TransferRowSteps DEF AttributePayout
<1>5. CASE RecordPayoutFailure(c)
  <2>1. UNCHANGED call /\ call[c].pc = "idle"
    BY <1>5 DEF RecordPayoutFailure, Take, Free
  <2>2. Calm(c)
    BY <1>1, <2>1, CalmMoves
  <2>3. QED BY <1>5, <2>2, TransferRowSteps DEF RecordPayoutFailure, Recorded
<1>6. QED BY <1>3, <1>4, <1>5 DEF Attributed

\* Linking the settlement to its order touches no column the invariant is about.
LEMMA LinkFulfillmentOrderStep ==
  ASSUME IInv, TypeOK', NEW c \in Callers, LinkFulfillmentOrder(c)
  PROVE  IInv'
<1>1. CallOK /\ CallShape(c) /\ ReleaseServed(c) /\ TransferShape(c) /\ row \in Rows
  BY DEF IInv, TypeOK, CallOK
<1>2. /\ row'.status = row.status /\ row'.delivered = row.delivered
      /\ row'.receipt = row.receipt
  BY <1>1, LinkedRow DEF LinkFulfillmentOrder
<1>3. UNCHANGED <<windowOver, transferRow, atStripe, call>> /\ call[c].pc = "idle"
  BY DEF LinkFulfillmentOrder, Take, Free
<1>4. WindowServed' <=> WindowServed
  BY <1>2, <1>3 DEF WindowServed
<1>5. Becomes(c, call[c])
  BY <1>1, <1>3 DEF Becomes, CallOK
<1>6. CallShape(c)' /\ ReleaseServed(c)' /\ TransferShape(c)' /\ ~InTransfer(c)'
  BY <1>1, <1>3, <1>4 DEF CallShape, ReleaseServed, TransferShape, InTransfer
<1>7. \A d \in Callers : call[d].pc = "stripe" => transferRow' \notin {"none", "MANUAL"}
  BY <1>3 DEF IInv, TransferShape
<1>8. PaidOnlyAfterWindow' /\ MoneyShape' /\ NeverPaidTwice'
  BY <1>2, <1>3, <1>4 DEF IInv, PaidOnlyAfterWindow, MoneyShape, NeverPaidTwice
<1>9. PICK r : r = call[c] /\ Becomes(c, r)
  BY <1>5
<1>10. QED BY <1>2, <1>3, <1>4, <1>6, <1>7, <1>8, <1>9, OneCallerSteps

\* Every step of a caller preserves the inductive invariant.
LEMMA CallerSteps ==
  ASSUME IInv, NEW c \in Callers, Caller(c)
  PROVE  IInv'
<1>1. TypeOK'
  BY CallerTypes DEF IInv
<1>2. CASE TransitionRead(c)
  BY <1>1, <1>2, TransitionReadStep
<1>3. CASE TransitionClaim(c)
  BY <1>1, <1>3, ClaimLostStep, ClaimWonStep
<1>4. CASE Bystander(c)
  BY <1>1, <1>4, BystandersAreCalm, CalmSteps
<1>5. CASE RecordDelivery(c)
  BY <1>1, <1>5, RecordDeliveryStep
<1>6. CASE ConfirmBuyerReceipt(c)
  BY <1>1, <1>6, ConfirmBuyerReceiptStep
<1>7. CASE UpsertTransferRow(c)
  BY <1>1, <1>7, UpsertTransferRowStep
<1>8. CASE CreateTransfer(c)
  BY <1>1, <1>8, CreateTransferStep
<1>9. CASE UpsertManualRow(c) \/ Attributed(c) \/ RecordPayoutFailure(c)
  BY <1>1, <1>9, PayoutRowSteps
<1>10. CASE LinkFulfillmentOrder(c)
  BY <1>1, <1>10, LinkFulfillmentOrderStep
<1>11. QED
  BY <1>2, <1>3, <1>4, <1>5, <1>6, <1>7, <1>8, <1>9, <1>10 DEF Caller, Bystander, Attributed

\* A settlement starts held, with no money anywhere and nobody at work.
LEMMA InitInvariant ==
  ASSUME Init
  PROVE  IInv
<1>1. Idle \in Calls
  BY AtTyped DEF Idle, PCs, Args
<1>2. TypeOK
  BY <1>1 DEF Init, TypeOK, Rows, Status, FreezeReasons
<1>3. \A c \in Callers : call[c] = Idle
  BY DEF Init
<1>4. \A c \in Callers : /\ CallShape(c) /\ ReleaseServed(c) /\ TransferShape(c)
                         /\ ~InTransfer(c)
  BY <1>3 DEF CallShape, ReleaseServed, TransferShape, InTransfer, Idle, At
<1>5. PaidOnlyAfterWindow /\ MoneyShape /\ NeverPaidTwice
  BY DEF Init, PaidOnlyAfterWindow, PastWindow, WithSeller, MoneyShape, NeverPaidTwice
<1>6. QED BY <1>2, <1>4, <1>5 DEF IInv, OneTransferInFlight

\* Every step of the system, and every step in which nothing happens,
\* preserves the inductive invariant.
LEMMA NextSteps ==
  ASSUME IInv, [Next]_vars
  PROVE  IInv'
<1>1. CASE Environment
  BY <1>1, EnvironmentSteps
<1>2. CASE \E c \in Callers : Caller(c)
  BY <1>2, CallerSteps
<1>3. CASE UNCHANGED vars
  <2>1. TypeOK'
    BY <1>3 DEF IInv, TypeOK
  <2>2. ASSUME NEW c \in Callers
        PROVE  CallShape(c)' /\ ReleaseServed(c)' /\ TransferShape(c)'
    BY <1>3 DEF IInv, CallShape, ReleaseServed, TransferShape, WindowServed
  <2>3. PaidOnlyAfterWindow' /\ OneTransferInFlight' /\ MoneyShape' /\ NeverPaidTwice'
    BY <1>3 DEF IInv, PaidOnlyAfterWindow, OneTransferInFlight, InTransfer, MoneyShape,
                NeverPaidTwice, WindowServed
  <2>4. QED BY <2>1, <2>2, <2>3 DEF IInv
<1>4. QED BY <1>1, <1>2, <1>3 DEF Next

-------------------------------------------------------------------------------
(***************************************************************************)
(* The theorems                                                            *)
(***************************************************************************)
\* The inductive invariant holds in every state of every run.
THEOREM Invariance == Spec => []IInv
<1>1. Init => IInv
  BY InitInvariant
<1>2. IInv /\ [Next]_vars => IInv'
  BY NextSteps
<1>3. QED BY <1>1, <1>2, PTL DEF Spec

\* Every variable keeps its type.
THEOREM TypeCorrectness == Spec => []TypeOK
<1>1. IInv => TypeOK
  BY DEF IInv
<1>2. QED BY <1>1, Invariance, PTL

\* No caller releases, sends or pays money before the window was served
\* (evaluateEligibility, transferSettlement, recordManualPayout).
THEOREM ReleaseSafety == Spec => []PaidOnlyAfterWindow
<1>1. IInv => PaidOnlyAfterWindow
  BY DEF IInv
<1>2. QED BY <1>1, Invariance, PTL

\* However many workers race, one at most is past the transfer claim, and
\* nobody moves the settlement while it is.
THEOREM TransferExclusion == Spec => []OneTransferInFlight
<1>1. IInv => OneTransferInFlight
  BY DEF IInv
<1>2. QED BY <1>1, Invariance, PTL

\* Stripe transfers and manual payouts exclude each other, although neither
\* looks at the other before it starts.
THEOREM SinglePayment == Spec => []NeverPaidTwice
<1>1. IInv => NeverPaidTwice
  BY DEF IInv
<1>2. QED BY <1>1, Invariance, PTL

-------------------------------------------------------------------------------
(***************************************************************************)
(* What a step may do to the status, and the abstract specification        *)
(***************************************************************************)
\* A caller that wins no claim and creates no transfer leaves the status and
\* the money at Stripe alone, but for the delivery of a pending settlement.
LEMMA QuietSteps ==
  ASSUME IInv, NEW c \in Callers, Caller(c), ~TransitionClaim(c), ~CreateTransfer(c)
  PROVE  /\ \/ row'.status = row.status
            \/ row.status = "PENDING" /\ row'.status = "ON_HOLD"
         /\ WindowServed => WindowServed'
         /\ UNCHANGED <<windowOver, atStripe>>
<1>1. row \in Rows
  BY DEF IInv, TypeOK
<1>2. CASE TransitionRead(c) \/ UpsertTransferRow(c) \/ UpsertManualRow(c)
            \/ Attributed(c) \/ RecordPayoutFailure(c)
  <2>1. UNCHANGED <<row, windowOver, atStripe>>
    BY <1>2 DEF TransitionRead, UpsertTransferRow, UpsertManualRow, Attributed, AttributePayout,
                RecordPayoutFailure
  <2>2. QED BY <2>1 DEF WindowServed
<1>3. CASE Bystander(c)
  <2>1. UNCHANGED <<row, windowOver, atStripe>>
    BY <1>3, BystandersAreCalm
  <2>2. QED BY <2>1 DEF WindowServed
<1>4. CASE RecordDelivery(c)
  <2>1. \/ UNCHANGED row
        \/ /\ row'.receipt = row.receipt /\ row'.delivered = TRUE
           /\ row'.status = IF row.status = "PENDING" THEN "ON_HOLD" ELSE row.status
    BY <1>1, <1>4, DeliveredRow DEF RecordDelivery
  <2>2. UNCHANGED <<windowOver, atStripe>>
    BY <1>4 DEF RecordDelivery
  <2>3. QED BY <2>1, <2>2 DEF WindowServed
<1>5. CASE ConfirmBuyerReceipt(c)
  <2>1. row'.status = row.status /\ row'.delivered = row.delivered /\ row'.receipt = TRUE
    BY <1>1, <1>5 DEF ConfirmBuyerReceipt, Rows
  <2>2. UNCHANGED <<windowOver, atStripe>>
    BY <1>5 DEF ConfirmBuyerReceipt
  <2>3. QED BY <2>1, <2>2 DEF WindowServed
<1>6. CASE LinkFulfillmentOrder(c)
  <2>1. row'.status = row.status /\ row'.delivered = row.delivered /\ row'.receipt = row.receipt
    BY <1>1, <1>6, LinkedRow DEF LinkFulfillmentOrder
  <2>2. UNCHANGED <<windowOver, atStripe>>
    BY <1>6 DEF LinkFulfillmentOrder
  <2>3. QED BY <2>1, <2>2 DEF WindowServed
<1>7. QED BY <1>2, <1>3, <1>4, <1>5, <1>6 DEF Caller, Bystander, Attributed

\* A step that takes a status to itself or along a held path is a stutter of
\* the abstract specification or the step in which the window becomes served.
LEMMA QuietIsLifecycle ==
  ASSUME Phase' = Phase, WindowServed => WindowServed', UNCHANGED atStripe
  PROVE  [Lifecycle!Next]_(Lifecycle!vars)
<1>1. WindowServed \in BOOLEAN /\ WindowServed' \in BOOLEAN
  BY DEF WindowServed
<1>2. CASE WindowServed' = WindowServed
  BY <1>2 DEF Lifecycle!vars
<1>3. CASE ~WindowServed /\ WindowServed' = TRUE
  BY <1>3 DEF Lifecycle!Next, Lifecycle!Serve
<1>4. QED BY <1>1, <1>2, <1>3

\* A claim that is won is the step of the abstract specification its name says.
LEMMA WonClaimIsLifecycle ==
  ASSUME IInv, NEW c \in Callers, TransitionClaim(c), ~(UNCHANGED row /\ Finish(c))
  PROVE  [Lifecycle!Next]_(Lifecycle!vars)
<1> DEFINE op == call[c].op
<1>1. /\ op \in Ops /\ row'.status \in Target[op] /\ row.status \in From(op)
      /\ row'.delivered = row.delivered /\ row'.receipt = row.receipt
      /\ UNCHANGED <<windowOver, atStripe>>
  BY ClaimWon
<1>2. WindowServed' = WindowServed
  BY <1>1 DEF WindowServed
<1>3. /\ op = "release" => WindowServed
      /\ op = "transferOk" => atStripe
      /\ op = "transferFailed" => ~atStripe
  BY DEF IInv, ReleaseServed, TransferShape
<1>4. atStripe => row.status \in {"TRANSFER_PENDING", "TRANSFERRED", "PAID_OUT"}
  BY DEF IInv, MoneyShape, WithSeller
<1>5. CASE op \in {"deliver", "unfreeze", "disputeWon", "payoutPaid"}
  <2>1. Phase' = Phase
    BY <1>1, <1>5 DEF From, FromList, Target, Phase, WithSeller
  <2>2. QED BY <1>1, <1>2, <2>1, QuietIsLifecycle
<1>6. CASE op = "release"
  <2>1. Phase = "held" /\ Phase' = "released"
    BY <1>1, <1>6 DEF From, FromList, Target, Phase, WithSeller
  <2>2. QED BY <1>1, <1>2, <1>3, <1>6, <2>1 DEF Lifecycle!Next, Lifecycle!Release
<1>7. CASE op \in {"freeze", "disputeOpened"}
  <2>1. Phase \in {"held", "released"} /\ Phase' = "held"
    BY <1>1, <1>7 DEF From, FromList, Target, Phase, WithSeller
  <2>2. CASE Phase = "held"
    BY <1>1, <1>2, <2>1, <2>2, QuietIsLifecycle
  <2>3. CASE Phase = "released"
    BY <1>1, <1>2, <2>1, <2>3 DEF Lifecycle!Next, Lifecycle!Recall
  <2>4. QED BY <2>1, <2>2, <2>3
<1>8. CASE op \in {"disputeLost", "cancel", "refunded"}
  <2>1. Phase \in {"held", "released"} /\ Phase' = "void" /\ ~atStripe
    BY <1>1, <1>4, <1>8 DEF From, FromList, Target, Phase, WithSeller
  <2>2. QED BY <1>1, <1>2, <2>1 DEF Lifecycle!Next, Lifecycle!WrittenOff
<1>9. CASE op = "claimTransfer"
  <2>1. Phase = "released" /\ Phase' = "sending"
    BY <1>1, <1>9 DEF From, FromList, Target, Phase, WithSeller
  <2>2. QED BY <1>1, <1>2, <2>1 DEF Lifecycle!Next, Lifecycle!StartSending
<1>10. CASE op = "transferOk"
  <2>1. Phase = "sending" /\ Phase' = "paid"
    BY <1>1, <1>10 DEF From, FromList, Target, Phase, WithSeller
  <2>2. QED BY <1>1, <1>2, <1>3, <1>10, <2>1 DEF Lifecycle!Next, Lifecycle!SendingSucceeds
<1>11. CASE op = "transferFailed"
  <2>1. Phase = "sending" /\ Phase' = "released"
    BY <1>1, <1>11 DEF From, FromList, Target, Phase, WithSeller
  <2>2. QED BY <1>1, <1>2, <1>3, <1>11, <2>1 DEF Lifecycle!Next, Lifecycle!SendingFails
<1>12. CASE op \in {"offsetOnly", "manual"}
  <2>1. Phase = "released" /\ Phase' = "paid" /\ ~atStripe
    BY <1>1, <1>4, <1>12 DEF From, FromList, Target, Phase, WithSeller
  <2>2. QED BY <1>1, <1>2, <2>1 DEF Lifecycle!Next, Lifecycle!PaidDirectly
<1>13. QED
  BY <1>1, <1>5, <1>6, <1>7, <1>8, <1>9, <1>10, <1>11, <1>12 DEF Ops

\* Creating a transfer is the one abstract step in which money leaves.
LEMMA CreateTransferIsLifecycle ==
  ASSUME IInv, NEW c \in Callers, CreateTransfer(c)
  PROVE  [Lifecycle!Next]_(Lifecycle!vars)
<1>1. InTransfer(c)
  BY DEF CreateTransfer, InTransfer
<1>2. row.status = "TRANSFER_PENDING"
  BY <1>1 DEF IInv, OneTransferInFlight
<1>3. UNCHANGED <<row, windowOver>> /\ atStripe \in BOOLEAN
  BY DEF CreateTransfer, IInv, TypeOK
<1>4. WindowServed' = WindowServed /\ Phase = "sending" /\ Phase' = "sending"
  BY <1>2, <1>3 DEF WindowServed, Phase, WithSeller
<1>5. atStripe' \in {atStripe, TRUE}
  BY DEF CreateTransfer
<1>6. CASE atStripe' = atStripe
  BY <1>4, <1>6, QuietIsLifecycle
<1>7. CASE ~atStripe /\ atStripe' = TRUE
  BY <1>4, <1>7 DEF Lifecycle!Next, Lifecycle!MoneyLeaves
<1>8. QED BY <1>3, <1>5, <1>6, <1>7

\* The environment moves nothing but the window.
LEMMA EnvironmentIsQuiet ==
  ASSUME Environment
  PROVE  /\ UNCHANGED <<row, atStripe>>
         /\ windowOver => windowOver'
<1>1. CASE DashboardRefund
  BY <1>1 DEF DashboardRefund
<1>2. CASE \E kind \in OrderKinds : OrderEvent(kind)
  BY <1>2 DEF OrderEvent
<1>3. CASE WindowPasses
  BY <1>3 DEF WindowPasses
<1>4. CASE \E k \in Issues : OpenIssue(k) \/ ResolveIssue(k)
  BY <1>4 DEF OpenIssue, ResolveIssue
<1>5. CASE \E d \in Disputes : BankRaisesDispute(d)
  BY <1>5 DEF BankRaisesDispute
<1>6. CASE \E d \in Disputes, outcome \in {"won", "lost"} : BankDecidesDispute(d, outcome)
  BY <1>6 DEF BankDecidesDispute
<1>7. CASE \E kind \in PayoutKinds : StripePaysBank(kind)
  BY <1>7 DEF StripePaysBank
<1>8. QED BY <1>1, <1>2, <1>3, <1>4, <1>5, <1>6, <1>7 DEF Environment, OrderKinds, PayoutKinds

\* Every step of the system is a step or a stutter of the abstract one.
LEMMA NextIsLifecycle ==
  ASSUME IInv, [Next]_vars
  PROVE  [Lifecycle!Next]_(Lifecycle!vars)
<1>1. CASE Environment
  <2>1. UNCHANGED <<row, atStripe>> /\ (windowOver => windowOver')
    BY <1>1, EnvironmentIsQuiet
  <2>2. Phase' = Phase /\ (WindowServed => WindowServed')
    BY <2>1 DEF Phase, WindowServed
  <2>3. QED BY <2>1, <2>2, QuietIsLifecycle
<1>2. ASSUME NEW c \in Callers, Caller(c)
      PROVE  [Lifecycle!Next]_(Lifecycle!vars)
  <2>1. CASE TransitionClaim(c) /\ ~(UNCHANGED row /\ Finish(c))
    BY <2>1, WonClaimIsLifecycle
  <2>2. CASE TransitionClaim(c) /\ UNCHANGED row
    <3>1. UNCHANGED <<row, windowOver, atStripe>>
      BY <2>2 DEF TransitionClaim
    <3>2. Phase' = Phase /\ (WindowServed => WindowServed')
      BY <3>1 DEF Phase, WindowServed
    <3>3. QED BY <3>1, <3>2, QuietIsLifecycle
  <2>3. CASE CreateTransfer(c)
    BY <2>3, CreateTransferIsLifecycle
  <2>4. CASE ~TransitionClaim(c) /\ ~CreateTransfer(c)
    <3>1. /\ \/ row'.status = row.status
             \/ row.status = "PENDING" /\ row'.status = "ON_HOLD"
          /\ WindowServed => WindowServed'
          /\ UNCHANGED atStripe
      BY <1>2, <2>4, QuietSteps
    <3>2. Phase' = Phase
      BY <3>1 DEF Phase, WithSeller
    <3>3. QED BY <3>1, <3>2, QuietIsLifecycle
  <2>5. QED BY <2>1, <2>2, <2>3, <2>4
<1>3. CASE UNCHANGED vars
  <2>1. Phase' = Phase /\ WindowServed' = WindowServed /\ UNCHANGED atStripe
    BY <1>3 DEF Phase, WindowServed
  <2>2. QED BY <2>1, QuietIsLifecycle
<1>4. QED BY <1>1, <1>2, <1>3 DEF Next

\* No step of any caller moves a terminal settlement: the only moves are won
\* claims, and no claim starts from a terminal status.
LEMMA TerminalSteps ==
  ASSUME IInv, [Next]_vars, row.status \in {"PAID_OUT", "REFUNDED", "CANCELLED"}
  PROVE  row'.status = row.status
<1>1. CASE Environment
  BY <1>1, EnvironmentIsQuiet
<1>2. ASSUME NEW c \in Callers, Caller(c)
      PROVE  row'.status = row.status
  <2>1. CASE TransitionClaim(c)
    <3>1. CASE ~(UNCHANGED row /\ Finish(c))
      <4>1. /\ call[c].op \in Ops /\ call[c].to \in Target[call[c].op]
            /\ row.status \in From(call[c].op)
        BY <2>1, <3>1, ClaimWon
      <4>2. QED BY <4>1, Claims
    <3>2. QED BY <3>1
  <2>2. CASE CreateTransfer(c)
    BY <2>2 DEF CreateTransfer
  <2>3. CASE ~TransitionClaim(c) /\ ~CreateTransfer(c)
    BY <1>2, <2>3, QuietSteps
  <2>4. QED BY <2>1, <2>2, <2>3
<1>3. CASE UNCHANGED vars
  BY <1>3
<1>4. QED BY <1>1, <1>2, <1>3 DEF Next

\* A settlement that is paid out, refunded or cancelled stays so, although the
\* conditional update of transitionSettlement does not check the state machine.
THEOREM TerminalStates == Spec => TerminalForever
<1>1. IInv /\ [Next]_vars =>
        [row.status \in {"PAID_OUT", "REFUNDED", "CANCELLED"} => row'.status = row.status]_vars
  BY TerminalSteps
<1>2. QED BY <1>1, Invariance, PTL DEF Spec, TerminalForever

\* The settlement service implements the abstract lifecycle: held, released
\* only once the window is served, sent at most once, then paid or void.
THEOREM Refinement == Spec => ImplementsLifecycle
<1>1. Init => Lifecycle!Init
  BY DEF Init, Lifecycle!Init, Phase, WithSeller, WindowServed
<1>2. IInv /\ [Next]_vars => [Lifecycle!Next]_(Lifecycle!vars)
  BY NextIsLifecycle
<1>3. QED BY <1>1, <1>2, Invariance, PTL DEF Spec, ImplementsLifecycle, Lifecycle!Spec
-------------------------------------------------------------------------------
(***************************************************************************)
(* One executor at a time                                                  *)
(*                                                                         *)
(* What is promised between operations: no other caller comes between the  *)
(* reads of an operation and its claim, while the environment still may,   *)
(* and jobs still follow each other in any order, crash and are repeated.  *)
(***************************************************************************)
OneAtATime == \A c, d \in Callers : c = d

\* The caller carries the opening of a card dispute to the settlement.
Opening(c) == call[c].pc = "disputeOpened" \/ call[c].op = "disputeOpened"

\* What the caller has checked is still so: the move it claims is legal, an
\* undelivered settlement is what it restores to PENDING, a release saw no
\* dispute, and a case opened on a linked order since has its job still in the
\* queue.
SoleShape(c) ==
  /\ call[c].pc = "claim" => call[c].to \in AllowedTransitions[row.status]
  /\ row.delivered => call[c].to # "PENDING"
  /\ call[c].op = "release" => \A d \in Disputes : disputeRow[d] \in {"none", "WON"}
  /\ call[c].pc = "evaluate" \/ call[c].op = "release" =>
       \/ ~(row.linked /\ issue["DISPUTE_CASE"] = "open")
       \/ <<"OPENED", "DISPUTE_CASE">> \in queue

\* A dispute is on its way to a settlement that could be transferred.
StopShape ==
  row.status = "ELIGIBLE" =>
    \A d \in Disputes : disputeRow[d] = "NEEDS_RESPONSE" =>
      \/ <<"charge.dispute.created", d>> \in queue
      \/ \E c \in Callers : Opening(c) /\ call[c].job = <<"charge.dispute.created", d>>

DeliveredShape == row.delivered => row.status # "PENDING"

SInv ==
  /\ IInv
  /\ \A c \in Callers : SoleShape(c)
  /\ StopShape
  /\ DeliveredShape

\* A step that leaves the caller neither releasing nor claiming.
Plain(r) ==
  /\ r.pc \notin {"claim", "evaluate"}
  /\ r.op # "release"
  /\ row.delivered => r.to # "PENDING"

PlainMove(c) == \E r : Becomes(c, r) /\ Plain(r)

\* The ways to proceed that are plain.
LEMMA PlainMoves ==
  ASSUME SInv, NEW c \in Callers
  PROVE  /\ Finish(c) => PlainMove(c)
         /\ \A pc \in PCs \ {"claim", "evaluate"}, arg \in Args, job \in Jobs \cup {NoJob} :
              Enter(c, pc, arg, job) => PlainMove(c)
         /\ \A pc \in PCs \ {"claim", "evaluate"} :
              MoveTo(c, pc) /\ call[c].op # "release" => PlainMove(c)
         /\ \A op \in Ops \ {"release"}, to \in Status, arg \in Args, job \in Jobs \cup {NoJob} :
              Submit(c, op, to, arg, job) /\ (row.delivered => to # "PENDING") => PlainMove(c)
         /\ Commit(c) => PlainMove(c)
         /\ UNCHANGED call /\ call[c].pc = "idle" => PlainMove(c)
<1>1. CallOK /\ CallShape(c) /\ SoleShape(c)
  BY DEF SInv, IInv, TypeOK, CallOK
<1>2. Finish(c) => PlainMove(c)
  <2>1. Plain(Idle)
    BY DEF Plain, Idle, At
  <2>2. QED BY <1>1, <2>1, FinishStores DEF PlainMove
<1>3. ASSUME NEW pc \in PCs \ {"claim", "evaluate"}, NEW arg \in Args,
             NEW job \in Jobs \cup {NoJob}, Enter(c, pc, arg, job)
      PROVE  PlainMove(c)
  <2>1. Becomes(c, At(pc, arg, job))
    BY <1>1, <1>3, EnterStores
  <2>2. Plain(At(pc, arg, job))
    BY DEF Plain, At
  <2>3. QED BY <2>1, <2>2 DEF PlainMove
<1>4. ASSUME NEW pc \in PCs \ {"claim", "evaluate"}, MoveTo(c, pc), call[c].op # "release"
      PROVE  PlainMove(c)
  <2> DEFINE r == [pc |-> pc, op |-> call[c].op, to |-> call[c].to,
                   arg |-> call[c].arg, job |-> call[c].job]
  <2>1. Becomes(c, r)
    BY <1>1, <1>4, MoveStores
  <2>2. Plain(r)
    BY <1>1, <1>4 DEF Plain, SoleShape
  <2>3. QED BY <2>1, <2>2 DEF PlainMove
<1>5. ASSUME NEW op \in Ops \ {"release"}, NEW to \in Status, NEW arg \in Args,
             NEW job \in Jobs \cup {NoJob}, Submit(c, op, to, arg, job),
             row.delivered => to # "PENDING"
      PROVE  PlainMove(c)
  <2>1. Becomes(c, [pc |-> "before", op |-> op, to |-> to, arg |-> arg, job |-> job])
    BY <1>1, <1>5, SubmitStores
  <2>2. QED BY <1>5, <2>1 DEF PlainMove, Plain
<1>6. Commit(c) => PlainMove(c)
  <2>1. Plain(Idle) /\ Plain(At("ack", "none", call[c].job))
    BY DEF Plain, Idle, At
  <2>2. QED BY <1>1, <2>1, CommitStores DEF PlainMove
<1>7. ASSUME UNCHANGED call, call[c].pc = "idle"
      PROVE  PlainMove(c)
  <2>1. Becomes(c, call[c])
    BY <1>1, <1>7 DEF Becomes, CallOK
  <2>2. QED BY <1>1, <1>7, <2>1 DEF PlainMove, Plain, CallShape, SoleShape
<1>8. QED BY <1>2, <1>3, <1>4, <1>5, <1>6, <1>7

\* What the sole caller's step has to establish.
LEMMA SoleSteps ==
  ASSUME OneAtATime, IInv', NEW c \in Callers, SoleShape(c)', StopShape', DeliveredShape'
  PROVE  SInv'
BY DEF OneAtATime, SInv

\* Without a step of the caller that brings an opening, disputes on their way
\* stay so.
LEMMA StopKept ==
  ASSUME SInv, OneAtATime, NEW c \in Callers,
         row'.status = "ELIGIBLE" => row.status = "ELIGIBLE" /\ ~ Opening(c),
         UNCHANGED disputeRow,
         \A d \in Disputes : <<"charge.dispute.created", d>> \in queue =>
                               <<"charge.dispute.created", d>> \in queue'
  PROVE  StopShape'
BY DEF SInv, OneAtATime, StopShape

\* A plain step that leaves the row and the disputes preserves the invariant.
LEMMA PlainSteps ==
  ASSUME SInv, OneAtATime, IInv', NEW c \in Callers, PlainMove(c),
         UNCHANGED <<row, disputeRow>>,
         row.status = "ELIGIBLE" => ~ Opening(c),
         \A d \in Disputes : <<"charge.dispute.created", d>> \in queue =>
                               <<"charge.dispute.created", d>> \in queue'
  PROVE  SInv'
<1>1. PICK r : Becomes(c, r) /\ Plain(r)
  BY DEF PlainMove
<1>2. call'[c] = r
  BY <1>1 DEF Becomes
<1>3. SoleShape(c)'
  BY <1>1, <1>2 DEF SoleShape, Plain
<1>4. StopShape'
  BY StopKept
<1>5. DeliveredShape'
  BY DEF SInv, DeliveredShape
<1>6. QED BY <1>3, <1>4, <1>5, SoleSteps

\* A step of the environment: a case that opens puts its job on the queue.
LEMMA EnvironmentIsPlain ==
  ASSUME SInv, OneAtATime, IInv', Environment
  PROVE  SInv'
<1>1. /\ UNCHANGED <<row, disputeRow, call>> /\ queue \subseteq queue'
      /\ \/ issue'["DISPUTE_CASE"] = "open" => issue["DISPUTE_CASE"] = "open"
         \/ <<"OPENED", "DISPUTE_CASE">> \in queue'
  <2>1. issue \in [Issues -> {"none", "open", "resolved"}]
    BY DEF SInv, IInv, TypeOK
  <2>2. CASE DashboardRefund
    BY <2>2 DEF DashboardRefund, Send, Report
  <2>3. CASE \E kind \in OrderKinds : OrderEvent(kind)
    BY <2>3 DEF OrderEvent, Send, Report
  <2>4. CASE WindowPasses
    BY <2>4 DEF WindowPasses
  <2>5. ASSUME NEW k \in Issues, OpenIssue(k)
        PROVE  /\ UNCHANGED <<row, disputeRow, call>> /\ queue \subseteq queue'
               /\ \/ issue'["DISPUTE_CASE"] = "open" => issue["DISPUTE_CASE"] = "open"
                  \/ <<"OPENED", "DISPUTE_CASE">> \in queue'
    BY <2>1, <2>5 DEF OpenIssue, Send, Report, Issues
  <2>6. ASSUME NEW k \in Issues, ResolveIssue(k)
        PROVE  /\ UNCHANGED <<row, disputeRow, call>> /\ queue \subseteq queue'
               /\ issue'["DISPUTE_CASE"] = "open" => issue["DISPUTE_CASE"] = "open"
    BY <2>1, <2>6 DEF ResolveIssue, Send, Report, Issues
  <2>7. CASE \E d \in Disputes : BankRaisesDispute(d)
    BY <2>7 DEF BankRaisesDispute, Send, Report
  <2>8. CASE \E d \in Disputes, outcome \in {"won", "lost"} : BankDecidesDispute(d, outcome)
    BY <2>8 DEF BankDecidesDispute, Send, Report
  <2>9. CASE \E kind \in PayoutKinds : StripePaysBank(kind)
    BY <2>9 DEF StripePaysBank, Send, Report
  <2>10. QED BY <2>2, <2>3, <2>4, <2>5, <2>6, <2>7, <2>8, <2>9 DEF Environment, OrderKinds, PayoutKinds
<1>2. \A c \in Callers : SoleShape(c)'
  BY <1>1 DEF SInv, SoleShape
<1>3. StopShape'
  BY <1>1 DEF SInv, StopShape, Opening
<1>4. DeliveredShape'
  BY <1>1 DEF SInv, DeliveredShape
<1>5. QED BY <1>2, <1>3, <1>4 DEF SInv

\* The check of transitionSettlement: whoever goes on to the claim may move.
LEMMA TransitionReadIsSole ==
  ASSUME SInv, OneAtATime, IInv', NEW c \in Callers, TransitionRead(c)
  PROVE  SInv'
<1>1. CallOK /\ CallShape(c) /\ SoleShape(c)
  BY DEF SInv, IInv, TypeOK, CallOK
<1>2. UNCHANGED <<row, disputeRow, issue, queue>>
  BY DEF TransitionRead
<1>3. CASE call[c].to \notin AllowedTransitions[row.status]
  <2>1. PlainMove(c)
    BY <1>3, PlainMoves DEF TransitionRead
  <2>2. row.status = "ELIGIBLE" => ~ Opening(c)
    BY <1>1, <1>3 DEF TransitionRead, CallShape, Opening, Target, AllowedTransitions
  <2>3. QED BY <1>2, <2>1, <2>2, PlainSteps
<1>4. CASE call[c].to \in AllowedTransitions[row.status]
  <2> DEFINE r == [pc |-> "claim", op |-> call[c].op, to |-> call[c].to,
                   arg |-> call[c].arg, job |-> call[c].job]
  <2>1. Becomes(c, r)
    BY <1>1, <1>4, MoveStores DEF TransitionRead, PCs
  <2>2. call'[c] = r
    BY <2>1 DEF Becomes
  <2>3. SoleShape(c)'
    BY <1>1, <1>2, <1>4, <2>2 DEF SoleShape
  <2>4. Opening(c) => Opening(c)'
    BY <2>2 DEF Opening, TransitionRead
  <2>5. StopShape'
    BY <1>2, <2>2, <2>4 DEF SInv, StopShape, OneAtATime
  <2>6. DeliveredShape'
    BY <1>2 DEF SInv, DeliveredShape
  <2>7. QED BY <2>3, <2>5, <2>6, SoleSteps
<1>5. QED BY <1>3, <1>4

\* The claim: what was checked is still so, and an opening that reaches a
\* settlement which could be transferred stops it.
LEMMA TransitionClaimIsSole ==
  ASSUME SInv, OneAtATime, IInv', NEW c \in Callers, TransitionClaim(c)
  PROVE  SInv'
<1>1. CallOK /\ CallShape(c) /\ SoleShape(c)
  BY DEF SInv, IInv, TypeOK, CallOK
<1>2. UNCHANGED <<disputeRow, issue, queue>>
  BY DEF TransitionClaim
<1>3. CASE UNCHANGED row /\ Finish(c)
  <2>1. PlainMove(c)
    BY <1>3, PlainMoves
  <2>2. row.status = "ELIGIBLE" => ~ Opening(c)
    <3>1. call[c].op = "disputeOpened" /\ row.status = "ELIGIBLE" => call[c].to = "DISPUTED"
      BY <1>1 DEF TransitionClaim, CallShape, Target
    <3>2. "ELIGIBLE" \in From("disputeOpened")
      BY DEF From, FromList
    <3>3. row \in Rows
      BY DEF SInv, IInv, TypeOK
    <3>4. ASSUME call[c].op = "disputeOpened", row.status = "ELIGIBLE"
          PROVE  FALSE
      <4>1. row' = Claimed(c)
        BY <3>2, <3>4 DEF TransitionClaim
      <4>2. row'.status = "DISPUTED"
        BY <1>1, <3>1, <3>3, <3>4, <4>1, ClaimedRow DEF Status
      <4>3. QED BY <1>3, <3>4, <4>2
    <3>5. QED BY <3>4 DEF Opening, TransitionClaim
  <2>3. QED BY <1>2, <1>3, <2>1, <2>2, PlainSteps
<1>4. CASE ~(UNCHANGED row /\ Finish(c))
  <2>1. /\ call[c].op \in Ops /\ call[c].to \in Target[call[c].op]
        /\ row.status \in From(call[c].op)
        /\ row'.status = call[c].to
        /\ row'.delivered = row.delivered
    BY <1>4, ClaimWon DEF SInv
  <2>2. PICK r : /\ Becomes(c, r)
                 /\ \/ call[c].op = "claimTransfer" /\ r.pc = "upsert" /\ r.op = call[c].op
                    \/ call[c].op # "claimTransfer" /\ r.pc \in {"idle", "ack"} /\ r.op = "none"
    BY <1>4, ClaimWon DEF SInv
  <2>3. r.to \in {"none", call[c].to}
    <3>1. CASE call[c].op = "claimTransfer"
      <4>1. MoveTo(c, "upsert")
        BY <1>4, <3>1 DEF TransitionClaim
      <4>2. call'[c] = [pc |-> "upsert", op |-> call[c].op, to |-> call[c].to,
                        arg |-> call[c].arg, job |-> call[c].job]
        BY <1>1, <4>1, MoveStores DEF Becomes, PCs
      <4>3. QED BY <2>2, <4>2 DEF Becomes
    <3>2. CASE call[c].op # "claimTransfer"
      <4>1. Commit(c)
        BY <1>4, <3>2 DEF TransitionClaim
      <4>2. call'[c] \in {Idle, At("ack", "none", call[c].job)}
        BY <1>1, <4>1, CommitStores DEF Becomes
      <4>3. QED BY <2>2, <4>2 DEF Becomes, Idle, At
    <3>3. QED BY <3>1, <3>2
  <2>4. call'[c] = r
    BY <2>2 DEF Becomes
  <2>5. SoleShape(c)'
    BY <1>1, <2>1, <2>2, <2>3, <2>4 DEF SoleShape
  <2>6. StopShape'
    <3>1. row'.status = "ELIGIBLE" => call[c].op = "release"
      BY <2>1 DEF Ops, Target
    <3>2. QED BY <1>1, <1>2, <3>1 DEF StopShape, SoleShape
  <2>7. DeliveredShape'
    BY <1>1, <2>1 DEF DeliveredShape, SoleShape
  <2>8. QED BY <2>5, <2>6, <2>7, SoleSteps
<1>5. QED BY <1>3, <1>4

\* A delivery moves PENDING on in the step that records it.
LEMMA RecordDeliveryIsSole ==
  ASSUME SInv, OneAtATime, IInv', NEW c \in Callers, RecordDelivery(c)
  PROVE  SInv'
<1>1. CallOK /\ CallShape(c) /\ row \in Rows
  BY DEF SInv, IInv, TypeOK, CallOK
<1>2. /\ UNCHANGED <<disputeRow, issue>> /\ call[c].pc = "idle"
      /\ \A job \in queue : job # <<"FULFILLMENT_DELIVERED", "order">> => job \in queue'
  BY DEF RecordDelivery, Take, Free
<1>3. /\ <<"FULFILLMENT_DELIVERED", "order">> \in Jobs
      /\ "none" \in Args /\ "ack" \in PCs \ {"claim", "evaluate"}
      /\ "deliver" \in Ops \ {"release"} /\ "ON_HOLD" \in Status
  BY JobKinds DEF Args, PCs, Ops, Status
<1>4. ~ Opening(c)
  BY <1>1, <1>2 DEF Opening, CallShape
<1>5. CASE row.delivered
  <2>1. PlainMove(c)
    BY <1>3, <1>5, PlainMoves DEF RecordDelivery
  <2>2. UNCHANGED row
    BY <1>5 DEF RecordDelivery
  <2>3. QED BY <1>2, <1>4, <2>1, <2>2, PlainSteps
<1>6. CASE ~row.delivered
  <2>1. row'.status = IF row.status = "PENDING" THEN "ON_HOLD" ELSE row.status
    BY <1>1, <1>6, DeliveredRow DEF RecordDelivery
  <2>2. call'[c] = At("ack", "none", <<"FULFILLMENT_DELIVERED", "order">>)
    BY <1>1, <1>3, <1>6, EnterStores DEF RecordDelivery, Becomes
  <2>3. SoleShape(c)'
    BY <2>2 DEF SoleShape, At
  <2>4. StopShape'
    BY <1>2, <1>4, <2>1, StopKept
  <2>5. QED BY <2>1, <2>3, <2>4, SoleSteps DEF DeliveredShape
<1>7. QED BY <1>5, <1>6

\* A release: no case is open when the row is read, no dispute when the
\* payment is.
LEMMA ReleaseIsSole ==
  ASSUME SInv, OneAtATime, IInv', NEW c \in Callers,
         ReleaseIfEligible(c) \/ EvaluatePayment(c) \/ ConfirmBuyerReceipt(c)
  PROVE  SInv'
<1>1. CallOK /\ CallShape(c) /\ SoleShape(c) /\ row \in Rows
  BY DEF SInv, IInv, TypeOK, CallOK
<1>2. /\ UNCHANGED <<disputeRow, issue, queue>>
      /\ call[c].pc \in {"idle", "confirmed", "evaluate"}
  BY DEF ReleaseIfEligible, EvaluatePayment, ConfirmBuyerReceipt, Free
<1>3. ~ Opening(c) /\ call[c].op = "none"
  BY <1>1, <1>2 DEF Opening, CallShape
<1>4. CASE ReleaseIfEligible(c)
  <2>1. CASE MoveTo(c, "evaluate") /\ RowEligible
    <3>1. call'[c] = [pc |-> "evaluate", op |-> call[c].op, to |-> call[c].to,
                      arg |-> call[c].arg, job |-> call[c].job]
      BY <1>1, <2>1, MoveStores DEF Becomes, PCs
    <3>2. UNCHANGED row
      BY <1>4 DEF ReleaseIfEligible
    <3>3. SoleShape(c)'
      BY <1>1, <1>2, <1>3, <2>1, <3>1, <3>2 DEF SoleShape, RowEligible
    <3>4. StopShape'
      BY <1>2, <1>3, <3>2, StopKept
    <3>5. DeliveredShape'
      BY <3>2 DEF SInv, DeliveredShape
    <3>6. QED BY <3>3, <3>4, <3>5, SoleSteps
  <2>2. CASE Finish(c)
    BY <1>2, <1>3, <1>4, <2>2, PlainMoves, PlainSteps DEF ReleaseIfEligible
  <2>3. QED BY <1>4, <2>1, <2>2 DEF ReleaseIfEligible
<1>5. CASE EvaluatePayment(c)
  <2>1. CASE PaymentEligible /\ Submit(c, "release", "ELIGIBLE", "none", NoJob)
    <3>1. call'[c] = [pc |-> "before", op |-> "release", to |-> "ELIGIBLE",
                      arg |-> "none", job |-> NoJob]
      <4>1. /\ "release" \in Ops /\ "ELIGIBLE" \in Status /\ "none" \in Args
            /\ NoJob \in Jobs \cup {NoJob}
        BY DEF Ops, Status, Args
      <4>2. QED BY <1>1, <2>1, <4>1, SubmitStores DEF Becomes
    <3>2. UNCHANGED row
      BY <1>5 DEF EvaluatePayment
    <3>3. SoleShape(c)'
      BY <1>1, <1>2, <1>5, <2>1, <3>1, <3>2 DEF SoleShape, PaymentEligible, EvaluatePayment
    <3>4. StopShape'
      BY <1>2, <1>3, <3>2, StopKept
    <3>5. DeliveredShape'
      BY <3>2 DEF SInv, DeliveredShape
    <3>6. QED BY <3>3, <3>4, <3>5, SoleSteps
  <2>2. CASE Finish(c)
    BY <1>2, <1>3, <1>5, <2>2, PlainMoves, PlainSteps DEF EvaluatePayment
  <2>3. QED BY <1>5, <2>1, <2>2 DEF EvaluatePayment
<1>6. CASE ConfirmBuyerReceipt(c)
  <2>1. row'.status = row.status /\ row'.delivered = row.delivered
    BY <1>1, <1>6 DEF ConfirmBuyerReceipt, Rows
  <2>2. PlainMove(c)
    BY <1>3, <1>6, PlainMoves DEF ConfirmBuyerReceipt, Free, PCs
  <2>3. PICK r : call'[c] = r /\ Plain(r)
    BY <2>2 DEF PlainMove, Becomes
  <2>4. SoleShape(c)'
    BY <2>1, <2>3 DEF SoleShape, Plain
  <2>5. StopShape'
    BY <1>2, <1>3, <2>1, StopKept
  <2>6. DeliveredShape'
    BY <2>1 DEF SInv, DeliveredShape
  <2>7. QED BY <2>4, <2>5, <2>6, SoleSteps
<1>7. QED BY <1>4, <1>5, <1>6

\* A dispute that is recorded is on its way to the settlement.
LEMMA DisputeIsSole ==
  ASSUME SInv, OneAtATime, IInv', NEW c \in Callers,
         \/ \E d \in Disputes : HandleDisputeCreated(c, d) \/ HandleDisputeClosed(c, d)
         \/ OnCardDisputeOpened(c)
  PROVE  SInv'
<1>1. /\ CallOK /\ CallShape(c) /\ SoleShape(c)
      /\ disputeRow \in [Disputes -> {"none", "NEEDS_RESPONSE", "WON", "LOST"}]
      /\ bank \in [Disputes -> {"none", "open", "won", "lost"}]
  BY DEF SInv, IInv, TypeOK, CallOK
<1>2. DeliveredShape'
  BY DEF SInv, DeliveredShape, HandleDisputeCreated, HandleDisputeClosed, OnCardDisputeOpened
<1>3. ASSUME NEW d \in Disputes, HandleDisputeCreated(c, d)
      PROVE  SInv'
  <2> DEFINE job == <<"charge.dispute.created", d>>
  <2>1. call'[c] = At("disputeOpened", "none", job)
    <3>1. "disputeOpened" \in PCs /\ "none" \in Args /\ job \in Jobs \cup {NoJob}
      BY JobKinds DEF PCs, Args
    <3>2. Enter(c, "disputeOpened", "none", job)
      BY <1>3 DEF HandleDisputeCreated
    <3>3. Becomes(c, At("disputeOpened", "none", job))
      BY <1>1, <3>1, <3>2, EnterStores
    <3>4. QED BY <3>3 DEF Becomes
  <2>2. SoleShape(c)'
    BY <2>1 DEF SoleShape, At
  <2>3. ~ Opening(c)
    BY <1>1, <1>3 DEF HandleDisputeCreated, Take, Free, Opening, CallShape
  <2>4. UNCHANGED row /\ \A e \in Disputes \ {d} : disputeRow'[e] = disputeRow[e]
    BY <1>1, <1>3 DEF HandleDisputeCreated
  <2>5. queue' = queue \ {job}
    BY <1>3 DEF HandleDisputeCreated, Take
  <2>6. Opening(c)' /\ call'[c].job = job
    BY <2>1 DEF Opening, At
  <2>7. ASSUME row'.status = "ELIGIBLE", NEW e \in Disputes, disputeRow'[e] = "NEEDS_RESPONSE"
        PROVE  \/ <<"charge.dispute.created", e>> \in queue'
               \/ \E b \in Callers : Opening(b)' /\ call'[b].job = <<"charge.dispute.created", e>>
    <3>1. CASE e = d
      BY <2>6, <3>1
    <3>2. CASE e # d
      <4>1. <<"charge.dispute.created", e>> \in queue
        BY <2>3, <2>4, <2>7, <3>2 DEF SInv, StopShape, OneAtATime
      <4>2. QED BY <2>5, <3>2, <4>1
    <3>3. QED BY <3>1, <3>2
  <2>8. StopShape'
    BY <2>7 DEF StopShape
  <2>9. QED BY <1>2, <2>2, <2>8, SoleSteps
<1>4. ASSUME NEW d \in Disputes, HandleDisputeClosed(c, d)
      PROVE  SInv'
  <2>1. /\ UNCHANGED <<row, issue>>
        /\ \A e \in Disputes : disputeRow'[e] = "NEEDS_RESPONSE" => disputeRow[e] = "NEEDS_RESPONSE"
    BY <1>1, <1>4 DEF HandleDisputeClosed
  <2>2. PlainMove(c)
    BY <1>1, <1>4, JobKinds, PlainMoves DEF HandleDisputeClosed, Take, Free, PCs, Args
  <2>3. PICK r : call'[c] = r /\ Plain(r)
    BY <2>2 DEF PlainMove, Becomes
  <2>4. SoleShape(c)'
    BY <2>1, <2>3 DEF SoleShape, Plain
  <2>5. ~ Opening(c)
    BY <1>1, <1>4 DEF HandleDisputeClosed, Take, Free, Opening, CallShape
  <2>6. \A e \in Disputes : <<"charge.dispute.created", e>> \in queue =>
                              <<"charge.dispute.created", e>> \in queue'
    BY <1>4 DEF HandleDisputeClosed, Take
  <2>7. StopShape'
    BY <2>1, <2>5, <2>6 DEF SInv, StopShape, OneAtATime
  <2>8. QED BY <1>2, <2>4, <2>7, SoleSteps
<1>5. CASE OnCardDisputeOpened(c)
  <2>1. UNCHANGED <<row, disputeRow, issue, queue>>
    BY <1>5 DEF OnCardDisputeOpened
  <2>2. CASE row.status \in WithSeller
    BY <1>5, <2>1, <2>2, PlainMoves, PlainSteps DEF OnCardDisputeOpened, WithSeller
  <2>3. CASE row.status \notin WithSeller
    <3>1. call'[c] = [pc |-> "before", op |-> "disputeOpened", to |-> "DISPUTED",
                      arg |-> "none", job |-> call[c].job]
      <4>1. "disputeOpened" \in Ops /\ "DISPUTED" \in Status /\ "none" \in Args
        BY DEF Ops, Status, Args
      <4>2. call[c].job \in Jobs \cup {NoJob}
        BY <1>1 DEF CallOK, Calls
      <4>3. Submit(c, "disputeOpened", "DISPUTED", "none", call[c].job)
        BY <1>5, <2>3 DEF OnCardDisputeOpened
      <4>4. QED BY <1>1, <4>1, <4>2, <4>3, SubmitStores DEF Becomes
    <3>2. SoleShape(c)'
      BY <3>1 DEF SoleShape
    <3>3. Opening(c)' /\ call'[c].job = call[c].job
      BY <3>1 DEF Opening
    <3>4. StopShape'
      BY <2>1, <3>3 DEF SInv, StopShape, OneAtATime
    <3>5. QED BY <1>2, <3>2, <3>4, SoleSteps
  <2>4. QED BY <2>2, <2>3
<1>6. QED BY <1>3, <1>4, <1>5

\* A worker that dies on the way has its job put back.
LEMMA CrashIsSole ==
  ASSUME SInv, OneAtATime, IInv', NEW c \in Callers, Crash(c)
  PROVE  SInv'
<1>1. CallOK
  BY DEF SInv, IInv, TypeOK, CallOK
<1>2. UNCHANGED <<row, disputeRow, issue>> /\ queue' = queue \cup ({call[c].job} \cap Jobs)
  BY DEF Crash
<1>3. call'[c] = Idle
  BY <1>1, FinishStores DEF Crash, Becomes
<1>4. SoleShape(c)'
  BY <1>3 DEF SoleShape, Idle, At
<1>5. \A d \in Disputes : <<"charge.dispute.created", d>> \in Jobs
  BY JobKinds
<1>6. StopShape'
  BY <1>2, <1>5 DEF SInv, StopShape, OneAtATime
<1>7. DeliveredShape'
  BY <1>2 DEF SInv, DeliveredShape
<1>8. QED BY <1>4, <1>6, <1>7, SoleSteps

\* A settlement is linked to its order while its caller does nothing else.
LEMMA LinkIsSole ==
  ASSUME SInv, OneAtATime, IInv', NEW c \in Callers, LinkFulfillmentOrder(c)
  PROVE  SInv'
<1>1. CallShape(c) /\ SoleShape(c) /\ row \in Rows
  BY DEF SInv, IInv, TypeOK
<1>2. /\ UNCHANGED <<disputeRow, issue, call>> /\ call[c].pc = "idle"
      /\ \A job \in queue : job # <<"FULFILLMENT_ORDER_CREATED", "order">> => job \in queue'
  BY DEF LinkFulfillmentOrder, Take, Free
<1>3. row'.status = row.status /\ row'.delivered = row.delivered
  BY <1>1, LinkedRow DEF LinkFulfillmentOrder
<1>4. call[c].op = "none"
  BY <1>1, <1>2 DEF CallShape
<1>5. SoleShape(c)'
  BY <1>1, <1>2, <1>3, <1>4 DEF SoleShape
<1>6. ~ Opening(c)
  BY <1>2, <1>4 DEF Opening
<1>7. StopShape'
  BY <1>2, <1>3, <1>6, StopKept
<1>8. DeliveredShape'
  BY <1>3 DEF SInv, DeliveredShape
<1>9. QED BY <1>5, <1>7, <1>8, SoleSteps

\* Every other step of a caller is plain and leaves the row and the disputes.
LEMMA OtherStepsArePlain ==
  ASSUME SInv, OneAtATime, IInv', NEW c \in Callers,
         \/ Acknowledge(c) \/ FreezeSettlement(c) \/ UnfreezeSettlement(c)
         \/ FulfillmentCancelled(c)
         \/ \E k \in Issues : OnBuyerIssueOpened(c, k) \/ OnBuyerIssueResolved(c, k)
         \/ OnCardDisputeClosed(c)
         \/ CreateRefund(c) \/ StripeRefunds(c) \/ HandleChargeRefunded(c)
         \/ ApplyRefundToSettlement(c)
         \/ TransferSettlement(c) \/ UpsertTransferRow(c) \/ CreateTransfer(c)
         \/ RecordManualPayout(c) \/ UpsertManualRow(c)
         \/ Attributed(c) \/ RecordPayoutFailure(c)
  PROVE  SInv'
<1>1. CallOK /\ CallShape(c) /\ SoleShape(c)
  BY DEF SInv, IInv, TypeOK, CallOK
<1>2. NoJob \in Jobs \cup {NoJob} /\ call[c].job \in Jobs \cup {NoJob}
  BY <1>1 DEF CallOK, Calls
<1>3. /\ {"none", "ADMIN", "SYSTEM", "ADMIN_HOLD", "RETURN", "BUYER_DISPUTE_CASE"} \subseteq Args
      /\ {"idle", "ack", "stripe", "stripeRefund", "applyRefund", "manualRow"}
            \subseteq PCs \ {"claim", "evaluate"}
      /\ {"freeze", "unfreeze", "cancel", "disputeWon", "disputeLost", "refunded", "claimTransfer",
          "offsetOnly", "transferOk", "transferFailed", "manual", "payoutPaid"}
            \subseteq Ops \ {"release"}
      /\ {"FROZEN", "CANCELLED", "REFUNDED", "TRANSFER_PENDING", "PAID_OUT", "TRANSFERRED",
          "TRANSFER_FAILED"} \subseteq Status \ {"PENDING"}
      /\ RestoreTo \in Status /\ (row.delivered => RestoreTo # "PENDING")
  BY DEF Args, FreezeReasons, PCs, Ops, Status, RestoreTo
<1> DEFINE Kept ==
      /\ PlainMove(c)
      /\ UNCHANGED <<row, disputeRow>>
      /\ ~ Opening(c)
      /\ \A d \in Disputes : <<"charge.dispute.created", d>> \in queue =>
                               <<"charge.dispute.created", d>> \in queue'
<1>4. ASSUME Acknowledge(c) PROVE Kept
  BY <1>1, <1>4, PlainMoves DEF Acknowledge, Opening, CallShape
<1>5. ASSUME FreezeSettlement(c) PROVE Kept
  BY <1>1, <1>2, <1>3, <1>5, PlainMoves DEF FreezeSettlement, Free, Opening, CallShape
<1>6. ASSUME UnfreezeSettlement(c) PROVE Kept
  BY <1>1, <1>2, <1>3, <1>6, PlainMoves DEF UnfreezeSettlement, Free, Opening, CallShape
<1>7. ASSUME FulfillmentCancelled(c) PROVE Kept
  BY <1>1, <1>2, <1>3, <1>7, PlainMoves, JobKinds
     DEF FulfillmentCancelled, Take, Free, Opening, CallShape
<1>8. ASSUME NEW k \in Issues, OnBuyerIssueOpened(c, k) PROVE Kept
  BY <1>1, <1>2, <1>3, <1>8, PlainMoves, JobKinds
     DEF OnBuyerIssueOpened, Take, Free, Opening, CallShape
<1>9. ASSUME NEW k \in Issues, OnBuyerIssueResolved(c, k) PROVE Kept
  BY <1>1, <1>2, <1>3, <1>9, PlainMoves, JobKinds
     DEF OnBuyerIssueResolved, Take, Free, Opening, CallShape
<1>10. ASSUME OnCardDisputeClosed(c) PROVE Kept
  BY <1>1, <1>2, <1>3, <1>10, PlainMoves DEF OnCardDisputeClosed, Opening, CallShape
<1>11. ASSUME CreateRefund(c) PROVE Kept
  BY <1>1, <1>2, <1>3, <1>11, PlainMoves DEF CreateRefund, Free, Opening, CallShape
<1>12. ASSUME StripeRefunds(c) PROVE Kept
  BY <1>1, <1>2, <1>3, <1>12, PlainMoves DEF StripeRefunds, Report, Opening, CallShape
<1>13. ASSUME HandleChargeRefunded(c) PROVE Kept
  BY <1>1, <1>2, <1>3, <1>13, PlainMoves, JobKinds
     DEF HandleChargeRefunded, Take, Free, Opening, CallShape
<1>14. ASSUME ApplyRefundToSettlement(c) PROVE Kept
  BY <1>1, <1>2, <1>3, <1>14, PlainMoves DEF ApplyRefundToSettlement, Opening, CallShape
<1>15. ASSUME TransferSettlement(c) PROVE Kept
  BY <1>1, <1>2, <1>3, <1>15, PlainMoves DEF TransferSettlement, Free, Opening, CallShape
<1>16. ASSUME UpsertTransferRow(c) PROVE Kept
  BY <1>1, <1>2, <1>3, <1>16, PlainMoves DEF UpsertTransferRow, Opening, CallShape
<1>17. ASSUME CreateTransfer(c) PROVE Kept
  BY <1>1, <1>2, <1>3, <1>17, PlainMoves DEF CreateTransfer, Opening, CallShape
<1>18. ASSUME RecordManualPayout(c) PROVE Kept
  BY <1>1, <1>2, <1>3, <1>18, PlainMoves DEF RecordManualPayout, Free, Opening, CallShape
<1>19. ASSUME UpsertManualRow(c) PROVE Kept
  BY <1>1, <1>2, <1>3, <1>19, PlainMoves DEF UpsertManualRow, Opening, CallShape
<1>20. ASSUME NEW kind \in {"payout.created", "payout.paid"}, AttributePayout(c, kind) PROVE Kept
  BY <1>1, <1>2, <1>3, <1>20, PlainMoves, JobKinds
     DEF AttributePayout, PayoutKinds, Take, Free, Opening, CallShape
<1>21. ASSUME RecordPayoutFailure(c) PROVE Kept
  BY <1>1, <1>2, <1>3, <1>21, PlainMoves DEF RecordPayoutFailure, Take, Free, Opening, CallShape
<1>22. Kept
  BY <1>4, <1>5, <1>6, <1>7, <1>8, <1>9, <1>10, <1>11, <1>12, <1>13, <1>14, <1>15, <1>16, <1>17,
     <1>18, <1>19, <1>20, <1>21 DEF Attributed
<1>23. QED BY <1>22, PlainSteps

LEMMA SoleNextSteps ==
  ASSUME SInv, OneAtATime, [Next]_vars
  PROVE  SInv'
<1>1. IInv'
  BY NextSteps DEF SInv
<1>2. CASE Environment
  BY <1>1, <1>2, EnvironmentIsPlain
<1>3. ASSUME NEW c \in Callers, Caller(c)
      PROVE  SInv'
  BY <1>1, <1>3, TransitionReadIsSole, TransitionClaimIsSole, RecordDeliveryIsSole, ReleaseIsSole,
     DisputeIsSole, CrashIsSole, LinkIsSole, OtherStepsArePlain DEF Caller, Attributed
<1>4. CASE UNCHANGED vars
  BY <1>1, <1>4 DEF SInv, SoleShape, StopShape, Opening, DeliveredShape
<1>5. QED BY <1>2, <1>3, <1>4 DEF Next

LEMMA SoleInvariance ==
  ASSUME OneAtATime
  PROVE  Spec => []SInv
<1>1. Init => SInv
  <2>1. ASSUME Init
        PROVE  \A c \in Callers : SoleShape(c)
    <3>1. \A c \in Callers : call[c] = Idle
      BY <2>1 DEF Init
    <3>2. QED BY <2>1, <3>1 DEF Init, SoleShape, Idle, At
  <2>2. Init => StopShape /\ DeliveredShape
    BY DEF Init, StopShape, DeliveredShape
  <2>3. QED BY <2>1, <2>2, InitInvariant DEF SInv
<1>2. SInv /\ [Next]_vars => SInv'
  BY SoleNextSteps
<1>3. QED BY <1>1, <1>2, PTL DEF Spec

\* A settlement is released or claimed by a won claim, on what the sole caller
\* has checked.
LEMMA MoneyMoves ==
  ASSUME SInv, OneAtATime, [Next]_vars,
         row.status # row'.status, row'.status \in {"ELIGIBLE", "TRANSFER_PENDING"}
  PROVE  /\ \A d \in Disputes : disputeRow[d] = "NEEDS_RESPONSE" =>
                                  <<"charge.dispute.created", d>> \in queue
         /\ row'.status = "ELIGIBLE" /\ row.linked /\ issue["DISPUTE_CASE"] = "open" =>
              <<"OPENED", "DISPUTE_CASE">> \in queue
<1>1. PICK c \in Callers : TransitionClaim(c)
  <2>1. ~ Environment
    BY EnvironmentIsQuiet DEF SInv
  <2>2. PICK c \in Callers : Caller(c)
    BY <2>1 DEF Next
  <2>3. ~ CreateTransfer(c)
    BY DEF CreateTransfer
  <2>4. QED BY <2>2, <2>3, QuietSteps DEF SInv
<1>2. /\ call[c].op \in Ops /\ call[c].to \in Target[call[c].op]
      /\ row.status \in From(call[c].op) /\ row'.status = call[c].to
  BY <1>1, ClaimWon DEF SInv
<1>3. SoleShape(c)
  BY DEF SInv
<1>4. CASE row'.status = "ELIGIBLE"
  <2>1. call[c].op = "release"
    BY <1>2, <1>4 DEF Ops, Target
  <2>2. QED BY <1>3, <2>1 DEF SoleShape
<1>5. CASE row'.status = "TRANSFER_PENDING"
  <2>1. call[c].op = "claimTransfer" /\ row.status = "ELIGIBLE"
    BY <1>2, <1>5, Claims
  <2>2. ~ Opening(c)
    BY <1>1, <2>1 DEF Opening, TransitionClaim
  <2>3. QED BY <1>5, <2>1, <2>2 DEF SInv, StopShape, OneAtATime
<1>6. QED BY <1>4, <1>5

\* Between operations no delivered settlement is left in PENDING: whoever would
\* restore it there has seen it undelivered (RestoreTo).
THEOREM NotLeftPending == OneAtATime => (Spec => []DeliveredLeavesPending)
<1> SUFFICES ASSUME OneAtATime
             PROVE  Spec => []DeliveredLeavesPending
  OBVIOUS
<1>1. SInv => DeliveredLeavesPending
  BY DEF SInv, DeliveredShape, DeliveredLeavesPending
<1>2. QED BY <1>1, SoleInvariance, PTL

\* Between operations, money does not move under a dispute whose opening was
\* handled (evaluateEligibility, onCardDisputeOpened).
THEOREM DisputesStopMoney == OneAtATime => (Spec => DisputeStopsMoney)
<1> SUFFICES ASSUME OneAtATime
             PROVE  Spec => DisputeStopsMoney
  OBVIOUS
<1>1. SInv /\ [Next]_vars =>
        [row.status # row'.status /\ row'.status \in {"ELIGIBLE", "TRANSFER_PENDING"} =>
           ~\E d \in Disputes : /\ disputeRow[d] = "NEEDS_RESPONSE"
                                /\ Handled(<<"charge.dispute.created", d>>)]_vars
  BY MoneyMoves DEF Handled
<1>2. QED BY <1>1, SoleInvariance, PTL DEF Spec, DisputeStopsMoney

\* Nor is a settlement that is linked to its order released while a buyer's case
\* is open whose opening was handled (evaluateEligibility reads the case through
\* the order).
THEOREM CasesStopReleases == OneAtATime => (Spec => CaseStopsRelease)
<1> SUFFICES ASSUME OneAtATime
             PROVE  Spec => CaseStopsRelease
  OBVIOUS
<1>1. SInv /\ [Next]_vars =>
        [row.status # row'.status /\ row'.status = "ELIGIBLE" /\ row.linked =>
           ~(issue["DISPUTE_CASE"] = "open" /\ Handled(<<"OPENED", "DISPUTE_CASE">>))]_vars
  BY MoneyMoves DEF Handled
<1>2. QED BY <1>1, SoleInvariance, PTL DEF Spec, CaseStopsRelease

-------------------------------------------------------------------------------
(***************************************************************************)
(* A full refund between operations: it reaches the settlement, or it was  *)
(* refused because a transfer had been tried.                              *)
(***************************************************************************)
\* A full refund is on its way to the settlement, has reached it, or was refused.
Carrying(c) == call[c].pc = "applyRefund" \/ call[c].op = "refunded"
Felt ==
  \/ row.status \in {"REFUNDED", "CANCELLED"}
  \/ row.status \in WithSeller /\ clawedBack
Refused ==
  /\ transferRow \in {"PENDING", "FAILED"}
  /\ row.status \notin WithSeller \cup {"ELIGIBLE"}

\* What the PayoutTransfer row says of the status between operations: a transfer
\* that was claimed has its row, a manual row or a recorded success a paid seller.
RowShape ==
  /\ row.status \in {"TRANSFER_PENDING", "TRANSFER_FAILED"} =>
       transferRow \in {"PENDING", "FAILED"} \/ \E c \in Callers : call[c].pc = "upsert"
  /\ transferRow = "MANUAL" =>
       row.status = "PAID_OUT" \/ \E c \in Callers : call[c].op = "manual"
  /\ transferRow \in Recorded => row.status \in WithSeller

\* The operations that make the settlement eligible, or pay it.
Paying == {"release", "claimTransfer", "transferOk", "transferFailed", "offsetOnly", "manual"}

\* Whoever carries a refund has seen that the seller does not have the money;
\* whoever releases or pays has seen no refund recorded.
MindShape(c) ==
  /\ call[c].op = "refunded" => row.status \notin WithSeller
  /\ call[c].pc = "manualRow" => row.status \in {"ELIGIBLE", "TRANSFER_FAILED"}
  /\ call[c].op = "manual" => row.status = "ELIGIBLE"
  /\ call[c].op \in Paying => refund # "RECORDED"

RInv ==
  /\ RowShape
  /\ \A c \in Callers : MindShape(c)
  /\ refund = "RECORDED" => Felt \/ Refused \/ \E c \in Callers : Carrying(c)

\* What the sole caller's step has to establish.
LEMMA RefundSteps ==
  ASSUME RInv, OneAtATime, NEW c \in Callers, RowShape', MindShape(c)',
         refund' = "RECORDED" => Felt' \/ Refused' \/ Carrying(c)'
  PROVE  RInv'
  BY DEF RInv, OneAtATime

\* A step that leaves the status or records a delivery, and keeps the kind of
\* the PayoutTransfer row, keeps what the row says.
LEMMA RowKept ==
  ASSUME SInv, RInv, OneAtATime, NEW c \in Callers,
         \/ row'.status = row.status
         \/ row.status = "PENDING" /\ row'.status = "ON_HOLD",
         transferRow' = transferRow \/ (transferRow \in Recorded /\ transferRow' \in Recorded),
         call[c].pc # "upsert",
         call[c].op = "manual" => call'[c].op = "manual"
  PROVE  RowShape'
<1>1. \A d \in Callers : d = c
  BY DEF OneAtATime
<1>2. RowShape
  BY DEF RInv
<1>3. \A d \in Callers : call[d].pc # "upsert"
  BY <1>1
<1>4. (\E d \in Callers : call[d].op = "manual") => \E d \in Callers : call'[d].op = "manual"
  BY <1>1
<1>5. CASE transferRow' = transferRow
  BY <1>2, <1>3, <1>4, <1>5 DEF RowShape, WithSeller
<1>6. CASE transferRow \in Recorded /\ transferRow' \in Recorded
  BY <1>2, <1>3, <1>6 DEF RowShape, WithSeller, Recorded
<1>7. QED BY <1>5, <1>6

\* A refund that has been felt or refused stays so in such a step.
LEMMA RefundKept ==
  ASSUME SInv, RInv, OneAtATime, NEW c \in Callers,
         \/ row'.status = row.status
         \/ row.status = "PENDING" /\ row'.status = "ON_HOLD",
         transferRow' = transferRow \/ (transferRow \in Recorded /\ transferRow' \in Recorded),
         clawedBack => clawedBack',
         refund = "RECORDED", ~ Carrying(c)
  PROVE  Felt' \/ Refused'
<1>1. Felt \/ Refused
  BY DEF RInv, OneAtATime
<1>2. CASE Felt
  <2>1. CASE row'.status = row.status
    BY <1>2, <2>1, Zenon DEF Felt
  <2>2. CASE row.status = "PENDING"
    BY <1>2, <2>2 DEF Felt, WithSeller
  <2>3. QED BY <2>1, <2>2
<1>3. CASE Refused
  BY <1>3 DEF Refused, Recorded, WithSeller
<1>4. QED BY <1>1, <1>2, <1>3

\* A record that neither carries a refund nor releases or pays.
Unminding(r) == r.op \notin Paying \cup {"refunded"} /\ r.pc # "manualRow"
Away(c) == \E r : Becomes(c, r) /\ Unminding(r)

\* The ways to proceed that start no payment and carry no refund further.
LEMMA AwayMoves ==
  ASSUME SInv, NEW c \in Callers
  PROVE  /\ Finish(c) => Away(c)
         /\ \A pc \in PCs \ {"manualRow"}, arg \in Args, job \in Jobs \cup {NoJob} :
              Enter(c, pc, arg, job) => Away(c)
         /\ \A pc \in PCs \ {"manualRow"} : MoveTo(c, pc) /\ call[c].op = "none" => Away(c)
         /\ \A op \in Ops \ (Paying \cup {"refunded"}), to \in Status, arg \in Args,
               job \in Jobs \cup {NoJob} :
              Submit(c, op, to, arg, job) => Away(c)
         /\ UNCHANGED call /\ call[c].pc = "idle" => Away(c)
<1>1. CallOK /\ CallShape(c)
  BY DEF SInv, IInv, TypeOK, CallOK
<1>2. Finish(c) => Away(c)
  <2>1. Unminding(Idle)
    BY DEF Idle, At, Unminding, Paying
  <2>2. QED BY <1>1, <2>1, FinishStores DEF Away
<1>3. ASSUME NEW pc \in PCs \ {"manualRow"}, NEW arg \in Args, NEW job \in Jobs \cup {NoJob},
             Enter(c, pc, arg, job)
      PROVE  Away(c)
  <2>1. Unminding(At(pc, arg, job))
    BY DEF At, Unminding, Paying
  <2>2. Becomes(c, At(pc, arg, job))
    BY <1>1, <1>3, EnterStores
  <2>3. QED BY <2>1, <2>2 DEF Away
<1>4. ASSUME NEW pc \in PCs \ {"manualRow"}, MoveTo(c, pc), call[c].op = "none"
      PROVE  Away(c)
  <2> DEFINE r == [pc |-> pc, op |-> call[c].op, to |-> call[c].to,
                   arg |-> call[c].arg, job |-> call[c].job]
  <2>1. Becomes(c, r)
    BY <1>1, <1>4, MoveStores
  <2>2. Unminding(r)
    BY <1>4 DEF Unminding, Paying
  <2>3. QED BY <2>1, <2>2 DEF Away
<1>5. ASSUME NEW op \in Ops \ (Paying \cup {"refunded"}), NEW to \in Status, NEW arg \in Args,
             NEW job \in Jobs \cup {NoJob}, Submit(c, op, to, arg, job)
      PROVE  Away(c)
  <2>1. Becomes(c, [pc |-> "before", op |-> op, to |-> to, arg |-> arg, job |-> job])
    BY <1>1, <1>5, SubmitStores
  <2>2. QED BY <2>1 DEF Away, Unminding
<1>6. ASSUME UNCHANGED call, call[c].pc = "idle"
      PROVE  Away(c)
  <2>1. Becomes(c, call[c])
    BY <1>1, <1>6 DEF Becomes, CallOK
  <2>2. Unminding(call[c])
    BY <1>1, <1>6 DEF CallShape, Unminding, Paying
  <2>3. QED BY <2>1, <2>2 DEF Away
<1>7. QED BY <1>2, <1>3, <1>4, <1>5, <1>6

\* A step away from the refund preserves the invariant.
LEMMA AwaySteps ==
  ASSUME SInv, RInv, OneAtATime, NEW c \in Callers, Away(c),
         \/ row'.status = row.status
         \/ row.status = "PENDING" /\ row'.status = "ON_HOLD",
         transferRow' = transferRow \/ (transferRow \in Recorded /\ transferRow' \in Recorded),
         call[c].pc # "upsert", call[c].op # "manual",
         clawedBack => clawedBack',
         refund' = "RECORDED" => refund = "RECORDED" /\ ~ Carrying(c)
  PROVE  RInv'
<1>1. PICK r : Becomes(c, r) /\ Unminding(r)
  BY DEF Away
<1>2. call'[c] = r
  BY <1>1 DEF Becomes
<1>3. MindShape(c)'
  BY <1>1, <1>2 DEF MindShape, Unminding, Paying
<1>4. RowShape'
  BY RowKept
<1>5. refund' = "RECORDED" => Felt' \/ Refused'
  BY RefundKept
<1>6. QED BY <1>3, <1>4, <1>5, RefundSteps

\* transitionSettlement checks the move: a refund that it refuses is felt
\* already, or comes after a transfer that was tried.
LEMMA ReadCarriesRefunds ==
  ASSUME SInv, RInv, OneAtATime, NEW c \in Callers, TransitionRead(c)
  PROVE  RInv'
<1>1. CallOK /\ CallShape(c) /\ SoleShape(c) /\ row \in Rows /\ TransferShape(c)
  BY DEF SInv, IInv, TypeOK, CallOK
<1>2. /\ call[c].pc = "before" /\ call[c].op \in Ops
      /\ call[c].to \in Target[call[c].op]
      /\ UNCHANGED <<row, refund, clawedBack>>
  BY <1>1 DEF TransitionRead, CallShape
<1>3. MindShape(c) /\ RowShape
  BY DEF RInv
<1>4. CASE call[c].to \in AllowedTransitions[row.status]
  <2> DEFINE x == [pc |-> "claim", op |-> call[c].op, to |-> call[c].to,
                   arg |-> call[c].arg, job |-> call[c].job]
  <2>1. Becomes(c, x) /\ x.op = call[c].op /\ x.pc = "claim"
    BY <1>1, <1>4, MoveStores DEF TransitionRead, PCs
  <2>2. call'[c].op = call[c].op /\ call'[c].pc = "claim"
    BY <2>1 DEF Becomes
  <2>3. transferRow' = transferRow
    BY <1>4 DEF TransitionRead
  <2>4. RowShape'
    BY <1>2, <2>2, <2>3, RowKept
  <2>5. MindShape(c)'
    BY <1>2, <1>3, <2>2 DEF MindShape
  <2>6. Carrying(c) => Carrying(c)'
    BY <1>2, <2>2 DEF Carrying
  <2>7. refund' = "RECORDED" => Felt' \/ Refused' \/ Carrying(c)'
    BY <1>2, <2>3, <2>6, RefundKept
  <2>8. QED BY <2>4, <2>5, <2>7, RefundSteps
<1>5. CASE call[c].to \notin AllowedTransitions[row.status]
  <2>1. Away(c)
    BY <1>5, AwayMoves DEF TransitionRead
  <2>2. call[c].op \notin {"manual", "transferOk"}
    <3>1. call[c].op = "transferOk" => row.status = "TRANSFER_PENDING"
      BY DEF SInv, IInv, OneTransferInFlight, InTransfer
    <3>2. QED BY <1>2, <1>3, <1>5, <3>1 DEF MindShape, Target, AllowedTransitions
  <2>3. transferRow' = transferRow
    BY <1>5, <2>2 DEF TransitionRead, SideRow
  <2>4. PICK r : Becomes(c, r) /\ Unminding(r)
    BY <2>1 DEF Away
  <2>5. call'[c] = r
    BY <2>4 DEF Becomes
  <2>6. MindShape(c)'
    BY <2>4, <2>5 DEF MindShape, Unminding, Paying
  <2>7. RowShape'
    BY <1>2, <2>2, <2>3, RowKept
  <2>8. ASSUME refund' = "RECORDED"
        PROVE  Felt' \/ Refused'
    <3>1. CASE Carrying(c)
      <4>1. call[c].op = "refunded" /\ call[c].to = "REFUNDED" /\ row.status \notin WithSeller
        BY <1>2, <1>3, <3>1 DEF Carrying, Target, MindShape
      <4>2. row.status \in Status
        BY <1>1 DEF Rows
      <4>3. row.status \in {"REFUNDED", "CANCELLED", "TRANSFER_PENDING", "TRANSFER_FAILED"}
        BY <1>5, <4>1, <4>2 DEF AllowedTransitions, WithSeller, Status
      <4>4. CASE row.status \in {"REFUNDED", "CANCELLED"}
        BY <1>2, <4>4 DEF Felt
      <4>5. CASE row.status \in {"TRANSFER_PENDING", "TRANSFER_FAILED"}
        <5>1. \A d \in Callers : call[d].pc # "upsert"
          BY <1>2 DEF OneAtATime
        <5>2. transferRow \in {"PENDING", "FAILED"}
          BY <1>3, <4>5, <5>1 DEF RowShape
        <5>3. QED BY <1>2, <2>3, <4>5, <5>2 DEF Refused, WithSeller
      <4>6. QED BY <4>3, <4>4, <4>5
    <3>2. CASE ~ Carrying(c)
      BY <1>2, <2>3, <2>8, <3>2, RefundKept
    <3>3. QED BY <3>1, <3>2
  <2>9. QED BY <2>6, <2>7, <2>8, RefundSteps
<1>6. QED BY <1>4, <1>5

\* The claim of a refund is won; the claim of a release or of a payment only
\* where no refund was recorded.
LEMMA ClaimCarriesRefunds ==
  ASSUME SInv, RInv, OneAtATime, NEW c \in Callers, TransitionClaim(c)
  PROVE  RInv'
<1>1. CallOK /\ CallShape(c) /\ SoleShape(c) /\ row \in Rows
  BY DEF SInv, IInv, TypeOK, CallOK
<1>2. /\ call[c].pc = "claim" /\ call[c].op \in Ops
      /\ call[c].to \in Target[call[c].op]
      /\ UNCHANGED <<refund, clawedBack>>
  BY <1>1 DEF TransitionClaim, CallShape
<1>3. MindShape(c) /\ RowShape
  BY DEF RInv
<1>4. /\ call[c].to \in AllowedTransitions[row.status]
      /\ call[c].op = "transferOk" => row.status = "TRANSFER_PENDING"
  BY <1>1, <1>2 DEF SoleShape, SInv, IInv, OneTransferInFlight, InTransfer
<1>5. row.status \in Status /\ row.status \notin {"PAID_OUT", "REFUNDED", "CANCELLED"}
  BY <1>1, <1>4 DEF AllowedTransitions, Rows
<1>6. CASE row.status \notin From(call[c].op)
  <2>1. /\ Away(c)
        /\ row' = row
    BY <1>6, AwayMoves DEF TransitionClaim
  <2>2. call[c].op \notin {"manual", "transferOk"}
    BY <1>3, <1>4, <1>6 DEF MindShape, From, FromList
  <2>3. transferRow' = transferRow
    BY <2>2 DEF TransitionClaim, SideRow
  <2>4. call[c].op # "refunded"
    BY <1>2, <1>4, <1>5, <1>6 DEF Target, From, FromList, AllowedTransitions, Status
  <2>5. ~ Carrying(c)
    BY <1>2, <2>4 DEF Carrying
  <2>6. QED BY <1>2, <2>1, <2>2, <2>3, <2>5, AwaySteps
<1>7. CASE row.status \in From(call[c].op)
  <2>1. ~(UNCHANGED row /\ Finish(c))
    <3>1. row' = Claimed(c)
      BY <1>7 DEF TransitionClaim
    <3>2. call[c].to \in Status /\ row'.status = call[c].to
      BY <1>1, <1>2, <3>1, ClaimedRow, TargetStatus DEF CallShape
    <3>3. call[c].to # row.status
      BY <1>4, <1>5 DEF AllowedTransitions, Status
    <3>4. QED BY <3>2, <3>3
  <2>2. row'.status = call[c].to /\ transferRow' = SideRow(c)
    BY <2>1, ClaimWon DEF SInv
  <2>3. PICK r : /\ Becomes(c, r)
                 /\ \/ call[c].op = "claimTransfer" /\ r.pc = "upsert" /\ r.op = call[c].op
                    \/ call[c].op # "claimTransfer" /\ r.pc \in {"idle", "ack"} /\ r.op = "none"
    BY <2>1, ClaimWon DEF SInv
  <2>4. call'[c] = r
    BY <2>3 DEF Becomes
  <2>5. /\ row.status \in WithSeller => row'.status \in WithSeller
        /\ row'.status = "TRANSFER_PENDING" => call[c].op = "claimTransfer"
        /\ row'.status \in {"TRANSFERRED", "PAID_OUT", "ELIGIBLE"} =>
             call[c].op \in Paying \cup {"payoutPaid"}
        /\ call[c].op = "payoutPaid" => row.status = "TRANSFERRED" /\ row'.status = "PAID_OUT"
        /\ row'.status = "TRANSFER_FAILED" => row.status = "TRANSFER_PENDING"
        /\ call[c].op = "manual" => row'.status = "PAID_OUT"
        /\ call[c].op = "transferOk" => row'.status = "TRANSFERRED"
        /\ call[c].op = "refunded" => row'.status = "REFUNDED"
    BY <1>2, <1>7, <2>2 DEF Ops, Target, From, FromList, Paying, WithSeller
  <2>6. MindShape(c)'
    BY <1>2, <1>3, <2>3, <2>4 DEF MindShape, Paying
  <2>7. \A d \in Callers : d = c
    BY DEF OneAtATime
  <2>8. RowShape'
    <3>1. ASSUME row'.status \in {"TRANSFER_PENDING", "TRANSFER_FAILED"}
          PROVE  transferRow' \in {"PENDING", "FAILED"} \/ \E d \in Callers : call'[d].pc = "upsert"
      <4>1. CASE call[c].op = "claimTransfer"
        BY <2>3, <2>4, <4>1
      <4>2. CASE call[c].op # "claimTransfer"
        <5>1. row.status = "TRANSFER_PENDING" /\ call[c].op # "transferOk"
          BY <2>5, <3>1, <4>2
        <5>2. transferRow \in {"PENDING", "FAILED"}
          BY <1>2, <1>3, <2>7, <5>1 DEF RowShape
        <5>3. QED BY <2>2, <5>1, <5>2 DEF SideRow
      <4>3. QED BY <4>1, <4>2
    <3>2. ASSUME transferRow' = "MANUAL"
          PROVE  row'.status = "PAID_OUT"
      BY <1>3, <1>5, <2>2, <2>5, <2>7, <3>2 DEF RowShape, SideRow
    <3>3. ASSUME transferRow' \in Recorded
          PROVE  row'.status \in WithSeller
      BY <1>3, <2>2, <2>5, <3>3 DEF RowShape, SideRow, WithSeller
    <3>4. QED BY <3>1, <3>2, <3>3 DEF RowShape
  <2>9. ASSUME refund' = "RECORDED"
        PROVE  Felt' \/ Refused'
    <3>1. call[c].op \notin Paying
      BY <1>2, <1>3, <2>9 DEF MindShape
    <3>2. CASE call[c].op = "refunded"
      BY <2>5, <3>2 DEF Felt
    <3>3. CASE call[c].op # "refunded"
      <4>1. Felt \/ Refused
        BY <1>2, <2>7, <2>9, <3>3 DEF RInv, Carrying
      <4>2. CASE Felt
        BY <1>2, <1>5, <2>5, <4>2, Zenon DEF Felt
      <4>3. CASE Refused
        <5>1. call[c].op # "payoutPaid"
          BY <2>5, <4>3 DEF Refused, WithSeller
        <5>2. transferRow' = transferRow
          BY <2>2, <3>1 DEF SideRow, Paying
        <5>3. row'.status \notin WithSeller \cup {"ELIGIBLE"}
          BY <2>5, <3>1, <5>1 DEF WithSeller
        <5>4. QED BY <4>3, <5>2, <5>3 DEF Refused
      <4>4. QED BY <4>1, <4>2, <4>3
    <3>4. QED BY <3>2, <3>3
  <2>10. QED BY <2>6, <2>8, <2>9, RefundSteps
<1>8. QED BY <1>6, <1>7

\* A delivery, and every step that has nothing to do with the refund.
LEMMA OtherStepsCarryNone ==
  ASSUME SInv, RInv, OneAtATime, NEW c \in Callers,
         \/ Acknowledge(c) \/ RecordDelivery(c)
         \/ LinkFulfillmentOrder(c) \/ ReleaseIfEligible(c) \/ ConfirmBuyerReceipt(c)
         \/ FreezeSettlement(c) \/ UnfreezeSettlement(c) \/ FulfillmentCancelled(c)
         \/ \E k \in Issues : OnBuyerIssueOpened(c, k) \/ OnBuyerIssueResolved(c, k)
         \/ \E d \in Disputes : HandleDisputeCreated(c, d) \/ HandleDisputeClosed(c, d)
         \/ OnCardDisputeOpened(c) \/ OnCardDisputeClosed(c)
         \/ CreateRefund(c) \/ StripeRefunds(c)
         \/ Attributed(c) \/ RecordPayoutFailure(c)
  PROVE  RInv'
<1>1. /\ CallOK /\ CallShape(c) /\ row \in Rows
      /\ bank \in [Disputes -> {"none", "open", "won", "lost"}]
  BY DEF SInv, IInv, TypeOK, CallOK
<1>2. NoJob \in Jobs \cup {NoJob} /\ call[c].job \in Jobs \cup {NoJob}
  BY <1>1 DEF CallOK, Calls
<1>3. /\ {"none", "ADMIN", "SYSTEM", "ADMIN_HOLD", "RETURN", "BUYER_DISPUTE_CASE"} \subseteq Args
      /\ {"none", "open", "won", "lost"} \subseteq Args
      /\ {"idle", "ack", "stripeRefund", "applyRefund", "evaluate", "confirmed",
          "disputeOpened", "disputeClosed"} \subseteq PCs \ {"manualRow"}
      /\ {"deliver", "freeze", "unfreeze", "cancel", "disputeOpened", "disputeWon",
          "disputeLost", "payoutPaid"} \subseteq Ops \ (Paying \cup {"refunded"})
      /\ {"FROZEN", "CANCELLED", "REFUNDED", "PAID_OUT", "ELIGIBLE", "ON_HOLD", "DISPUTED"}
            \subseteq Status
      /\ RestoreTo \in Status
  BY DEF Args, FreezeReasons, PCs, Ops, Status, RestoreTo, Paying
<1> DEFINE Kept == /\ Away(c)
                   /\ row'.status = row.status
                   /\ transferRow' = transferRow
                   /\ call[c].pc # "upsert" /\ call[c].op = "none"
                   /\ clawedBack' = clawedBack
                   /\ refund' = "RECORDED" => refund = "RECORDED" /\ ~ Carrying(c)
<1>4. ASSUME Kept PROVE RInv'
  <2>1. clawedBack => clawedBack'
    BY <1>4
  <2>2. QED BY <1>4, <2>1, AwaySteps
<1>5. ASSUME Acknowledge(c) PROVE Kept
  BY <1>1, <1>5, AwayMoves DEF Acknowledge, Carrying, CallShape
<1>6. ASSUME RecordDelivery(c) PROVE RInv'
  <2>1. Away(c)
    BY <1>1, <1>2, <1>3, <1>6, AwayMoves, JobKinds DEF RecordDelivery
  <2>2. transferRow' = transferRow /\ call[c].pc # "upsert" /\ call[c].op = "none"
    BY <1>1, <1>6 DEF RecordDelivery, Take, Free, CallShape
  <2>3. \/ row'.status = row.status
        \/ row.status = "PENDING" /\ row'.status = "ON_HOLD"
    BY <1>1, <1>6, DeliveredRow DEF RecordDelivery
  <2>4. clawedBack => clawedBack'
    BY <1>6 DEF RecordDelivery
  <2>5. refund' = "RECORDED" => refund = "RECORDED" /\ ~ Carrying(c)
    BY <1>1, <1>6 DEF RecordDelivery, Take, Free, Carrying, CallShape
  <2>6. QED BY <2>1, <2>2, <2>3, <2>4, <2>5, AwaySteps
<1>7. ASSUME ReleaseIfEligible(c) PROVE Kept
  BY <1>1, <1>3, <1>7, AwayMoves DEF ReleaseIfEligible, Carrying, CallShape
<1>8. ASSUME LinkFulfillmentOrder(c) PROVE Kept
  <2>1. row'.status = row.status
    BY <1>1, <1>8, LinkedRow DEF LinkFulfillmentOrder
  <2>2. QED BY <1>1, <1>3, <1>8, <2>1, AwayMoves
            DEF LinkFulfillmentOrder, Take, Free, Carrying, CallShape
<1>9. ASSUME ConfirmBuyerReceipt(c) PROVE Kept
  <2>1. row'.status = row.status
    BY <1>1, <1>9 DEF ConfirmBuyerReceipt, Rows
  <2>2. QED BY <1>1, <1>3, <1>9, <2>1, AwayMoves DEF ConfirmBuyerReceipt, Free, Carrying, CallShape
<1>10. ASSUME FreezeSettlement(c) PROVE Kept
  BY <1>1, <1>2, <1>3, <1>10, AwayMoves DEF FreezeSettlement, Free, Carrying, CallShape
<1>11. ASSUME UnfreezeSettlement(c) PROVE Kept
  BY <1>1, <1>2, <1>3, <1>11, AwayMoves DEF UnfreezeSettlement, Free, Carrying, CallShape
<1>12. ASSUME FulfillmentCancelled(c) PROVE Kept
  BY <1>1, <1>2, <1>3, <1>12, AwayMoves, JobKinds
     DEF FulfillmentCancelled, Take, Free, Carrying, CallShape
<1>13. ASSUME NEW k \in Issues, OnBuyerIssueOpened(c, k) PROVE Kept
  BY <1>1, <1>2, <1>3, <1>13, AwayMoves, JobKinds
     DEF OnBuyerIssueOpened, Take, Free, Carrying, CallShape
<1>14. ASSUME NEW k \in Issues, OnBuyerIssueResolved(c, k) PROVE Kept
  BY <1>1, <1>2, <1>3, <1>14, AwayMoves, JobKinds
     DEF OnBuyerIssueResolved, Take, Free, Carrying, CallShape
<1>15. ASSUME NEW d \in Disputes, HandleDisputeCreated(c, d) PROVE Kept
  BY <1>1, <1>2, <1>3, <1>15, AwayMoves, JobKinds
     DEF HandleDisputeCreated, Take, Free, Carrying, CallShape
<1>16. ASSUME NEW d \in Disputes, HandleDisputeClosed(c, d) PROVE Kept
  <2>1. bank[d] \in Args
    BY <1>1, <1>3
  <2>2. QED BY <1>1, <1>2, <1>3, <1>16, <2>1, AwayMoves, JobKinds
            DEF HandleDisputeClosed, Take, Free, Carrying, CallShape
<1>17. ASSUME OnCardDisputeOpened(c) PROVE Kept
  BY <1>1, <1>2, <1>3, <1>17, AwayMoves DEF OnCardDisputeOpened, Carrying, CallShape
<1>18. ASSUME OnCardDisputeClosed(c) PROVE RInv'
  <2>1. Away(c)
    BY <1>1, <1>2, <1>3, <1>18, AwayMoves DEF OnCardDisputeClosed
  <2>2. transferRow' = transferRow /\ call[c].pc # "upsert" /\ call[c].op = "none"
    BY <1>1, <1>18 DEF OnCardDisputeClosed, CallShape
  <2>3. row'.status = row.status
    BY <1>18 DEF OnCardDisputeClosed
  <2>4. clawedBack => clawedBack'
    <3>1. clawedBack' = TRUE \/ clawedBack' = clawedBack
      BY <1>18, Zenon DEF OnCardDisputeClosed
    <3>2. QED BY <3>1, Zenon
  <2>5. refund' = "RECORDED" => refund = "RECORDED" /\ ~ Carrying(c)
    BY <1>1, <1>18 DEF OnCardDisputeClosed, Carrying, CallShape
  <2>6. QED BY <2>1, <2>2, <2>3, <2>4, <2>5, AwaySteps
<1>19. ASSUME CreateRefund(c) PROVE Kept
  BY <1>1, <1>3, <1>19, AwayMoves DEF CreateRefund, Free, CallShape
<1>20. ASSUME StripeRefunds(c) PROVE Kept
  BY <1>1, <1>3, <1>20, AwayMoves DEF StripeRefunds, CallShape
<1>21. ASSUME NEW kind \in {"payout.created", "payout.paid"}, AttributePayout(c, kind)
       PROVE  RInv'
  <2>1. Away(c)
    BY <1>1, <1>2, <1>3, <1>21, AwayMoves, JobKinds DEF AttributePayout, PayoutKinds, Take, Free
  <2>2. transferRow' = transferRow \/ (transferRow \in Recorded /\ transferRow' \in Recorded)
    BY <1>21 DEF AttributePayout, Recorded
  <2>3. /\ call[c].pc # "upsert" /\ call[c].op = "none" /\ ~ Carrying(c)
        /\ UNCHANGED <<row, refund, clawedBack>>
    BY <1>1, <1>21 DEF AttributePayout, Take, Free, Carrying, CallShape
  <2>4. QED BY <2>1, <2>2, <2>3, AwaySteps
<1>22. ASSUME RecordPayoutFailure(c) PROVE RInv'
  <2>1. Away(c)
    BY <1>1, <1>22, AwayMoves DEF RecordPayoutFailure, Take, Free
  <2>2. transferRow' = transferRow \/ (transferRow \in Recorded /\ transferRow' \in Recorded)
    BY <1>22 DEF RecordPayoutFailure, Recorded
  <2>3. /\ call[c].pc # "upsert" /\ call[c].op = "none" /\ ~ Carrying(c)
        /\ UNCHANGED <<row, refund, clawedBack>>
    BY <1>1, <1>22 DEF RecordPayoutFailure, Take, Free, Carrying, CallShape
  <2>4. QED BY <2>1, <2>2, <2>3, AwaySteps
<1> HIDE DEF Kept
<1>23. QED
  BY <1>4, <1>5, <1>6, <1>7, <1>8, <1>9, <1>10, <1>11, <1>12, <1>13, <1>14, <1>15, <1>16, <1>17,
     <1>18, <1>19, <1>20, <1>21, <1>22 DEF Attributed

\* Releases and payments start only where no refund was recorded, or end where
\* a transfer that had been tried has left its row.
LEMMA PayingCarriesNone ==
  ASSUME SInv, RInv, OneAtATime, NEW c \in Callers,
         \/ EvaluatePayment(c) \/ TransferSettlement(c)
         \/ RecordManualPayout(c) \/ UpsertManualRow(c)
         \/ UpsertTransferRow(c) \/ CreateTransfer(c)
  PROVE  RInv'
<1>1. CallOK /\ CallShape(c) /\ row \in Rows /\ MindShape(c) /\ RowShape
  BY DEF SInv, IInv, TypeOK, CallOK, RInv
<1>2. \A d \in Callers : d = c
  BY DEF OneAtATime
<1>3. /\ UNCHANGED <<row, refund, clawedBack>>
      /\ call[c].pc \in {"evaluate", "idle", "manualRow", "upsert", "stripe"}
  BY DEF EvaluatePayment, TransferSettlement, RecordManualPayout, UpsertManualRow,
         UpsertTransferRow, CreateTransfer, Free
<1>4. /\ call[c].op \in {"none", "claimTransfer"} /\ ~ Carrying(c)
      /\ call[c].op = "claimTransfer" <=> call[c].pc \in {"upsert", "stripe"}
  BY <1>1, <1>3 DEF CallShape, Carrying
<1>5. refund = "RECORDED" => Felt \/ Refused
  BY <1>2, <1>4 DEF RInv
<1>6. refund = "RECORDED" => row.status # "ELIGIBLE"
  BY <1>5 DEF Felt, Refused, WithSeller
<1>7. /\ {"release", "claimTransfer", "offsetOnly", "manual", "transferOk", "transferFailed"}
            \subseteq Ops
      /\ {"ELIGIBLE", "TRANSFER_PENDING", "PAID_OUT", "TRANSFERRED", "TRANSFER_FAILED"}
            \subseteq Status
      /\ "none" \in Args /\ NoJob \in Jobs \cup {NoJob}
      /\ {"manualRow", "stripe"} \subseteq PCs
  BY DEF Ops, Status, Args, PCs
<1>8. CASE EvaluatePayment(c) \/ TransferSettlement(c) \/ RecordManualPayout(c)
  <2>1. transferRow' = transferRow /\ call[c].pc # "upsert" /\ call[c].op = "none"
    BY <1>4, <1>8 DEF EvaluatePayment, TransferSettlement, RecordManualPayout, Free
  <2>2. RowShape'
    BY <1>3, <2>1, RowKept
  <2>3. refund' = "RECORDED" => Felt' \/ Refused'
    BY <1>3, <1>4, <2>1, RefundKept
  <2>4. MindShape(c)'
    <3>1. CASE Finish(c)
      <4>1. call'[c] = Idle
        BY <1>1, <3>1, FinishStores DEF Becomes
      <4>2. QED BY <4>1 DEF MindShape, Idle, At, Paying
    <3>2. CASE PaymentEligible /\ Submit(c, "release", "ELIGIBLE", "none", NoJob)
      <4>1. call'[c] = [pc |-> "before", op |-> "release", to |-> "ELIGIBLE",
                        arg |-> "none", job |-> NoJob]
        BY <1>1, <1>7, <3>2, SubmitStores DEF Becomes
      <4>2. QED BY <1>3, <3>2, <4>1 DEF MindShape, PaymentEligible
    <3>3. CASE row.status = "ELIGIBLE" /\ Submit(c, "claimTransfer", "TRANSFER_PENDING", "none", NoJob)
      <4>1. call'[c] = [pc |-> "before", op |-> "claimTransfer", to |-> "TRANSFER_PENDING",
                        arg |-> "none", job |-> NoJob]
        BY <1>1, <1>7, <3>3, SubmitStores DEF Becomes
      <4>2. QED BY <1>3, <1>6, <3>3, <4>1 DEF MindShape
    <3>4. CASE row.status = "ELIGIBLE" /\ Submit(c, "offsetOnly", "PAID_OUT", "none", NoJob)
      <4>1. call'[c] = [pc |-> "before", op |-> "offsetOnly", to |-> "PAID_OUT",
                        arg |-> "none", job |-> NoJob]
        BY <1>1, <1>7, <3>4, SubmitStores DEF Becomes
      <4>2. QED BY <1>3, <1>6, <3>4, <4>1 DEF MindShape
    <3>5. CASE row.status \in {"ELIGIBLE", "TRANSFER_FAILED"} /\ MoveTo(c, "manualRow")
      <4>1. call'[c] = [pc |-> "manualRow", op |-> call[c].op, to |-> call[c].to,
                        arg |-> call[c].arg, job |-> call[c].job]
        BY <1>1, <1>7, <3>5, MoveStores DEF Becomes
      <4>2. QED BY <1>3, <2>1, <3>5, <4>1 DEF MindShape, Paying
    <3>6. QED BY <1>8, <3>1, <3>2, <3>3, <3>4, <3>5
              DEF EvaluatePayment, TransferSettlement, RecordManualPayout
  <2>5. QED BY <2>2, <2>3, <2>4, RefundSteps
<1>9. CASE UpsertManualRow(c)
  <2>1. CASE transferRow \notin {"none", "MANUAL"}
    <3>1. Finish(c) /\ transferRow' = transferRow /\ call[c].pc # "upsert" /\ call[c].op # "manual"
      BY <1>4, <1>9, <2>1 DEF UpsertManualRow
    <3>2. Away(c)
      BY <3>1, AwayMoves
    <3>3. QED BY <1>3, <1>4, <3>1, <3>2, AwaySteps
  <2>2. CASE transferRow \in {"none", "MANUAL"}
    <3>1. /\ transferRow' = "MANUAL" /\ call[c].pc = "manualRow"
          /\ Submit(c, "manual", "PAID_OUT", "none", NoJob)
      BY <1>9, <2>2 DEF UpsertManualRow
    <3>2. call'[c] = [pc |-> "before", op |-> "manual", to |-> "PAID_OUT",
                      arg |-> "none", job |-> NoJob]
      BY <1>1, <1>7, <3>1, SubmitStores DEF Becomes
    <3>3. row.status = "ELIGIBLE"
      BY <1>1, <1>2, <2>2, <3>1 DEF RowShape, MindShape
    <3>4. MindShape(c)'
      BY <1>3, <1>6, <3>2, <3>3 DEF MindShape
    <3>5. RowShape'
      BY <1>3, <3>1, <3>2, <3>3 DEF RowShape, Recorded
    <3>6. refund' # "RECORDED"
      BY <1>3, <1>6, <3>3
    <3>7. QED BY <3>4, <3>5, <3>6, RefundSteps
  <2>3. QED BY <2>1, <2>2
<1>10. CASE UpsertTransferRow(c) \/ CreateTransfer(c)
  <2>1. InTransfer(c) /\ call[c].op = "claimTransfer"
    BY <1>4, <1>10 DEF InTransfer, UpsertTransferRow, CreateTransfer
  <2>2. row.status = "TRANSFER_PENDING" /\ refund # "RECORDED"
    BY <1>1, <2>1 DEF SInv, IInv, OneTransferInFlight, MindShape, Paying
  <2>3. transferRow # "MANUAL"
    BY <1>1, <1>2, <2>1, <2>2 DEF RowShape
  <2>4. transferRow' \in {"PENDING", "FAILED"}
    <3>1. CASE UpsertTransferRow(c)
      BY <2>3, <3>1 DEF UpsertTransferRow
    <3>2. CASE CreateTransfer(c)
      <4>1. call[c].pc = "stripe"
        BY <3>2 DEF CreateTransfer
      <4>2. transferRow \in {"PENDING", "FAILED"}
        BY <1>1, <1>2, <2>2, <4>1 DEF RowShape
      <4>3. QED BY <3>2, <4>2 DEF CreateTransfer
    <3>3. QED BY <1>10, <3>1, <3>2
  <2>5. RowShape'
    BY <2>4 DEF RowShape, Recorded
  <2>6. call'[c].op \in {"none", "claimTransfer", "transferOk", "transferFailed"}
        /\ call'[c].pc # "manualRow"
    <3>1. CASE Finish(c)
      <4>1. call'[c] = Idle
        BY <1>1, <3>1, FinishStores DEF Becomes
      <4>2. QED BY <4>1 DEF Idle, At
    <3>2. CASE MoveTo(c, "stripe")
      <4>1. call'[c] = [pc |-> "stripe", op |-> call[c].op, to |-> call[c].to,
                        arg |-> call[c].arg, job |-> call[c].job]
        BY <1>1, <1>7, <3>2, MoveStores DEF Becomes
      <4>2. QED BY <2>1, <4>1
    <3>3. CASE Submit(c, "transferOk", "TRANSFERRED", "none", NoJob)
      <4>1. call'[c] = [pc |-> "before", op |-> "transferOk", to |-> "TRANSFERRED",
                        arg |-> "none", job |-> NoJob]
        BY <1>1, <1>7, <3>3, SubmitStores DEF Becomes
      <4>2. QED BY <4>1
    <3>4. CASE Submit(c, "transferFailed", "TRANSFER_FAILED", "none", NoJob)
      <4>1. call'[c] = [pc |-> "before", op |-> "transferFailed", to |-> "TRANSFER_FAILED",
                        arg |-> "none", job |-> NoJob]
        BY <1>1, <1>7, <3>4, SubmitStores DEF Becomes
      <4>2. QED BY <4>1
    <3>5. QED BY <1>10, <3>1, <3>2, <3>3, <3>4 DEF UpsertTransferRow, CreateTransfer
  <2>7. MindShape(c)' /\ refund' # "RECORDED"
    BY <1>3, <2>2, <2>6 DEF MindShape
  <2>8. QED BY <2>5, <2>7, RefundSteps
<1>11. QED BY <1>8, <1>9, <1>10

\* The refund that is recorded is carried on; where the seller has the money,
\* it is taken back.
LEMMA RefundIsCarried ==
  ASSUME SInv, RInv, OneAtATime, NEW c \in Callers,
         HandleChargeRefunded(c) \/ ApplyRefundToSettlement(c)
  PROVE  RInv'
<1>1. CallOK /\ CallShape(c)
  BY DEF SInv, IInv, TypeOK, CallOK
<1>2. /\ row' = row /\ transferRow' = transferRow
      /\ call[c].pc # "upsert" /\ call[c].op = "none"
  BY <1>1 DEF HandleChargeRefunded, ApplyRefundToSettlement, Take, Free, CallShape
<1>3. RowShape'
  BY <1>2, RowKept
<1>4. CASE HandleChargeRefunded(c)
  <2>1. "applyRefund" \in PCs /\ "none" \in Args /\ NoJob \in Jobs \cup {NoJob}
    BY DEF PCs, Args
  <2>2. Enter(c, "applyRefund", "none", NoJob)
    BY <1>4 DEF HandleChargeRefunded
  <2>3. call'[c] = At("applyRefund", "none", NoJob)
    BY <1>1, <2>1, <2>2, EnterStores DEF Becomes
  <2>4. Carrying(c)' /\ MindShape(c)'
    BY <2>3 DEF Carrying, MindShape, Paying, At
  <2>5. QED BY <1>3, <2>4, RefundSteps
<1>5. CASE ApplyRefundToSettlement(c) /\ row.status \in WithSeller
  <2>1. Finish(c) /\ clawedBack'
    BY <1>5 DEF ApplyRefundToSettlement
  <2>2. call'[c] = Idle
    BY <1>1, <2>1, FinishStores DEF Becomes
  <2>3. MindShape(c)'
    BY <2>2 DEF Idle, At, MindShape, Paying
  <2>4. Felt'
    BY <1>2, <1>5, <2>1 DEF Felt
  <2>5. QED BY <1>3, <2>3, <2>4, RefundSteps
<1>6. CASE ApplyRefundToSettlement(c) /\ row.status \notin WithSeller
  <2>1. Submit(c, "refunded", "REFUNDED", "none", call[c].job) /\ clawedBack' = clawedBack
    BY <1>6 DEF ApplyRefundToSettlement
  <2>2. /\ "refunded" \in Ops /\ "REFUNDED" \in Status /\ "none" \in Args
        /\ call[c].job \in Jobs \cup {NoJob}
    BY <1>1 DEF Ops, Status, Args, CallOK, Calls
  <2>3. call'[c] = [pc |-> "before", op |-> "refunded", to |-> "REFUNDED",
                    arg |-> "none", job |-> call[c].job]
    BY <1>1, <2>1, <2>2, SubmitStores DEF Becomes
  <2>4. Carrying(c)' /\ MindShape(c)'
    BY <1>2, <1>6, <2>3 DEF Carrying, MindShape, Paying
  <2>5. QED BY <1>3, <2>4, RefundSteps
<1>7. QED BY <1>4, <1>5, <1>6

\* The environment may add a refund of everything, which is not recorded yet.
LEMMA EnvironmentCarriesNone ==
  ASSUME SInv, RInv, Environment
  PROVE  RInv'
<1>1. /\ UNCHANGED <<row, transferRow, clawedBack, call>>
      /\ refund' = "RECORDED" => refund = "RECORDED"
  <2>1. CASE DashboardRefund
    BY <2>1 DEF DashboardRefund
  <2>2. CASE \E kind \in OrderKinds : OrderEvent(kind)
    BY <2>2 DEF OrderEvent
  <2>3. CASE WindowPasses
    BY <2>3 DEF WindowPasses
  <2>4. CASE \E k \in Issues : OpenIssue(k) \/ ResolveIssue(k)
    BY <2>4 DEF OpenIssue, ResolveIssue
  <2>5. CASE \E d \in Disputes : BankRaisesDispute(d)
    BY <2>5 DEF BankRaisesDispute
  <2>6. CASE \E d \in Disputes, outcome \in {"won", "lost"} : BankDecidesDispute(d, outcome)
    BY <2>6 DEF BankDecidesDispute
  <2>7. CASE \E kind \in PayoutKinds : StripePaysBank(kind)
    BY <2>7 DEF StripePaysBank
  <2>8. QED BY <2>1, <2>2, <2>3, <2>4, <2>5, <2>6, <2>7 DEF Environment, OrderKinds, PayoutKinds
<1>2. RowShape' /\ \A c \in Callers : MindShape(c)'
  BY <1>1 DEF RInv, RowShape, MindShape
<1>3. QED BY <1>1, <1>2 DEF RInv, Felt, Refused, Carrying

\* Between operations, a full refund that was recorded has reached the
\* settlement, unless a transfer had been tried before, whatever the order of
\* events, refunds, disputes, freezes and payments: without crashes, which lose
\* the way from the record to the settlement (recordStripeRefundEvent,
\* applyRefundToSettlement, transitionSettlement).
THEOREM RefundsArrive ==
  OneAtATime /\ "crash" \notin Operations => (Spec => []RefundReachesSettlement)
<1> SUFFICES ASSUME OneAtATime, "crash" \notin Operations
             PROVE  Spec => []RefundReachesSettlement
  OBVIOUS
<1>1. Init => RInv
  <2>1. ASSUME Init
        PROVE  \A c \in Callers : call[c].op = "none" /\ call[c].pc = "idle"
    <3>1. \A c \in Callers : call[c] = Idle
      BY <2>1 DEF Init
    <3>2. QED BY <3>1 DEF Idle, At
  <2>2. Init => row.status = "PENDING" /\ refund = "none" /\ transferRow = "none"
    BY DEF Init
  <2>3. QED BY <2>1, <2>2 DEF RInv, RowShape, MindShape, Paying, Recorded
<1>2. ASSUME SInv, RInv, [Next]_vars
      PROVE  RInv'
  <2>1. CASE Environment
    BY <1>2, <2>1, EnvironmentCarriesNone
  <2>2. ASSUME NEW c \in Callers, Caller(c)
        PROVE  RInv'
    <3>1. ~ Crash(c)
      BY DEF Crash
    <3>2. QED BY <1>2, <2>2, <3>1, ReadCarriesRefunds, ClaimCarriesRefunds, OtherStepsCarryNone,
                 PayingCarriesNone, RefundIsCarried DEF Caller, Attributed
  <2>3. CASE UNCHANGED vars
    BY <1>2, <2>3 DEF RInv, RowShape, MindShape, Felt, Refused, Carrying
  <2>4. QED BY <1>2, <2>1, <2>2, <2>3 DEF Next
<1>3. SInv /\ RInv => RefundReachesSettlement
  <2>1. ASSUME SInv, \A c \in Callers : Free(c)
        PROVE  ~ \E c \in Callers : Carrying(c)
    BY <2>1 DEF SInv, IInv, CallShape, Carrying, Free
  <2>2. QED BY <2>1 DEF RInv, Felt, Refused, RefundReachesSettlement
<1>4. QED BY <1>1, <1>2, <1>3, SoleInvariance, PTL DEF Spec
===============================================================================
