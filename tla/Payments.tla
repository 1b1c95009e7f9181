------------------------------- MODULE Payments -------------------------------
(***************************************************************************)
(* Money in: the one Payment row of a listing, and everything that moves   *)
(* it until a charge is booked.                                            *)
(*                                                                         *)
(* A listing has one Payment (listingId is unique), but any number of      *)
(* Stripe PaymentIntents may be raised for it: by checkouts, by the        *)
(* auction's winner charge, by retries.  Stripe reports on them through    *)
(* events that arrive in any order and are handled five at a time; the     *)
(* browser confirms, the main server's command charges the winner, and a   *)
(* sweeper expires recovery windows.  Every database transaction and every *)
(* call to Stripe is a step of its own.                                    *)
(***************************************************************************)
EXTENDS Naturals, FiniteSets, FiniteSetsExt

CONSTANTS
  Callers,      \* concurrent executions: event and command workers, requests
  MaxCheckouts, \* bound: checkouts of each kind the buyers start
  MaxAttempts,  \* MAX_RECOVERY_ATTEMPTS, 5 in the code
  Scenarios     \* the environments considered: sets of things that may happen

ASSUME CheckoutsAssumption == MaxCheckouts \in Nat
ASSUME AttemptsAssumption == MaxAttempts \in Nat \ {0}

Checkouts == {"elements", "session"} \X (1..MaxCheckouts)

\* A PaymentIntent is named by its idempotency key: intent:..., session:...,
\* winner:<auction>:<buyer>:<attempt>, retry:<payment>:<attempt>.
Intents == Checkouts \cup ({"winner", "retry"} \X (1..MaxAttempts + 1))

\* What a row that names a checkout session instead of an intent holds.
NoIntent == <<"none", 0>>

ChargeWinner == <<"CHARGE_AUCTION_WINNER", NoIntent>>
NoJob == <<"none", NoIntent>>

EventTypes == {"payment_intent.succeeded", "payment_intent.payment_failed",
               "payment_intent.canceled", "checkout.session.completed",
               "checkout.session.expired", "charge.refunded"}

Jobs == (EventTypes \X Intents) \cup {ChargeWinner}

VARIABLES
  pay,        \* the Payment row; status "none" while there is none
  attempts,   \* PaymentAttempt rows, as <<attemptNo, idempotencyKey>>
  charges,    \* CHARGE transactions in the ledger per intent; 2: more than one
  settlement, \* the intent whose booking created the seller's settlement
  stripe,     \* Stripe's view of each intent, and its answer to the create call
  refunded,   \* how much of an intent was refunded: none, partial or full
  posted,     \* intents whose refund has been posted to the ledger
  queue,      \* events and commands waiting for a worker
  sent,       \* events and commands ever queued: each has an id of its own
  call,       \* what each caller is in the middle of
  scenario    \* the environment of this behaviour

vars == <<pay, attempts, charges, settlement, stripe, refunded, posted, queue,
          sent, call, scenario>>
books == <<charges, settlement>>

Call(pc, intent, no, job) == [pc |-> pc, intent |-> intent, no |-> no, job |-> job]
Idle == Call("idle", NoIntent, 0, NoJob)

\* intent is stripePaymentIntentId, gateway is gatewayTransactionId, count is
\* recoveryAttemptCount, window is recoveryExpiresAt against the clock.
NoPayment == [status |-> "none", intent |-> NoIntent, gateway |-> NoIntent,
              recovery |-> "NOT_REQUIRED", count |-> 0, window |-> "none"]

\* Whether the row names intent i, and the row once it names i.
Names(i) == i \in {pay.intent, pay.gateway}
Naming(i) == [pay EXCEPT !.intent = i, !.gateway = i]

Init ==
  /\ pay = NoPayment
  /\ attempts = {}
  /\ charges = [i \in Intents |-> 0]
  /\ settlement = NoIntent
  /\ stripe = [i \in Intents |-> [state |-> "none", answer |-> "none"]]
  /\ refunded = [i \in Intents |-> "none"]
  /\ posted = {}
  /\ queue = {}
  /\ sent = {}
  /\ call = [c \in Callers |-> Idle]
  /\ scenario \in Scenarios
-------------------------------------------------------------------------------
(***************************************************************************)
(* Outside: Stripe, the buyer, the main server, the clock.                 *)
(***************************************************************************)
Send(jobs) ==
  /\ queue' = queue \cup (jobs \ sent)
  /\ sent' = sent \cup jobs

StripeHas(i, state) == stripe' = [stripe EXCEPT ![i].state = state]

Succeeds(i) ==
  /\ StripeHas(i, "succeeded")
  /\ Send({<<"payment_intent.succeeded", i>>} \cup
          (IF i[1] = "session" THEN {<<"checkout.session.completed", i>>} ELSE {}))

\* The buyer pays a checkout whose client secret or page was returned, or
\* completes a challenge; or a pending charge goes through.
BuyerPays(i) ==
  /\ stripe[i].state \in {"open", "requires_action", "processing"}
  /\ Succeeds(i)
  /\ UNCHANGED <<pay, attempts, books, refunded, posted, call, scenario>>

\* A declined card leaves a checkout open for another one.
CardDeclined(i) ==
  /\ "declines" \in scenario
  /\ \/ stripe[i].state = "open" /\ UNCHANGED stripe
     \/ stripe[i].state \in {"requires_action", "processing"} /\ StripeHas(i, "declined")
  /\ Send({<<"payment_intent.payment_failed", i>>})
  /\ UNCHANGED <<pay, attempts, books, refunded, posted, call, scenario>>

CheckoutAbandoned(i) ==
  /\ "abandon" \in scenario
  /\ stripe[i].state \in {"created", "open"}
  /\ StripeHas(i, "canceled")
  /\ Send({IF i[1] = "session" THEN <<"checkout.session.expired", i>>
                               ELSE <<"payment_intent.canceled", i>>})
  /\ UNCHANGED <<pay, attempts, books, refunded, posted, call, scenario>>

DashboardRefund(i, amount) ==
  /\ "refunds" \in scenario
  /\ stripe[i].state = "succeeded"
  /\ refunded[i] = "none"
  /\ refunded' = [refunded EXCEPT ![i] = amount]
  /\ Send({<<"charge.refunded", i>>})
  /\ UNCHANGED <<pay, attempts, books, stripe, posted, call, scenario>>

AuctionCloses ==
  /\ "auction" \in scenario
  /\ ChargeWinner \notin sent
  /\ Send({ChargeWinner})
  /\ UNCHANGED <<pay, attempts, books, stripe, refunded, posted, call, scenario>>

RecoveryWindowPasses ==
  /\ "expiry" \in scenario
  /\ pay.window = "open"
  /\ pay' = [pay EXCEPT !.window = "over"]
  /\ UNCHANGED <<attempts, books, stripe, refunded, posted, queue, sent, call, scenario>>

Environment ==
  \/ \E i \in Intents : BuyerPays(i) \/ CardDeclined(i)
  \/ \E i \in Checkouts : CheckoutAbandoned(i)
  \/ \E i \in Intents, amount \in {"partial", "full"} : DashboardRefund(i, amount)
  \/ AuctionCloses \/ RecoveryWindowPasses
-------------------------------------------------------------------------------
Free(c) == call[c].pc = "idle"
Finish(c) == call' = [call EXCEPT ![c] = Idle]
MoveTo(c, pc) == call' = [call EXCEPT ![c].pc = pc]
Enter(c, pc, i, no, job) == call' = [call EXCEPT ![c] = Call(pc, i, no, job)]

\* The work of a call is done; a queued job still has to be acknowledged.
Done(c) == IF call[c].job = NoJob THEN Finish(c) ELSE MoveTo(c, "ack")

Take(c, job) ==
  /\ Free(c)
  /\ job \in queue
  /\ queue' = queue \ {job}
  /\ UNCHANGED sent

Acknowledge(c) ==
  /\ call[c].pc = "ack"
  /\ Finish(c)
  /\ UNCHANGED <<pay, attempts, books, stripe, refunded, posted, queue, sent, scenario>>

\* A process dies in the middle of a call: its job is handed out again.
Crash(c) ==
  /\ "crash" \in scenario
  /\ ~Free(c)
  /\ queue' = queue \cup ({call[c].job} \cap Jobs)
  /\ Finish(c)
  /\ UNCHANGED <<pay, attempts, books, stripe, refunded, posted, sent, scenario>>
-------------------------------------------------------------------------------
(***************************************************************************)
(* Checkout                                                                *)
(***************************************************************************)
\* createPaymentIntent and createCheckoutSession: a fresh order number, so a
\* fresh idempotency key; refused once the listing is SOLD, which the main
\* server does some time after a charge was announced.
StartCheckout(c, i) ==
  /\ i[1] \in scenario
  /\ Free(c)
  /\ stripe[i].state = "none"
  /\ \A n \in 1..(i[2] - 1) : stripe[<<i[1], n>>].state # "none"
  /\ StripeHas(i, "created")
  /\ Enter(c, "pendingRead", i, 0, NoJob)
  /\ UNCHANGED <<pay, attempts, books, refunded, posted, queue, sent, scenario>>

PendingRead(c) ==
  /\ call[c].pc = "pendingRead"
  /\ IF pay.status = "PAID" THEN Finish(c) ELSE MoveTo(c, "pendingWrite")
  /\ UNCHANGED <<pay, attempts, books, stripe, refunded, posted, queue, sent, scenario>>

\* The upsert of upsertPendingPayment, and the answer to the buyer.  A hosted
\* session has no intent yet: the row gets the session's id.
PendingWrite(c) ==
  /\ call[c].pc = "pendingWrite"
  /\ LET i == call[c].intent IN
     /\ pay' = [Naming(IF i[1] = "session" THEN NoIntent ELSE i) EXCEPT !.status = "PENDING"]
     /\ IF stripe[i].state = "created" THEN StripeHas(i, "open") ELSE UNCHANGED stripe
  /\ Finish(c)
  /\ UNCHANGED <<attempts, books, refunded, posted, queue, sent, scenario>>

\* confirmPayment: the browser says an intent has succeeded.
ConfirmPayment(c, i) ==
  /\ "confirm" \in scenario
  /\ Free(c)
  /\ stripe[i].state = "succeeded"
  /\ Enter(c, "settleRead", i, 0, NoJob)
  /\ UNCHANGED <<pay, attempts, books, stripe, refunded, posted, queue, sent, scenario>>
-------------------------------------------------------------------------------
(***************************************************************************)
(* settlePaidIntent                                                        *)
(***************************************************************************)
HandleSucceeded(c, type, i) ==
  /\ type \in {"payment_intent.succeeded", "checkout.session.completed"}
  /\ Take(c, <<type, i>>)
  /\ Enter(c, "settleRead", i, 0, <<type, i>>)
  /\ UNCHANGED <<pay, attempts, books, stripe, refunded, posted, scenario>>

\* Where a caller of settlePaidIntent goes on when it returns.
Settled(c) == IF call[c].no > 0 /\ call[c].job = NoJob THEN MoveTo(c, "recovered") ELSE Done(c)

\* The captured amount is the total of the breakdown in the metadata.  The
\* intent of a retry carries no breakdown; nothing captured is 0.
Reconciles(i) == stripe[i].state = "succeeded" /\ i[1] # "retry"

\* Mutant of SettleRead: the amounts are not compared.
SettleReadUnchecked(c) ==
  /\ call[c].pc = "settleRead"
  /\ IF pay.status = "PAID" /\ Names(call[c].intent) THEN Settled(c) ELSE MoveTo(c, "settle")
  /\ UNCHANGED <<pay, attempts, books, stripe, refunded, posted, queue, sent, scenario>>

\* Retrieve the intent, look for a row that names it and is PAID, compare the
\* captured amount with the breakdown.
SettleRead(c) ==
  /\ call[c].pc = "settleRead"
  /\ LET i == call[c].intent
         paid == pay.status = "PAID" /\ Names(i)
     IN \/ paid /\ Settled(c)
        \/ ~paid /\ Reconciles(i) /\ MoveTo(c, "settle")
        \/ ~paid /\ ~Reconciles(i) /\ MoveTo(c, "quarantine")
  /\ UNCHANGED <<pay, attempts, books, stripe, refunded, posted, queue, sent, scenario>>

\* Hold the listing's payment, whatever it is.
Quarantine(c) ==
  /\ call[c].pc = "quarantine"
  /\ pay' = IF pay.status = "none" THEN pay ELSE [pay EXCEPT !.status = "PROCESSING"]
  /\ Settled(c)
  /\ UNCHANGED <<attempts, books, stripe, refunded, posted, queue, sent, scenario>>

\* nextAttemptNumber, then the upsert of the attempt under settle:<intent>.
SettleAttempt(i) ==
  LET key == <<"settle", i>> IN
  IF \E a \in attempts : a[2] = key
  THEN attempts
  ELSE attempts \cup {<<1 + Max({0} \cup {a[1] : a \in attempts}), key>>}

\* The rest of the transaction: the attempt, the CHARGE entry, the settlement
\* (the existing one if the payment has one) and the announcement.
Book(i) ==
  /\ attempts' = SettleAttempt(i)
  /\ charges' = [charges EXCEPT ![i] = IF @ = 0 THEN 1 ELSE 2]
  /\ settlement' = IF settlement = NoIntent THEN i ELSE settlement

\* Mutants of SettleClaim: any status is claimed; only a PENDING one is.
SettleClaimAnyway(c) ==
  /\ call[c].pc = "settle"
  /\ pay.status # "none"
  /\ pay' = [Naming(call[c].intent) EXCEPT !.status = "PAID", !.recovery = "RECOVERED"]
  /\ Book(call[c].intent)
  /\ Settled(c)
  /\ UNCHANGED <<stripe, refunded, posted, queue, sent, scenario>>
SettleClaimPending(c) ==
  /\ call[c].pc = "settle"
  /\ IF pay.status = "PENDING"
     THEN /\ pay' = [Naming(call[c].intent) EXCEPT !.status = "PAID"]
          /\ Book(call[c].intent)
     ELSE UNCHANGED <<pay, attempts, books>>
  /\ Settled(c)
  /\ UNCHANGED <<stripe, refunded, posted, queue, sent, scenario>>

\* The claim: UPDATE ... WHERE listingId AND status <> PAID.
SettleClaim(c) ==
  /\ call[c].pc = "settle"
  /\ \/ /\ pay.status \notin {"none", "PAID"}
        /\ pay' = [Naming(call[c].intent) EXCEPT !.status = "PAID", !.recovery = "RECOVERED"]
        /\ Book(call[c].intent)
        /\ Settled(c)
     \/ /\ pay.status = "PAID"
        /\ Settled(c)
        /\ UNCHANGED <<pay, attempts, books>>
     \/ /\ pay.status = "none"
        /\ MoveTo(c, "settleCreate")
        /\ UNCHANGED <<pay, attempts, books>>
  /\ UNCHANGED <<stripe, refunded, posted, queue, sent, scenario>>

\* There was no row to claim: create it, unless one has appeared meanwhile,
\* found by the second read or by the unique listingId.
SettleCreate(c) ==
  /\ call[c].pc = "settleCreate"
  /\ \/ /\ pay.status = "none"
        /\ pay' = [Naming(call[c].intent) EXCEPT !.status = "PAID"]
        /\ Book(call[c].intent)
     \/ /\ pay.status # "none"
        /\ UNCHANGED <<pay, attempts, books>>
  /\ Settled(c)
  /\ UNCHANGED <<stripe, refunded, posted, queue, sent, scenario>>
-------------------------------------------------------------------------------
(***************************************************************************)
(* Events that undo                                                        *)
(***************************************************************************)
\* recordFailure: whatever the row's status is.
RecordFailure(c, i) ==
  /\ Take(c, <<"payment_intent.payment_failed", i>>)
  /\ pay' = IF pay.status = "none" THEN pay
            ELSE [Naming(i) EXCEPT !.status = "FAILED", !.recovery = "REQUIRED",
                                   !.window = "open"]
  /\ Enter(c, "ack", i, 0, <<"payment_intent.payment_failed", i>>)
  /\ UNCHANGED <<attempts, books, stripe, refunded, posted, scenario>>

HandleCanceled(c, i) ==
  /\ Take(c, <<"payment_intent.canceled", i>>)
  /\ pay' = IF Names(i) /\ pay.status # "PAID" THEN [pay EXCEPT !.status = "FAILED"] ELSE pay
  /\ Enter(c, "ack", i, 0, <<"payment_intent.canceled", i>>)
  /\ UNCHANGED <<attempts, books, stripe, refunded, posted, scenario>>

HandleSessionExpired(c, i) ==
  /\ Take(c, <<"checkout.session.expired", i>>)
  /\ pay' = IF pay.status \in {"PENDING", "PROCESSING"}
            THEN [pay EXCEPT !.status = "FAILED"] ELSE pay
  /\ Enter(c, "ack", i, 0, <<"checkout.session.expired", i>>)
  /\ UNCHANGED <<attempts, books, stripe, refunded, posted, scenario>>

\* recordStripeRefundEvent, its half on the payment: find the payment and
\* whether the refund was posted, then post it and write the status.
HandleRefunded(c, i) ==
  /\ Take(c, <<"charge.refunded", i>>)
  /\ Enter(c, IF Names(i) /\ i \notin posted THEN "refundPost" ELSE "ack", i, 0,
           <<"charge.refunded", i>>)
  /\ UNCHANGED <<pay, attempts, books, stripe, refunded, posted, scenario>>

PostRefund(c) ==
  /\ call[c].pc = "refundPost"
  /\ LET i == call[c].intent IN
     /\ pay' = [pay EXCEPT !.status = IF refunded[i] = "full" THEN "REFUNDED" ELSE "PAID"]
     /\ posted' = posted \cup {i}
  /\ Done(c)
  /\ UNCHANGED <<attempts, books, stripe, refunded, queue, sent, scenario>>
-------------------------------------------------------------------------------
(***************************************************************************)
(* Off-session charges: the winner of an auction, and retries              *)
(***************************************************************************)
\* What Stripe answers to a confirmed off-session create, and what it does.
Answers == {"succeeded", "requires_action", "processing", "declined"}

StripeCharges(i, answer) ==
  /\ answer = "declined" => "declines" \in scenario
  /\ stripe[i].state = "none"
  /\ stripe' = [stripe EXCEPT ![i] = [state |-> answer, answer |-> answer]]
  /\ Send(CASE answer = "succeeded" -> {<<"payment_intent.succeeded", i>>}
            [] answer = "declined"  -> {<<"payment_intent.payment_failed", i>>}
            [] OTHER                -> {})

\* chargeAuctionWinner: the payment is read once.  Without a saved card it
\* goes straight to recovery.  The bound on the attempt number is the model's:
\* the code has one for retries only.
ChargeAuctionWinner(c) ==
  /\ Take(c, ChargeWinner)
  /\ \/ /\ pay.status = "PAID"
        /\ Enter(c, "ack", NoIntent, 0, ChargeWinner)
     \/ /\ pay.status # "PAID"
        /\ pay.count < MaxAttempts + 1
        /\ Enter(c, "winnerCharge", <<"winner", pay.count + 1>>, pay.count + 1, ChargeWinner)
     \/ /\ pay.status # "PAID"
        /\ pay.count < MaxAttempts + 1
        /\ "nocard" \in scenario
        /\ Enter(c, "recover", NoIntent, pay.count + 1, ChargeWinner)
  /\ UNCHANGED <<pay, attempts, books, stripe, refunded, posted, scenario>>

\* The charge.  The order number in the metadata is made anew on every run, so
\* a key that was used before is refused; and an answer can be lost.
WinnerCharge(c) ==
  /\ call[c].pc = "winnerCharge"
  /\ LET i == call[c].intent IN
     \/ \E answer \in Answers :
          /\ StripeCharges(i, answer)
          /\ \/ MoveTo(c, IF answer = "declined" THEN "recover" ELSE "recordAttempt")
             \/ /\ "lost" \in scenario
                /\ Enter(c, "recover", NoIntent, call[c].no, ChargeWinner)
     \/ /\ stripe[i].state # "none"
        /\ Enter(c, "recover", NoIntent, call[c].no, ChargeWinner)
        /\ UNCHANGED <<stripe, queue, sent>>
  /\ UNCHANGED <<pay, attempts, books, refunded, posted, scenario>>

\* An attempt row may be inserted: neither its number nor its key is taken.
Fresh(no, key) == \A a \in attempts : a[1] # no /\ a[2] # key

\* Mutant of RecordAttempt: every attempt marks the payment paid.
RecordAttemptAsPaid(c) ==
  /\ call[c].pc = "recordAttempt"
  /\ attempts' = attempts \cup {<<call[c].no, <<"attempt", call[c].no>>>>}
  /\ pay' = [Naming(call[c].intent) EXCEPT !.status = "PAID"]
  /\ IF stripe[call[c].intent].answer = "succeeded" THEN MoveTo(c, "settleRead") ELSE Done(c)
  /\ UNCHANGED <<books, stripe, refunded, posted, queue, sent, scenario>>

\* recordAttempt: the payment gets the status of the intent, the attempt is
\* upserted by key.  If its number is taken the transaction fails.
RecordAttempt(c) ==
  /\ call[c].pc = "recordAttempt"
  /\ LET i == call[c].intent
         no == call[c].no
         key == <<"attempt", no>>
         answer == stripe[i].answer
     IN \/ /\ <<no, key>> \in attempts \/ Fresh(no, key)
           /\ attempts' = attempts \cup {<<no, key>>}
           /\ pay' = [Naming(i) EXCEPT
                        !.status = CASE answer = "succeeded" -> "PAID"
                                     [] answer = "requires_action" -> "REQUIRES_ACTION"
                                     [] OTHER -> "PENDING"]
           /\ CASE answer = "succeeded" -> MoveTo(c, "settleRead")
                [] answer = "requires_action" -> MoveTo(c, "recover")
                [] OTHER -> Done(c)
        \/ /\ <<no, key>> \notin attempts /\ ~Fresh(no, key)
           /\ Enter(c, "recover", NoIntent, no, ChargeWinner)
           /\ UNCHANGED <<pay, attempts>>
  /\ UNCHANGED <<books, stripe, refunded, posted, queue, sent, scenario>>

\* The retrieve inside settlePaidIntent fails: the charge's own catch clause.
SettleFails(c) ==
  /\ "lost" \in scenario
  /\ call[c].pc = "settleRead"
  /\ call[c].no > 0
  /\ IF call[c].job = NoJob
     THEN MoveTo(c, "retryFailed")
     ELSE Enter(c, "recover", NoIntent, call[c].no, ChargeWinner)
  /\ UNCHANGED <<pay, attempts, books, stripe, refunded, posted, queue, sent, scenario>>

\* Mutant of OpenRecovery: attempts have no unique number.
OpenRecoveryAnyway(c) ==
  /\ call[c].pc = "recover"
  /\ LET i == call[c].intent
         no == call[c].no
     IN /\ attempts' = attempts \cup {<<no, <<"attempt", no>>>>}
        /\ pay' = [(IF i = NoIntent THEN pay ELSE Naming(i)) EXCEPT
                     !.status = "FAILED", !.recovery = "REQUIRED", !.count = no,
                     !.window = "open"]
        /\ Done(c)
  /\ UNCHANGED <<books, stripe, refunded, posted, queue, sent, scenario>>

\* openRecovery: one transaction, undone when the attempt's number or key is
\* taken; then the command fails, and the queue may hand it out again.
OpenRecovery(c) ==
  /\ call[c].pc = "recover"
  /\ LET i == call[c].intent
         no == call[c].no
         key == <<"attempt", no>>
     IN \/ /\ Fresh(no, key)
           /\ attempts' = attempts \cup {<<no, key>>}
           /\ pay' = [(IF i = NoIntent THEN pay ELSE Naming(i)) EXCEPT
                        !.status = "FAILED", !.recovery = "REQUIRED", !.count = no,
                        !.window = "open"]
           /\ Done(c)
           /\ UNCHANGED queue
        \/ /\ ~Fresh(no, key)
           /\ queue' \in {queue, queue \cup {ChargeWinner}}
           /\ Finish(c)
           /\ UNCHANGED <<pay, attempts>>
  /\ UNCHANGED <<books, stripe, refunded, posted, sent, scenario>>

\* Mutant of RetryPayment: no limit.
RetryPaymentUnlimited(c) ==
  /\ "retry" \in scenario
  /\ Free(c)
  /\ pay.status \notin {"none", "PAID"}
  /\ Enter(c, "retryMark", <<"retry", pay.count + 1>>, pay.count + 1, NoJob)
  /\ UNCHANGED <<pay, attempts, books, stripe, refunded, posted, queue, sent, scenario>>

\* retryPayment, up to its first write: the checks on what it has read.
RetryPayment(c) ==
  /\ "retry" \in scenario
  /\ Free(c)
  /\ pay.status \notin {"none", "PAID"}
  /\ \/ /\ pay.window = "over"
        /\ MoveTo(c, "expire")
     \/ /\ pay.window # "over"
        /\ pay.count < MaxAttempts
        /\ Enter(c, "retryMark", <<"retry", pay.count + 1>>, pay.count + 1, NoJob)
  /\ UNCHANGED <<pay, attempts, books, stripe, refunded, posted, queue, sent, scenario>>

RetryMark(c) ==
  /\ call[c].pc = "retryMark"
  /\ pay' = [pay EXCEPT !.recovery = "IN_PROGRESS", !.count = call[c].no]
  /\ MoveTo(c, "retryCharge")
  /\ UNCHANGED <<attempts, books, stripe, refunded, posted, queue, sent, scenario>>

\* The charge.  A key that was used before gets the first answer again.
AfterRetry == [succeeded |-> "settleRead", requires_action |-> "retryAction",
               processing |-> "retryPending", declined |-> "retryFailed"]

RetryCharge(c) ==
  /\ call[c].pc = "retryCharge"
  /\ LET i == call[c].intent IN
     \/ \E answer \in Answers :
          /\ StripeCharges(i, answer)
          /\ \/ MoveTo(c, AfterRetry[answer])
             \/ "lost" \in scenario /\ MoveTo(c, "retryFailed")
     \/ /\ stripe[i].state # "none"
        /\ MoveTo(c, AfterRetry[stripe[i].answer])
        /\ UNCHANGED <<stripe, queue, sent>>
  /\ UNCHANGED <<pay, attempts, books, refunded, posted, scenario>>

\* The writes after a retry's charge, each by id and whatever the row holds.
RetryEndings == {"recovered", "retryAction", "retryPending", "retryFailed"}

RetryWrite ==
  [recovered    |-> [pay EXCEPT !.recovery = "RECOVERED"],
   retryAction  |-> [pay EXCEPT !.status = "REQUIRES_ACTION", !.recovery = "RETRYING"],
   retryPending |-> [pay EXCEPT !.recovery = "RETRYING"],
   retryFailed  |-> [pay EXCEPT !.status = "FAILED", !.recovery = "REQUIRED"]]

RetryEnds(c) ==
  /\ call[c].pc \in RetryEndings
  /\ LET after == RetryWrite[call[c].pc] IN
     pay' = IF call[c].pc = "retryPending" THEN [after EXCEPT !.intent = call[c].intent] ELSE after
  /\ Finish(c)
  /\ UNCHANGED <<attempts, books, stripe, refunded, posted, queue, sent, scenario>>

\* expireStaleRecoveries: the sweep reads the row again inside a transaction,
\* then updates it by id.  A retry that comes too late writes the same.
SweepRead(c) ==
  /\ "expiry" \in scenario
  /\ Free(c)
  /\ pay.status \notin {"none", "PAID"}
  /\ pay.window = "over"
  /\ pay.recovery \in {"REQUIRED", "IN_PROGRESS", "RETRYING"}
  /\ MoveTo(c, "expire")
  /\ UNCHANGED <<pay, attempts, books, stripe, refunded, posted, queue, sent, scenario>>

Expire(c) ==
  /\ call[c].pc = "expire"
  /\ pay' = [pay EXCEPT !.recovery = "EXPIRED"]
  /\ Finish(c)
  /\ UNCHANGED <<attempts, books, stripe, refunded, posted, queue, sent, scenario>>
-------------------------------------------------------------------------------
\* Steps of a call that has started.
Continue(c) ==
  \/ Acknowledge(c)
  \/ PendingRead(c) \/ PendingWrite(c)
  \/ SettleRead(c) \/ SettleClaim(c) \/ SettleCreate(c) \/ Quarantine(c)
  \/ PostRefund(c)
  \/ WinnerCharge(c) \/ RecordAttempt(c) \/ SettleFails(c) \/ OpenRecovery(c)
  \/ RetryMark(c) \/ RetryCharge(c) \/ RetryEnds(c) \/ Expire(c)

\* A worker takes a job from its queue.
TakeJob(c) ==
  \/ ChargeAuctionWinner(c)
  \/ \E i \in Intents :
       \/ HandleSucceeded(c, "payment_intent.succeeded", i)
       \/ HandleSucceeded(c, "checkout.session.completed", i)
       \/ RecordFailure(c, i) \/ HandleCanceled(c, i)
       \/ HandleSessionExpired(c, i) \/ HandleRefunded(c, i)

\* A request arrives, or the sweeper's timer fires.
Request(c) ==
  \/ \E i \in Checkouts : StartCheckout(c, i)
  \/ \E i \in Intents : ConfirmPayment(c, i)
  \/ RetryPayment(c) \/ SweepRead(c)

Next ==
  \/ Environment
  \/ \E c \in Callers : Request(c) \/ TakeJob(c) \/ Continue(c) \/ Crash(c)

Spec == Init /\ [][Next]_vars

\* Workers finish what they take and never stop taking jobs, even while
\* requests keep them busy; processes do not die over and over for ever.
FairSpec ==
  /\ Spec
  /\ \A c \in Callers : WF_vars(Continue(c)) /\ SF_vars(TakeJob(c))
  /\ <>[][~\E c \in Callers : Crash(c)]_vars
-------------------------------------------------------------------------------
PCs == {"idle", "ack", "pendingRead", "pendingWrite", "settleRead", "settle",
        "settleCreate", "quarantine", "refundPost", "winnerCharge", "recordAttempt",
        "recover", "retryMark", "retryCharge", "expire"} \cup RetryEndings

IntentStates == Answers \cup {"none", "created", "open", "canceled"}

Payments == [status : {"none", "PENDING", "REQUIRES_ACTION", "PROCESSING", "PAID",
                       "FAILED", "REFUNDED"},
             intent : Intents \cup {NoIntent},
             gateway : Intents \cup {NoIntent},
             recovery : {"NOT_REQUIRED", "REQUIRED", "IN_PROGRESS", "RETRYING",
                         "RECOVERED", "EXPIRED"},
             count : 0..MaxAttempts + 1,
             window : {"none", "open", "over"}]

AttemptKeys == ({"settle"} \X Intents) \cup ({"attempt"} \X (1..MaxAttempts + 1))

Calls == [pc : PCs, intent : Intents \cup {NoIntent}, no : 0..MaxAttempts + 1,
          job : Jobs \cup {NoJob}]

\* Every variable keeps its type.
TypeOK ==
  /\ pay \in Payments
  /\ attempts \subseteq (Nat \ {0}) \X AttemptKeys
  /\ charges \in [Intents -> 0..2]
  /\ settlement \in Intents \cup {NoIntent}
  /\ stripe \in [Intents -> [state : IntentStates, answer : Answers \cup {"none"}]]
  /\ refunded \in [Intents -> {"none", "partial", "full"}]
  /\ posted \subseteq Intents
  /\ queue \subseteq Jobs
  /\ sent \subseteq Jobs
  /\ call \in [Callers -> Calls]
  /\ scenario \in Scenarios

\* Nothing takes the money back, charges a card again or starts a second
\* checkout, or one beside an auction: what is left to disturb a settled payment
\* is repetition, abandoned checkouts, crashes and lost answers.
Started == {i \in Checkouts : stripe[i].state # "none"}

Undisturbed ==
  /\ scenario \cap {"declines", "refunds", "retry"} = {}
  /\ Cardinality(Started) <= 1
  /\ Started # {} => "auction" \notin scenario

\* A payment is PAID only when Stripe has captured some intent of the listing.
PaidMeansCaptured ==
  pay.status = "PAID" => \E i \in Intents : stripe[i].state = "succeeded"

\* Only an intent whose captured amount agrees with its quote reaches the
\* ledger, and a settlement is only ever created by such a booking.
BookedMeansReconciled ==
  /\ \A i \in Intents : charges[i] > 0 => Reconciles(i)
  /\ settlement # NoIntent => charges[settlement] > 0

\* Two success events, a browser's confirmation, redeliveries of each: one
\* intent's charge is booked once.
BookedOnce ==
  Undisturbed => \A i \in Intents : charges[i] <= 1

\* The same without its proviso: "Safe to run twice", whatever else happens.
AlwaysBookedOnce ==
  \A i \in Intents : charges[i] <= 1

\* A paid payment stays paid, however late a recovery, an expiry or a
\* repetition comes.
PaidStaysPaid ==
  [][Undisturbed' /\ pay.status = "PAID" => pay'.status = "PAID"]_vars

\* A row already marked PAID is never overwritten by another checkout.
NeverPendingAgain ==
  [][pay.status = "PAID" => pay'.status # "PENDING"]_vars

\* A paid order never exists without a settlement: not even when everything
\* Stripe and the main server had to say has been handled to the end.
PaidHasSettlement ==
  pay.status = "PAID" /\ queue = {} /\ (\A c \in Callers : Free(c))
  => settlement # NoIntent

\* What Stripe captured for the only intent of a listing is booked in the end,
\* from either event or the confirmation: whatever failures, cancellations and
\* full refunds are reported before, after or in between, and whoever dies.  (A
\* partial refund marks the payment PAID and can hide an unbooked capture.)
CapturedIsBooked ==
  \A i \in Checkouts :
    stripe[i].state = "succeeded" ~>
      \/ charges[i] > 0
      \/ refunded[i] = "partial"
      \/ \E j \in Intents \ {i} : stripe[j].state # "none"
===============================================================================
