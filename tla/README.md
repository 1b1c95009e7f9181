# A verification of the TradeAuct transaction server

The transaction server takes buyers' money through Stripe, holds the seller's share while the item is on its way,
and pays it out. This directory holds TLA+ models of the two state machines at its heart, of the money that goes with them,
of the pipeline that brings Stripe's events in and the announcements out, and of what stands around them (idempotency keys,
background jobs, the sellers' accounts, reconciliation, prices); the TLC configurations that check small instances of them; and
TLAPS proofs for every number of workers, disputes, requests and relays. All paths below are in the repository; `modules/`
stands for `src/src/modules/`.

## 1. The system

Two Postgres rows carry a sale: the **Payment** of a listing (`listingId` is unique) and the **SellerSettlement** of a
payment (`paymentId` is unique). Everything else either moves one of them or records what was done to it. Postgres runs
at its default isolation (READ COMMITTED) and no query takes a row lock, so what protects a row is the condition of
each `UPDATE ... WHERE` and the unique keys.

Several executors act on one row at the same time: the settlement worker (4 jobs at once), the Stripe event worker (5,
with 5 attempts), the command worker (3), the recovery sweep and the HTTP routes. Jobs are redelivered when a process
dies. They arrive in any order: two Stripe events of one intent, or an event and a command of the main server, are
not ordered by anything.

| Component | State | Operations | Talks to | What is hard | What makes it correct |
|---|---|---|---|---|---|
| Checkout (`checkout/`) | Payment PENDING, Stripe intents and sessions | createPaymentIntent, createCheckoutSession, confirmPayment | Stripe, finalization | check, then upsert; several tabs | a PAID payment is never overwritten |
| Charges and recovery (`charges/`) | Payment, PaymentAttempt | chargeAuctionWinner, recordAttempt, openRecovery, retryPayment, sweep | Stripe, finalization, outbox | lost answers, crashes, success event racing the caller, retry counter | a paid payment stays paid; retries are bounded; a paid order has a settlement |
| Payment finalization (`payments/payments.finalize.service.ts`) | Payment, PaymentAttempt, ledger | settlePaidIntent, quarantine, recordFailure | settlements, ledger, outbox | two success signals; a row that does not exist yet; late failures | booked exactly once, only what reconciles, and eventually |
| Settlements (`settlements/`) | SellerSettlement | create, delivery, release, receipt, freeze, unfreeze, cancel, adjust | every other service through `transitionSettlement` | reads before the claim; long sequences | never released before its window or under a dispute; terminal states |
| Payouts (`payouts/`) | SellerSettlement, PayoutTransfer, Recovery | transferSettlement, recordManualPayout, attributePayout, recordPayoutFailure | Stripe Connect, ledger | two workers, timeouts, manual payouts | paid at most once, and recorded |
| Disputes (`disputes/`) | StripeDispute, SellerSettlement | card disputes, returns, buyer cases | settlements, refunds | overlapping disputes and cases, order of events, a settlement not linked to its order yet | an open dispute stops the money |
| Refunds (`refunds/`) | Refund, Recovery, Payment | createRefund, applyRefundToSettlement, recordStripeRefundEvent, recoverFromSeller | Stripe, settlements, ledger | refund while a transfer is in flight or after it failed; applied twice or never | a refund reaches the settlement, or nothing is paid any more |
| Webhook gateway (`gateway/`) | StripeEventLog, queue | ingest, handlers | all of the above | crash between recording and queueing; handlers that throw after their commit | each event handled; again only after a failure |
| Command worker (`commands/`) | queue | charge winner, delivery, cancel, return and case, link, shipping | charges, settlements, disputes | fixed job ids | each command takes effect whatever the settlement's state |
| Settlement worker (`settlements/settlement.worker.ts`) | queue, repeatables | scans, release, transfer, reconcile, cleanup | settlements, payouts | retained job ids | every candidate is retried |
| Outbox (`src/src/core/outbox.ts`) | OutboxEvent | enqueue, relay | main server | crash in the relay, attempt limit | at least once |
| Idempotency (`src/src/core/idempotency.ts`) | IdempotencyKey | claim, take over, store, release | HTTP routes | abandoned claims, slow owners | one effect per key |
| Ledger (`ledger/`) | LedgerTransaction, LedgerEntry | postTransaction | all money movements | uniqueness is left to callers | balanced, once per reference, in step with the rows |
| Reconciliation (`reconciliation/`) | ReconciliationException, outbox | runReconciliation, raise, autoResolve, admins' resolve | settlements, ledger, Stripe | a pass beside another and beside admins; dying between raising and announcing | what disagrees for good is reported, what agrees is closed |
| Connect accounts (`connect/`) | ConnectAccount (a copy), Stripe's account | create, link, refresh, sync, licence | Stripe, payouts | events out of order, two tabs, keys that expire | the copy catches up; a ready seller is paid |
| Fees (`fees/`, `core/money.ts`) | PLATFORM_FEE_ENGINE_CONFIG, snapshots of listings | update the matrix, resolve a listing's rule, snapshot | quotes, settlements | two administrators, failed reads, matrix changed between quote and settlement | both sides of an order under one rule |
| Quotes and rates (`quote/`) | ShippingRate | seeding, buildOrderQuote, rates kept by administrators | fees, checkout | two requests that seed at once | parts add up to the total; a complete table |
| Settings, cards, reads, routes, authentication, plumbing | configuration and mirrors | see PROJECT.json | | | |

How they interact: a checkout or a winner's charge creates a PaymentIntent at Stripe and names it in the Payment row;
Stripe's event, the browser's confirmation or the charge itself calls `settlePaidIntent`, which in one transaction
claims the Payment, posts the CHARGE and creates the settlement. The main server's commands (delivery, cancellation,
returns, cases, and the link to its own order, without which it does not find the settlement) and Stripe's events (disputes, refunds, payouts) then move the settlement. The settlement worker releases it
once the protection window is over and transfers the money.

## 2. The plan

Ordered by what a mistake costs.

1. **Settlement** (done): `SettlementTypes`, `Settlement`, the abstract `SettlementLifecycle`, proofs in
   `SettlementProofs`.
2. **Payments** (done): `Payments`.
3. **Payout money** (done): `SellerMoney`, with amounts: offsets, SELLER_PAYABLE postings, partial refunds and
   `computeSettlementImpact`, `recoverFromSeller`, `adjustSettlement`, the order of `payout.paid`.
4. **Intake** (done): `StripeIntake`, `Outbox` and `EventPipeline`, which composes them.
5. **Around the services** (done): `Idempotency` (one effect per key); `ConnectMirror`, `SettlementJobs` and `Reconciliation`, composed
   by `AutomaticPayouts`; `FeeMatrix` and `ShippingRates`, composed by `OrderPricing`.
6. **Proofs**: every safety property that the passing runs check has a theorem. Left: the books of SellerMoney for
   several callers, under a condition weaker than one at a time; that `ConnectMirror` and `Reconciliation` keep to
   abstract specifications of their own.
7. **Left to model**: an abstract seller's account refined by SellerMoney, and its lost disputes handled again after a crash; a settings
   read that fails in `SettlementJobs`; the legacy `recordRefund`.

## 3. The modules

### SettlementTypes, Settlement

`SettlementTypes` is `settlement.types.ts` as data: the eleven statuses that are ever written and `ALLOWED_TRANSITIONS`.
`Settlement` is one settlement and everyone who moves it.

| Variable | Code |
|---|---|
| `row` | `settlementStatus`, whether `deliveredAt`, `receiptConfirmedAt` and `fulfillmentOrderId` (`linked`) are set, `frozenReason` |
| `windowOver` | the clock has passed `eligibleAt` |
| `transferRow`, `atStripe` | the PayoutTransfer row (unique `settlementId`); whether Stripe holds a transfer under its key |
| `refund`, `clawedBack` | the full refund of the payment; `recoverFromSeller` ran |
| `bank`, `disputeRow` | each card dispute as the bank sees it and as StripeDispute has it |
| `issue` | the main server's returns and dispute cases |
| `queue`, `sent` | jobs waiting; jobs ever queued (fixed job ids: a second `add` is ignored) |
| `call` | per executor, which step of which operation comes next, and what it remembers from its reads |

An operation of the code that reads and then writes is several actions here, one for each transaction or call to
Stripe, and `call` carries what was read. All of them end in `transitionSettlement`, which is two actions:
`TransitionRead` (the row must exist and the move be legal) and `TransitionClaim` (`UPDATE ... WHERE status IN from`).
The claim's own effects (timestamps, the reason of a freeze, the side rows written in the same transaction) are in
`Commit`, `Claimed` and `SideRow`. `LinkFulfillmentOrder` is what lets the commands that name the main server's order (returns, cases,
cancellations) find the settlement, and the evaluation of a release see its case; a delivery names the payment and needs no
link. `MaxEvents` bounds the events and commands of a behaviour. `Crash` loses a call in the middle and puts its job back. Abstracted: amounts (a refund
is full, the recovery offset is "none" or "everything"), the identity of who acts, audit entries and outbox events.

### SettlementLifecycle

What the settlement promises with no callers, queues or disputes in sight: held, released only once the window is
served, sent at most once, then paid; or written off while no money is out. `Settlement` implements it under the
mapping `Phase` (DISPUTED, FROZEN, PENDING and ON_HOLD are *held*; ELIGIBLE and TRANSFER_FAILED are *released*, and so on).

### Payments

One listing's Payment and every intent that may be raised for it.

| Variable | Code |
|---|---|
| `pay` | the Payment row: status, `stripePaymentIntentId`, `gatewayTransactionId`, recovery status, attempt count, window |
| `attempts` | PaymentAttempt rows as number and idempotency key, both unique |
| `charges`, `settlement` | CHARGE postings per intent (2 stands for more); whose booking created the settlement |
| `stripe` | the state of each intent and the answer its create call got (Stripe repeats it for a repeated key) |
| `refunded`, `posted` | refunds made in Stripe's dashboard; those posted |
| `queue`, `sent`, `call` | as above |
| `scenario` | which disturbances this behaviour has: chosen at the start, never changed |

`SettleRead` is the retrieve, the pre-check and the comparison of amounts; `SettleClaim` the conditional update with the
rest of its transaction; `SettleCreate` the path without a row, where the unique `listingId` decides. An amount is
abstracted to what control asks of it: whether what was captured equals the breakdown in the metadata. The intents of
`retryPayment` carry no breakdown (charges.service.ts:365-382), so theirs never does. `RecordAttempt` fails as a whole when
an attempt number is taken, as the unique key makes its transaction do, and so does `OpenRecovery`.

### StripeIntake

The webhook endpoint, its queue and its worker, for any set of events. A request and a worker run the same
`processStoredStripeEvent`, so both are executors with a place in `call`.

| Variable | Code |
|---|---|
| `log` | status of the StripeEventLog row, whose `eventId` is unique |
| `job`, `tries` | the BullMQ job under the event's id, and its failed attempts |
| `delivered`, `answered` | Stripe's deliveries, and the events it got a 200 for |
| `handled`, `late` | how often a handler's transaction committed; how often a handler threw after that |
| `call`, `crashes` | what each request and worker does; how many died |
| `scenario` | what may happen in this behaviour: dying requests or workers, failing handlers, Redis refusing, no queue (`inline`), an event without a handler, one whose handler leaves it alone |

`Lookup` and `Record` are the query and the insert of `recordIncomingEvent`; `Enqueue` is `queue.add`, or the inline path of a
process without a queue; `Load`, `Mark`, the handler (`Commits`, `Declines`, `Throws`) and the write of the outcome are separate
steps. `Crash` ends a request for good and puts a worker's job back. What a handler does is in Settlement and Payments; here it
commits (`Commits`), and then returns (`Completes`) or throws: the work after the transaction (a dispute's or a refund's effect on
the settlement) can fail when the transaction is done. A run that comes back may find its change made and return at once, as
`settlePaidIntent` does, or commit again, as `handleDisputeCreated` does. BullMQ fails a job at its second stall, which is the
other outcome of `Crash`.

### Outbox

`Outbox` is the table and any number of `relayOutboxOnce` at once: the timer does not wait for the previous run. A row is its
number in the order of `createdAt`. `Insert` belongs to somebody's transaction; `Poll` is the query, `Add` and `MarkPublished` the two calls
for the current row of the batch, `RecordError` the catch clause, whose own failure ends the run. A row may be added again by a
second relay, or after the main server has finished and removed its job; the id of the job is how the main server knows it.

### EventPipeline

Both modules, sharing one step: `HandleEvent` is the intake's commit and the outbox's insert in one transaction. A handler that
commits again announces again, in a row of its own (`announcing` collects the rows of an event); only one that looks first, and
returns, does not. Other services insert rows of their own.

### Idempotency

One key of one scope and any number of requests that send it.

| Variable | Code |
|---|---|
| `row`, `age` | the IdempotencyKey row, and the time since its `lockedAt` |
| `current` | the requests whose copy of `lockedAt` is still the row's: what the takeover's `updateMany` compares |
| `req` | where each request is, what it asked for, what its client was answered |
| `effects`, `slips` | the requests whose work took effect; the failures that the gate cannot see |

`Lookup`, `Create` and `TakeOver` are the steps of the claim; `Work`, `Fail` and `Succeed` the handler and its answer; `Store`, `Release`
and `NotRecorded` what happens after the answer. `row.owner` is who claimed last: the program does not keep it, which is why
storing and releasing find whatever row there is. Abstracted: the hash of a body is the body; the TTL is an hourly
cleanup that may come at any time and counts as a failure.

### SellerMoney

Several settlements of one seller, in amounts. `Settlement` says who may move a settlement and when; here PENDING and ON_HOLD stand for
every status that keeps the money, and the question is whether the rows, the ledger and Stripe tell the same story.

| Variable | Code |
|---|---|
| `settlement`, `payout`, `recoveries` | SellerSettlement (status, net, method), PayoutTransfer, SettlementRecovery |
| `refund`, `mirrored`, `posted` | Refund rows of `createRefund`, rows an event made, refunds posted to the ledger |
| `payable`, `recoverable` | SELLER_PAYABLE by settlement and SELLER_RECOVERABLE |
| `stripe`, `events` | transfers, reversals, refunds and bank payouts at Stripe; events not handled yet |
| `call`, `used`, `scenario` | what each execution is in the middle of; the bounds; the environment |

Each transaction and each call to Stripe is a step, with a place to die before it. Amounts are whole minor units, with the
rounding of the code. Money that the bank has returned is in the connected account and can be taken back. A dispute is lost
and read by its handler in one step, and a bank payout carries the money of one sale. The minimum payout amount is taken for met. Of the ledger, the two accounts with the
seller's name are kept; `postTransaction` refuses a posting whose sides differ, so the platform's side is implied.

### ConnectMirror, SettlementJobs, Reconciliation, AutomaticPayouts

`ConnectMirror` is the seller's account at Stripe (`accounts`, `keys`) and the copy of it (`row`) that decides whether the seller is paid:
what the last handler to commit was told (`notices` are the `account.updated` events on their way, `tab` the requests in progress).
`SettlementJobs` is the two scans and the jobs they queue (`job`, under ids that BullMQ keeps when a job has ended; `attempts`),
the workers and an administrator's forced transfer (`worker`), the two gates (`switches`, `envOn`) and who paid (`sentBy`). `Restart` is
a deployment with the other value of the flag: the queue is in Redis and keeps its jobs. A worker that dies leaves its job to
another, and the second time (`stalled`) BullMQ fails it. A release is one
step here, and what may race with a claim is Settlement's subject. `Reconciliation` is any number of passes at once
(`pass`), each check a read and what follows from it (`AutoResolve` or `Raise`, a step later), the exceptions they raise, reopen and close (`exception`), the announcements and
the administrators; whether the records of a check disagree is a parameter. `AutomaticPayouts` joins the three: the
accounts decide `payoutReady`, the settlements stuck in TRANSFER_PENDING are what one check finds (`age` is the time
since the claim: new, within the 48 hours the check looks back, older), the other checks' books go wrong and right on their
own (`books`).

### FeeMatrix, ShippingRates, OrderPricing

`FeeMatrix` is the configuration as administrators keep it (`feeRow`, `admin`: a read, a merge and a write with nothing between them that
would notice another change), the rule a listing falls under and its snapshot. `ShippingRates` is the table of rates (`rates`), its seeding
(`seeding`: a count and then one insert at a time, in no transaction) and the changes to it. `OrderPricing` composes them: `order` is
the quote of each buyer (`buildOrderQuote`: the rate, then the fees), the charge and the settlement, each reading the
`listing` and the configuration when it runs; who pays for the shipping is read for the quote (`payer`) and again for the settlement
(`borneBy`). Rates are in percent and amounts in fils. A listing that can be
bought has its snapshot already, or never gets one: it is one from before the engine. Storage, insurance and
customs are left out; they are numbers added to the total.

Definitions whose names end in words like `Anyway`, `NoWindow` or `Unlimited` and whose comment says *Mutant* are deliberately
broken variants of the definition that follows them. No specification uses them: they are there to show that the
property of a run notices when the code is changed in that way (the list is in PROJECT.json).

## 4. The runs

`tlc -config X.cfg M.tla`, where `M` is one of `MCSettlement`, `MCPayments`, `MCPipeline`, `MCIdempotency`, `MCSellerMoney`,
`MCAutomaticPayouts` and `MCOrderPricing`. All of them switch the deadlock check off: the environments issue each event a
bounded number of times, so every behaviour ends when the last one has been handled.

| Run | Instance | Checks | States |
|---|---|---|---|
| SettlementTroubles | 1 caller, 2 disputes, 6 events and commands, early release on | TypeOK, RefundReachesSettlement, DeliveredLeavesPending, DisputeStopsMoney, CaseStopsRelease | 1.3 million |
| SettlementRaces | 2 callers, 1 dispute, 9 events and commands, symmetric | PaidOnlyAfterWindow, OneTransferInFlight, NeverPaidTwice, TerminalForever, ImplementsLifecycle | 1.6 million |
| PaymentSignals | 2 callers, 1 checkout of each kind, limit of 1 retry, 6 scenarios | TypeOK, PaidMeansCaptured, BookedMeansReconciled, BookedOnce, PaidStaysPaid | 0.73 million |
| PaymentBooked | 2 callers, 1 checkout, fair | CapturedIsBooked | 29 thousand |
| EventPipeline | 1 event, 2 requests, 2 deliveries, 1 worker, 2 relays, 1 death of each, 5 scenarios, fair | TypeOK, HandledOncePerFailure, PublishedMeansQueued, ProcessedForGood, AnsweredIsAnnounced | 0.55 million |
| IdempotentRequests | 3 requests, 2 bodies, lease of 1 tick, 2 failures the gate cannot see, fair | TypeOK, OneEffect, ReplaysTheWork, Served | 0.11 million |
| SellerMoney | 1 caller, 2 sales at 4, fee 25 %, parts of 2, changes of 1, 2 refunds, 1 change, 1 crash, 6 scenarios, symmetric | TypeOK, PayableIsNet, RecoverableIsDebt, SellerPaidNetLessDebt, PaidOutReachedBank | 0.11 million |
| AutomaticPayouts | 2 tabs, 1 sale, 1 worker and an administrator, 2 passes, 2 attempts, 2 flips or restarts, 4 scenarios, fair | TypeOK, OffMeansNotAutomatic, MirrorCatchesUp, PaidOrReported, ExceptionsFollowTheBooks | 0.41 million |
| OrderPricing | 2 administrators, 2 callers, 4 kinds of listing, prices 0 and 55, VAT 5 %, 2 updates, 1 crash; fees and prices, the payer of the shipping and prices, or rates change | TypeOK, BothSidesUnderOneRule, VersionNamesOneMatrix, DefaultsComplete | 1.4 million |

**Bounds.** Two callers are enough for every race between a read and a write of somebody else; with one caller the
run still has every order in which whole operations follow each other, which is what the ordering properties are about.
The four statements DisputeStopsMoney, CaseStopsRelease, RefundReachesSettlement and DeliveredLeavesPending are
promised between operations: they are checked (and proved) with one caller, and DeliveryLost shows one of them failing with two. They
say nothing of the four jobs the settlement worker runs at once, nor of a dispute that lands between the evaluation of a
release and its claim. Two disputes let one be won while the other is open. Six events and commands are a link, a delivery, a case or
two disputes, and a payout or a refund; in SettlementRaces nine are more than the operations there issue. One retry (`MaxAttempts` is 1, 5 in the code) already lets the limit be
passed by two concurrent requests; TypeOK allows for that one. The scenarios of Payments cut the product of unrelated
disturbances; each holds the things that can meet on one listing. `MaxCheckouts` bounds the tabs a buyer opens. In the pipeline
two requests cover the race for the unique key, two tries (5 in the code) a retry and the end of retrying, and two relays with a
batch of one (50) cover every overlap on a row, because a batch is worked off row by row; one row of another service competes
with the event's. One call of Redis or Postgres fails and a row has two attempts (20), so rows are retried but not given up
within these bounds; AnsweredIsAnnounced names giving up as its exception. A worker dies in one environment and a handler throws,
before or after its commit, in two others: death and throw in one behaviour, and a job that stalls twice, are beyond the run and
within the proof.

Of three requests under one key, one can be replaced, one replace it and one find what they left; a lease of one tick is either over
or not. In SellerMoney a price of 4 with a quarter for the platform is a net of 3, and half of it refunded leaves a net that needs
rounding; two sales let a debt of one be held back from the other, two refunds let a partial one follow another. In
AutomaticPayouts the seller onboards in two stages, in two tabs; a job has two attempts, two calls fail and each switch is
thrown, or the process restarted with the other flag, so a job is retried, may use up its attempts, and may have been queued
before the flag went off. Accounts, jobs and passes have scenarios of their own because they only
meet in `payoutReady` and `status`; NotRetried joins the first two. A matrix is read, merged and written by two administrators,
one after the other or overlapping; the price of 55 fils at rates below ten needs rounding, and 0 is the listing without a price.

**The provisos.** `Undisturbed`, in BookedOnce and PaidStaysPaid, leaves out declines, refunds, retries and a
second checkout, or one beside an auction's charge: with them the statements are false, as PaidOverwritten and BookedAgain
show. What remains is repetition, redelivery, abandonment, winner charges, crashes and lost answers. CapturedIsBooked speaks of listings with one intent and
excepts partial refunds, which mark the payment PAID before it is booked (refund.service.ts:629-632). OneEffect counts the failures
the gate cannot see instead of excluding them: each pays for one more effect. PayableIsNet excepts CANCELLED, for which the
code posts nothing. SellerMoney's run has one executor; with two the statements about its books are false: a refund or an adjustment between the
read and the write of a write-off leaves a posting of the old net, two transfers count one debt twice, and a settlement paid by its
debt alone credits the recoveries though its transition was refused. RefundReachesSettlement excepts a settlement whose transfer was tried and is unfinished or
failed, where the code refuses the refund (RefundRefused); it then asks that it is not eligible or paid any more. CaseStopsRelease speaks
of settlements that are linked to their order when they are released (CaseUnlinked). BothSidesUnderOneRule excepts shipping that
was moved to the seller between quote and settlement (ShippingTwice). MirrorCatchesUp speaks of behaviours whose events
are handled in order (`orderly`); PaidOrReported of a ready seller with the engineers' flag and both switches on and
no case or dispute, and accepts a job that failed for good before it claimed anything. VersionNamesOneMatrix and DefaultsComplete speak of `calm` behaviours: administrators take turns and no read fails; nobody
dies or edits rates while they are seeded. Each of these is a behaviour chosen at the start beside the others, so
the run shows the other properties without them.

**Fairness.** In `Settlement`, a call that has started goes on (`WF` of its next step) and transfer jobs are attempted for as long
as they would do something: the scan queues them every five minutes. In `Payments`, a worker that took a job goes on,
workers keep taking jobs (strong fairness, because requests may occupy the same executor in between: BullMQ keeps a job until
somebody takes it), and processes do not die for ever. In `EventPipeline`, requests and workers go on with what they began,
workers take waiting jobs and the relay's one-second timer keeps firing; Stripe need not deliver again. In `Idempotency` the clock
ticks and a request that lives goes on. In `AutomaticPayouts` Stripe delivers events until they are handled, scans and passes
are repeatable jobs, BullMQ hands every waiting job to a worker, and time passes for a claimed transfer: the hourly
pass comes while it is within the 48 hours that the check looks back. No fairness is assumed of
buyers, sellers, banks or administrators.

## 5. Where the code departs from what it says

Three runs end in a counterexample to a sentence of the repository's own comments.

| Run | The sentence | What happens |
|---|---|---|
| AuctionUnsettled | a paid order can never exist without a settlement (settlement.service.ts:224-225) | the winner's payment is marked PAID first, and settling takes it for done |
| ClawedBackTwice | never claw back more than actually went out (refund.service.ts:382) | a partial refund after the payout is recovered by the request and again by its event |
| NotRetried | a seller who is not ready is retried once the account is (payout.service.ts:195-196) | the job that found nothing to do is completed and keeps its id; the scan's next `add` is ignored |

The other configurations can be run in the same way and end in a counterexample too:

| Configuration | The sentence | What happens |
|---|---|---|
| DeliveryLost (`MCSettlement`) | an unfreeze never sends a delivered settlement back to PENDING (settlement.service.ts:705-715) | it read the row before the delivery was recorded |
| ReturnOverlooked (`MCSettlement`) | returns and disputes both stop the money (dispute.service.ts:13-14) | a return opened during a card dispute, or before the settlement is linked to its order, leaves no trace |
| CaseUnlinked (`MCSettlement`) | a dispute that opened in between must still stop a release (settlement.service.ts:567-568) | the case finds no settlement, because the command that links it has not run |
| RefundRefused (`MCSettlement`) | a refund still has to reach the seller's settlement (refund.service.ts:645-646) | no step leads from TRANSFER_FAILED or TRANSFER_PENDING to REFUNDED, and the refusal is not looked at |
| TransferStuck (`MCSettlement`) | the retried job sends again with the same key (payout.service.ts:405-407) | it skips everything that is not ELIGIBLE, so TRANSFER_PENDING is for ever |
| EventDropped (`MCPipeline`) | an event whose handler fails without a queue is retried by Stripe (stripeWebhook.service.ts:129-130), never silently dropped (stripeWebhook.worker.ts:58-59) | the retry finds the row, is a duplicate and gets a 200 |
| PaidOverwritten (`MCPayments`) | a PAID row is never overwritten (checkout.service.ts:46-48) | check and upsert are two queries |
| BookedAgain (`MCPayments`) | settling is safe to run twice (payments.finalize.service.ts:99) | a late failure event resets PAID in between |
| FlagPassed (`MCAutomaticPayouts`) | a forced transfer does not bypass the engineers' flag (settlement.routes.ts:594-596) | `force` skips the check of both gates |
| SeededBeforePricing (`MCOrderPricing`) | the default rates exist before a destination is priced (shippingRate.service.ts:111) | a second quote finds the first few and goes on |
| ShippingTwice (`MCOrderPricing`) | what the commission leaves in SELLER_PAYABLE is the settlement's net (settlement.service.ts:323-325) | the net also loses the shipping the buyer has paid, when it was moved to the seller after the quote |
| NeverUnderTwoRules (`MCOrderPricing`) | never a buyer under one rule and a seller under another (feeEngine.service.ts:459-461, fees.routes.ts:117) | without a snapshot, quote and settlement each look the rule up |

PROJECT.json quotes each of them. It also lists what was found by reading while the models were written:

* a cancellation sets the net to 0 and posts nothing, so SELLER_PAYABLE keeps it (txnCommands.worker.ts:163);
* of two partial refunds of one amount the second does not touch the seller's share (refund.service.ts:76);
* a refund event whose handler dies between its two transactions is never applied (refund.service.ts:592), and a refund whose
  answer was lost is FAILED and can be made again (refund.service.ts:188);
* PAYOUT_STATUS_DRIFT is never raised, and a stuck transfer's exception is never closed (reconciliation.service.ts:259);
* no reconciler refreshes the copy of an account (connect.service.ts:505);
* a bounced payout stays PAID_OUT (payout.service.ts:720);
* a failed read of the settlement settings answers the defaults, with automatic settlement on (settlementConfig.service.ts:87).

Some things no sentence of the repository promises, and the models have them: two administrators lose each other's fee changes or
give two matrices one version, and an update after a failed read resets the matrix; deleting the last shipping rate seeds them
again, and a default country created by hand during the seeding, or a crash, stops it half way; a pass that dies between raising
and announcing never announces, and two passes announce twice; without a list of a payout's transactions every outstanding
transfer of the seller is marked as paid out.

## 6. What is proved

`SettlementProofs` proves, for any sets of callers, disputes and operations and either value of `EarlyRelease`:

* `Invariance`: `Spec => []IInv`, with `TypeCorrectness`, `ReleaseSafety`, `TransferExclusion` and `SinglePayment` as consequences
  (TypeOK, PaidOnlyAfterWindow, OneTransferInFlight, NeverPaidTwice);
* `TerminalStates`: PAID_OUT, REFUNDED and CANCELLED are never left;
* `Refinement`: `Settlement` implements `SettlementLifecycle`.

The assumptions on the constants are that `EarlyRelease` is a Boolean and `MaxEvents` a number. Under the further hypothesis
`OneAtATime`, that there is one caller, and for every set of operations and disputes, it proves
DeliveredLeavesPending (`NotLeftPending`), DisputeStopsMoney (`DisputesStopMoney`) and CaseStopsRelease (`CasesStopReleases`), and,
for operations without crashes, RefundReachesSettlement (`RefundsArrive`): a crash between its two
transactions loses a refund that was recorded and not yet applied. These four, and the theorems under `OneAtATime` below, are about
operations that follow each other. The workers run several at once, and with two callers the statements are false; what holds
however they interleave is in the first list.

`PaymentsProofs` proves TypeOK, PaidMeansCaptured, BookedMeansReconciled, BookedOnce and PaidStaysPaid, for any sets of callers
and scenarios, any number of checkouts and any retry limit of at least one. `AutomaticPayoutsProofs` proves TypeOK and
OffMeansNotAutomatic (`FlagHolds`: after a restart with the flag off, too) for any sets of settlements, workers, tabs, passes and scenarios and any limits, assuming that a job has at
least one attempt, that the administrator is no worker and that "none" is no settlement's name.

`SellerMoneyProofs` proves TypeOK (`TypeCorrectness`) and PaidOutReachedBank (`ReachedBank`) for any number of callers, any finite
set of settlements, any prices, rates and limits and every environment, and under `OneAtATime`, with any crashes and
events in any order, that the books agree (`BooksAgree`): PayableIsNet, RecoverableIsDebt and SellerPaidNetLessDebt, for any number
of settlements and recoveries. It assumes what the code's schemas and types say: a positive price no higher than
the total, a commission between 0 and 100 percent, partial refunds within the total, whole adjustments.

`EventPipelineProofs` proves PublishedMeansQueued, for any number of relays, any
batch size and any limits. `StripeIntakeProofs` proves TypeOK, HandledOncePerFailure and ProcessedForGood, for any number of events,
requests, workers, deliveries, tries and crashes, assuming that a job has at least one try and that requests and workers are
different. `EventPipelineProofs` then proves that every behaviour of the composition is one of each part, so that all of
these hold of it as well.

**The settlement's inductive invariant.** The safety properties are not inductive: they speak of the row, while what keeps them true
is what a caller in the middle of an operation is about to do. IInv adds, for each caller, `CallShape` (the target of a pending
transition is the one its operation asks for), `ReleaseServed` (a caller about to claim a release saw the window
served; windows do not run backwards) and `TransferShape` (a caller past the transfer claim is at a known place), and for
the money `MoneyShape` (which PayoutTransfer rows and Stripe transfers go with which status).

**The settlement's argument.** Most steps touch one caller and nothing the others rely on: `OneCallerSteps` reduces such a step to the
caller that moved, and `CalmSteps` covers every action that leaves row and money to `Harmless` changes. `BystandersAreCalm` lists
them. `Claims` collects what the `from` lists and targets guarantee at the moment of a claim. What is left is one lemma for each
action that moves the row or the money. For the refinement, `QuietIsLifecycle` shows that a step that keeps status and money is a
stutter or serves the window, and `WonClaimIsLifecycle` and `CreateTransferIsLifecycle` map the remaining ones.

**The argument between operations.** With one caller a read is still true when it is used. `SInv` says what a caller in the
middle of an operation knows: a claim it is about to make is still legal, what an unfreeze restores to PENDING has not been
delivered, a release of a linked settlement saw no open dispute or case, and an opened dispute or case is recorded or its job still on its way. `RInv` adds
that a refund that was recorded has been felt by the settlement (`Felt`), is being carried to it by the caller, or was refused
because a transfer had been tried (`Refused`). The last rests on what the PayoutTransfer row says of the status (`RowShape`), and on the
payment being refunded by then: no release passes its evaluation again, so none of the paying operations is under way (`MindShape`).

**The payment's argument.** What is announced has happened (`Announced`): an event, a job or a call about an intent that
succeeded exists only after Stripe captured it, and Stripe never takes a state back. With that, PaidMeansCaptured and
BookedMeansReconciled need only the shape of what each call carries. BookedOnce and PaidStaysPaid speak of undisturbed
payments. There, one intent at most is in play or the winner's charges are; the PaymentAttempt rows are numbered without a gap, and
since the number is unique, a second charge of the winner finds its attempt's number taken; PAID means that the
number a charge would take is gone, and that a booked charge belongs to a PAID row.

**The argument of automatic payouts.** What Stripe ever said of an account is a history that only grows, so a row or a notice that
copied one of its states stays a true copy, in whatever order notices are handled. A job is active exactly while one worker
holds it, and failed only when its attempts are used up or it has stalled before. The flag's invariant (`FlagInv`) is that a worker
past the check of both gates works in a process that was started with the flag on: a restart finds no worker at work, and a job
that was queued before it meets the check again. Passes stay within the list of checks and write only known statuses.

**The seller's money.** `MInv` is what holds whoever interleaves. A refund that is being asked for is one caller's and its row does
not carry Stripe's id yet (`AskInv`), so a linked row agrees with Stripe; a transfer in flight is one caller's, and the row
says what Stripe was asked for (`PayInv`); what a caller or an event says was reversed is bounded by what was sent (`TakeInv`); what
is being attributed to a payout has reached the bank, or was guessed (`BankInv`). Each lemma `...Typed` says what an action
does; `CalmKeeps`, `CallGoesOn`, `AttributingKeeps` and `PayingKeeps` reduce the steps to the part they can disturb.

For the books, one at a time, `OneShape` says what a call that holds on to a net, an offset or a debt still knows: the
net it read is the settlement's, the offset is covered by the debt and makes up the net with the amount that is sent. Then each step
either leaves all sums alone (`QuietKeeps`, `OneChanges`), or is the payment of one net, part to the debt and part to the seller
(`PaidBooks`), or opens a debt (`OpenedBooks`). The sums need lemmas of their own: `SumFunction` of the community modules takes the
elements in an order it chooses, by a recursive function over subsets. `FixedExists` shows that this function exists and
`SumTakes` that the order does not matter; from there one element more, one function more and a changed function are algebra.
All are proved by taking a least counterexample (the library's `WFMin`), since its induction theorems cannot be used
here. `CreditsOfOldest` is the one about the code: crediting n from the oldest recovery on takes the smaller of n and what the first k
ask for, so in all exactly n if the debt covers it.

**The intake's argument.** An executor past `Record` is in charge of its event. The invariant says that an event has at most
one (`Alone`), what that one knows (`CallShape`: a request in charge means that there is no job, a worker that the job is
active, and until the outcome is written the row is not finished) and an account of the effects (`EffectShape`): each is paid for by
a late throw or a death, but for one, which is logged or belongs to an executor that is about to log it. `OwnSteps` reduces a step of the executor in charge to its own event and call;
`QuietSteps` covers the ones before and after. Then there is one lemma for each action: the executor that commits is alone, so the effect before it has been paid for.

**The outbox's argument.** A relay between adding a row and marking it has handed over the row it is at; nothing is ever taken
back from the queue, so this stays true whatever the other relays do.

`IdempotencyProofs` proves TypeOK, OneEffect and ReplaysTheWork for any finite set of requests, any bodies, any positive lease and
any number of failures. `OrderPricingProofs` proves TypeOK, BothSidesUnderOneRule, VersionNamesOneMatrix and DefaultsComplete for any
listings, prices and VAT rate, any number of buyers and administrators and any changes, assuming what the routes' schemas check
(rates between 0 and 100, amounts that are not negative) and that a listing starts without a snapshot.

**The key's argument.** OneEffect is a count, so its invariant is a budget: the effects so far, the requests that are at work
or about to release, and one more if the key can be claimed, never exceed one and the failures so far. `Abandoned` claims are what
makes this delicate: a takeover needs a claimant
that died, before its effect (nothing was spent) or after it (a failure counted), or one past its lease (counted too). The shapes say
whose copy of `lockedAt` can still match, which is what lets at most one takeover through.

**The prices' argument.** BothSidesUnderOneRule rests on `UnderShown`: a snapshot a listing carries is taken while nobody has a
quote and never rewritten, so whatever has been resolved since is that snapshot; a quote for which the seller pays the shipping
charges none (`FreeWhenSellerPays`), so only a payer who was changed leaves the settlement something to deduct; the rest is
arithmetic on the two sums. For
VersionNamesOneMatrix, `TurnShape` says that a calm administrator's pending change is the row's successor, and `VersionShape` that a snapshot
of the row's version was taken from the matrix now in the row. For DefaultsComplete, `SeedShape` says that the table holds
exactly the prefix the one request seeding has got to.

**Only model-checked.** Liveness under fairness and ENABLED are out of the prover's reach, so CapturedIsBooked, Served,
MirrorCatchesUp, PaidOrReported, ExceptionsFollowTheBooks, AnsweredIsAnnounced and TransferComesToAnEnd stay with TLC.

## 7. What is not modelled

* The legacy `recordRefund`; the handlers of withdrawn and reinstated dispute funds, which write a timestamp and post nothing.
* In SellerMoney: a lost dispute whose handler dies and runs again, payouts that are not paid yet, one bank payout for several
  sales (but for the guess when its list is empty), and shipping deducted from the net, which is in OrderPricing.
* The platform's own ledger accounts: `postTransaction` refuses a posting whose sides differ, and the seller's two accounts are kept.
* A read of the settlement settings that fails, which is among the findings; the durations and the least payout amount.
* Storage, insurance and customs options: numbers added to the total.
* Saved cards and buyers: copies of Stripe's; Payments only asks whether the winner has a card.
* Reads, routes, authentication and plumbing: they keep no state that an operation above depends on, beyond the choices the
  models already make for them. Logging and audit entries are left out throughout.
* The amounts of Settlement and Payments: Settlement's are in SellerMoney, and Payments asks only whether what was captured is
  what was quoted.

PROJECT.json lists every component and, under hazards, what in this code is hard to test and which property looks at it.
