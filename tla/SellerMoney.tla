----------------------------- MODULE SellerMoney -----------------------------
(***************************************************************************)
(* What one seller is owed, paid and asked back, in amounts.               *)
(*                                                                         *)
(* Settlement follows one settlement through its statuses; this module     *)
(* follows the money of several settlements of one seller through the      *)
(* settlement rows, the PayoutTransfer and Refund rows, the recoveries the *)
(* seller owes, the ledger and Stripe.  Every database transaction and     *)
(* every call to Stripe is a step; a handler may die between two of them,  *)
(* and Stripe's events are handled late, again, or out of order.           *)
(*                                                                         *)
(* PENDING and ON_HOLD stand for every status that keeps the money here    *)
(* (FROZEN and DISPUTED differ in who may leave them, which is Settlement's*)
(* subject).  Amounts are whole minor units.  Of the ledger, the two       *)
(* accounts that carry the seller's name are kept; postTransaction refuses *)
(* a posting whose other side is not equal.                                *)
(***************************************************************************)
EXTENDS Integers, Sequences, FiniteSets, Functions

CONSTANTS
  Callers,      \* concurrent executions: requests and workers
  Settlements,  \* settlements of the seller
  Price,        \* sale price of each
  Total,        \* what the buyer paid for each: price, buyer fee, shipping, VAT
  FeePercent,   \* the seller's commission in the fee snapshot
  Parts,        \* the amounts of partial refunds
  Changes,      \* the amounts of adjustments and of shipping costs
  MaxRefunds,   \* bound: refunds of one payment
  MaxChanges,   \* bound: adjustments and shipping costs in all
  MaxCrashes,   \* bound: handlers that die
  Scenarios     \* the environments considered: sets of things that may happen

ASSUME PriceAssumption == Price \in Nat \ {0} /\ Total \in Nat /\ Total >= Price
ASSUME FeeAssumption == FeePercent \in 0..100
ASSUME PartsAssumption == Parts \subseteq 1..Total
ASSUME ChangesAssumption == Changes \subseteq Int
ASSUME LimitsAssumption == {MaxRefunds, MaxChanges, MaxCrashes} \subseteq Nat
ASSUME SettlementsAssumption == IsFiniteSet(Settlements)

VARIABLES
  settlement,   \* the SellerSettlement rows: status, net, method
  payout,       \* the PayoutTransfer row of each settlement
  recoveries,   \* the seller's SettlementRecovery rows, oldest first
  refund,       \* the Refund rows of createRefund: status, amount, linked
  mirrored,     \* refunds for which an event created a row of its own
  posted,       \* refunds posted to the ledger
  payable,      \* SELLER_PAYABLE in the ledger, by settlement
  recoverable,  \* SELLER_RECOVERABLE in the ledger
  stripe,       \* Stripe: transfers, reversals, refunds, bank payouts
  events,       \* Stripe's events that are not handled yet
  call,         \* what each caller is in the middle of
  used,         \* changes made and crashes so far
  scenario      \* the environment of this behaviour

vars == <<settlement, payout, recoveries, refund, mirrored, posted, payable,
          recoverable, stripe, events, call, used, scenario>>
ledger == <<payable, recoverable>>
refundRows == <<refund, mirrored, posted>>

Refunds == Settlements \X (1..MaxRefunds)
NoRefund == <<"none", 0>>

\* Stripe's events: a refund with what the charge listed, a transfer with what
\* was reversed of it, a bank payout that was paid or bounced.
Event(kind, s, ids, full, amount) ==
  [kind |-> kind, s |-> s, ids |-> ids, full |-> full, amount |-> amount]
NoEvent == Event("none", "none", {}, FALSE, 0)

Paid == {"TRANSFERRED", "PAID_OUT"}
Outstanding == {"PENDING", "ON_HOLD", "ELIGIBLE", "TRANSFER_PENDING", "TRANSFER_FAILED"}

Idle == [pc |-> "idle", s |-> "none", amount |-> 0, full |-> FALSE, net |-> 0,
         offset |-> 0, id |-> NoRefund, todo |-> {}, event |-> NoEvent]

Init ==
  /\ settlement = [s \in Settlements |-> [status |-> "none", net |-> 0, method |-> "none"]]
  /\ payout = [s \in Settlements |->
                 [provider |-> "none", status |-> "none", amount |-> 0, sent |-> FALSE,
                  reversed |-> 0, bank |-> FALSE]]
  /\ recoveries = <<>>
  /\ refund = [i \in Refunds |-> [status |-> "none", amount |-> 0, linked |-> FALSE]]
  /\ mirrored = {}
  /\ posted = {}
  /\ payable = [s \in Settlements |-> 0]
  /\ recoverable = 0
  /\ stripe = [sent |-> [s \in Settlements |-> 0], reversals |-> {},
               where |-> [s \in Settlements |-> "none"],
               refunds |-> [i \in Refunds |-> 0], lost |-> {}, guessed |-> FALSE]
  /\ events = {}
  /\ call = [c \in Callers |-> Idle]
  /\ used = [changes |-> 0, crashes |-> 0]
  /\ scenario \in Scenarios
-------------------------------------------------------------------------------
(***************************************************************************)
(* Amounts.                                                                *)
(***************************************************************************)
AtLeast0(n) == IF n < 0 THEN 0 ELSE n
Smaller(a, b) == IF a < b THEN a ELSE b

\* Math.round on whole units: halves go up.
Percent(n, p) == (2 * n * p + 100) \div 200
Share(n, part, whole) == IF whole = 0 THEN n ELSE (2 * n * part + whole) \div (2 * whole)

SellerFee(sale) == Percent(sale, FeePercent)

\* computeSettlementImpact: the net a refund of r leaves, from the full price.
NetAfterRefund(r) ==
  LET sale == AtLeast0(Price - Share(Price, Smaller(r, Total), Total))
  IN AtLeast0(sale - SellerFee(sale))

RefundsOf(s) == {i \in Refunds : i[1] = s}

\* Refund rows in PROCESSING or SUCCEEDED, the ones events made included.
AlreadyRefunded(s) ==
  LET kept == {i \in RefundsOf(s) : refund[i].status \in {"PROCESSING", "SUCCEEDED"}}
  IN SumFunction([i \in kept |-> refund[i].amount])
     + SumFunctionOnSet(stripe.refunds, RefundsOf(s) \cap mirrored)

\* What Stripe has given back to the buyer, and pulled back from the seller.
RefundedAt(s) == SumFunctionOnSet(stripe.refunds, RefundsOf(s))
ReversedAt(s) == SumFunction([r \in {q \in stripe.reversals : q.s = s} |-> r.amount])

Owed(r) == r.amount - r.recovered
Debt == SumFunction([k \in DOMAIN recoveries |-> Owed(recoveries[k])])

\* applyRecoveryOffset: the amount credited to the open recoveries, oldest first.
Credited(n) ==
  [k \in DOMAIN recoveries |->
     LET earlier == SumFunction([j \in 1..k-1 |-> Owed(recoveries[j])])
     IN [recoveries[k] EXCEPT !.recovered =
           @ + Smaller(Owed(recoveries[k]), AtLeast0(n - earlier))]]

\* The postings of SELLER_PAYABLE against another account, and of a debt.
Debit(s, n) == payable' = [payable EXCEPT ![s] = @ - n]

Status(s) == settlement[s].status
Becomes(s, status, net, method) ==
  settlement' = [settlement EXCEPT ![s] = [status |-> status, net |-> net, method |-> method]]

\* transitionSettlement's claim, for the moves this module makes.
MayBecome(s, from, to) ==
  /\ Status(s) \in from
  /\ \/ to = "TRANSFER_PENDING" /\ Status(s) = "ELIGIBLE"
     \/ to \in {"TRANSFERRED", "TRANSFER_FAILED"} /\ Status(s) = "TRANSFER_PENDING"
     \/ to = "PAID_OUT" /\ Status(s) \in {"ELIGIBLE", "TRANSFERRED", "TRANSFER_FAILED"}
     \/ to = "REFUNDED" /\ Status(s) \in {"PENDING", "ON_HOLD", "ELIGIBLE"}
     \/ to = "CANCELLED" /\ Status(s) \in {"PENDING", "ON_HOLD"}

MoveTo(c, pc) == call' = [call EXCEPT ![c].pc = pc]
Finish(c) == call' = [call EXCEPT ![c] = Idle]
Start(c, new) == call[c].pc = "idle" /\ call' = [call EXCEPT ![c] = new]

\* After its settlement is told, a refund event goes on with its next refund.
Told(c) == IF call[c].event = NoEvent THEN Finish(c) ELSE MoveTo(c, "event")
-------------------------------------------------------------------------------
(***************************************************************************)
(* A sale is booked, its money is held and released, it may be cancelled.  *)
(***************************************************************************)
\* settlePaidIntent's transaction: the CHARGE credits the payable with the
\* price, the settlement is created, and its FEE takes the commission out again:
\* all of the price for TradeAuct's own stock, which is born paid.  (Shipping that
\* was moved to the seller after the quote is OrderPricing's subject.)
Book(s) ==
  /\ Status(s) = "none"
  /\ "sales" \in scenario \/ \A t \in Settlements : Status(t) = "none"
  /\ \/ /\ Becomes(s, "PENDING", Price - SellerFee(Price), "none")
        /\ payable' = [payable EXCEPT ![s] = Price - SellerFee(Price)]
     \/ /\ "owned" \in scenario
        /\ Becomes(s, "PAID_OUT", 0, "TRADEAUCT_OWNED")
        /\ UNCHANGED payable
  /\ UNCHANGED <<payout, recoveries, refundRows, recoverable, stripe, events, call, used, scenario>>

\* Delivery, and the end of the protection window.
Advance(s) ==
  /\ \/ Status(s) = "PENDING" /\ Becomes(s, "ON_HOLD", settlement[s].net, settlement[s].method)
     \/ Status(s) = "ON_HOLD" /\ Becomes(s, "ELIGIBLE", settlement[s].net, settlement[s].method)
  /\ UNCHANGED <<payout, recoveries, refundRows, ledger, stripe, events, call, used, scenario>>

\* FULFILLMENT_CANCELLED writes the net off and posts nothing.
Cancel(s) ==
  /\ "cancel" \in scenario
  /\ MayBecome(s, {"PENDING"}, "CANCELLED")
  /\ Becomes(s, "CANCELLED", 0, settlement[s].method)
  /\ UNCHANGED <<payout, recoveries, refundRows, ledger, stripe, events, call, used, scenario>>

Uses(kind, bound) == used[kind] < bound /\ used' = [used EXCEPT ![kind] = @ + 1]

\* *Mutant*: the net may fall below zero.
AdjustByUncapped(s, n) ==
  /\ settlement' = [settlement EXCEPT ![s].net = @ + n]
  /\ payable' = [payable EXCEPT ![s] = @ + n]

\* The row is written where it stands: net and ledger move by the same amount,
\* which is less than asked for when the net would fall below zero.
AdjustBy(s, n) ==
  LET net == AtLeast0(settlement[s].net + n)
  IN /\ settlement' = [settlement EXCEPT ![s].net = net]
     /\ payable' = [payable EXCEPT ![s] = @ + (net - settlement[s].net)]

Adjustable(s) == Status(s) \notin {"none", "TRANSFER_PENDING"} \cup Paid

\* adjustSettlement by an admin, and recordActualShipping of a seller who pays
\* the shipping: no estimate was charged, so all of the cost comes off.
Adjust(c, s, n) ==
  /\ "adjust" \in scenario
  /\ call[c].pc = "idle"
  /\ Adjustable(s)
  /\ Uses("changes", MaxChanges)
  /\ AdjustBy(s, n)
  /\ UNCHANGED <<payout, recoveries, refundRows, recoverable, stripe, events, call, scenario>>
-------------------------------------------------------------------------------
(***************************************************************************)
(* createRefund.                                                           *)
(***************************************************************************)
\* The payment, the refunds already made and the settlement's status are read.
\* Without an amount the refund is of all that remains.
Unused(i) == refund[i].status = "none" /\ stripe.refunds[i] = 0

RefundRead(c, s, n) ==
  LET left == Total - AlreadyRefunded(s)
  IN /\ "refund" \in scenario
     /\ Status(s) \notin {"none", "TRANSFER_PENDING"}
     /\ n \in 1..left
     /\ \E i \in RefundsOf(s) : Unused(i)
     /\ Start(c, [Idle EXCEPT !.pc = "refund", !.s = s, !.amount = n, !.full = (n = left)])
     /\ UNCHANGED <<settlement, payout, recoveries, refundRows, ledger, stripe, events, used, scenario>>

FirstUnused(s, i) == i \in RefundsOf(s) /\ Unused(i) /\ \A j \in RefundsOf(s) : Unused(j) => i[2] <= j[2]

RefundInsert(c) ==
  /\ call[c].pc = "refund"
  /\ \E i \in Refunds :
       /\ FirstUnused(call[c].s, i)
       /\ refund' = [refund EXCEPT ![i] =
                       [status |-> "PROCESSING", amount |-> call[c].amount, linked |-> FALSE]]
       /\ call' = [call EXCEPT ![c].pc = "ask", ![c].id = i]
  /\ UNCHANGED <<settlement, payout, recoveries, mirrored, posted, ledger, stripe, events, used, scenario>>

\* Stripe gives back no more than was captured and is not disputed, and tells.
Refundable(s, n) == s \notin stripe.lost /\ RefundedAt(s) + n <= Total

GiveBack(s, i, n) ==
  /\ Refundable(s, n)
  /\ stripe' = [stripe EXCEPT !.refunds[i] = n]
  /\ events' = events \cup
       {Event("refund", s, {i} \cup {j \in RefundsOf(s) : stripe.refunds[j] > 0},
              RefundedAt(s) + n >= Total, 0)}

RefundAsk(c) ==
  LET i == call[c].id
  IN /\ call[c].pc = "ask"
     /\ \/ GiveBack(call[c].s, i, call[c].amount) /\ MoveTo(c, "link") /\ UNCHANGED refund
        \/ \* A refusal, and an answer that never comes, both end in FAILED.
           /\ \/ ~ Refundable(call[c].s, call[c].amount) /\ UNCHANGED <<stripe, events>>
              \/ "lost" \in scenario /\ GiveBack(call[c].s, i, call[c].amount)
           /\ refund' = [refund EXCEPT ![i].status = "FAILED"]
           /\ Finish(c)
     /\ UNCHANGED <<settlement, payout, recoveries, mirrored, posted, ledger, used, scenario>>

\* The row takes Stripe's id, unless an event has made a row with that id.
RefundLink(c) ==
  LET i == call[c].id
  IN /\ call[c].pc = "link"
     /\ IF i \in mirrored
        THEN Finish(c) /\ UNCHANGED refund
        ELSE /\ refund' = [refund EXCEPT ![i].status = "SUCCEEDED", ![i].linked = TRUE]
             /\ MoveTo(c, "apply")
     /\ UNCHANGED <<settlement, payout, recoveries, mirrored, posted, ledger, stripe, events, used, scenario>>

DashboardRefund(i, n) ==
  /\ "dashboard" \in scenario
  /\ Status(i[1]) # "none"
  /\ FirstUnused(i[1], i)
  /\ GiveBack(i[1], i, n)
  /\ UNCHANGED <<settlement, payout, recoveries, refundRows, ledger, call, used, scenario>>
-------------------------------------------------------------------------------
(***************************************************************************)
(* Stripe's events about refunds, and what a refund does to a settlement.  *)
(***************************************************************************)
RefundEvent(c, e) ==
  /\ e.kind = "refund"
  /\ Start(c, [Idle EXCEPT !.pc = "event", !.s = e.s, !.full = e.full, !.todo = e.ids, !.event = e])
  /\ UNCHANGED <<settlement, payout, recoveries, refundRows, ledger, stripe, events, used, scenario>>

\* One refund of the event, unless it was posted before: the row, the posting.
RefundPost(c, i) ==
  /\ call[c].pc = "event"
  /\ i \in call[c].todo
  /\ IF i \in posted
     THEN /\ call' = [call EXCEPT ![c].todo = @ \ {i}]
          /\ UNCHANGED refundRows
     ELSE /\ call' = [call EXCEPT ![c].todo = @ \ {i}, ![c].pc = "apply", ![c].id = i,
                                 ![c].amount = stripe.refunds[i]]
          /\ posted' = posted \cup {i}
          /\ IF refund[i].linked
             THEN refund' = [refund EXCEPT ![i].status = "SUCCEEDED"] /\ UNCHANGED mirrored
             ELSE mirrored' = mirrored \cup {i} /\ UNCHANGED refund
  /\ UNCHANGED <<settlement, payout, recoveries, ledger, stripe, events, used, scenario>>

RefundEventDone(c) ==
  /\ call[c].pc = "event"
  /\ call[c].todo = {}
  /\ events' = events \ {call[c].event}
  /\ Finish(c)
  /\ UNCHANGED <<settlement, payout, recoveries, refundRows, ledger, stripe, used, scenario>>

\* applyRefundToSettlement reads the settlement and decides by where the money is.
ApplyRead(c) ==
  LET s == call[c].s  change == NetAfterRefund(call[c].amount) - settlement[s].net
  IN /\ call[c].pc = "apply"
     /\ \/ Status(s) \in Paid /\ MoveTo(c, "recover")
        \/ /\ Status(s) \notin Paid
           /\ call[c].full
           /\ call' = [call EXCEPT ![c].pc = "writeOff", ![c].net = settlement[s].net]
        \/ /\ Status(s) \notin Paid
           /\ ~ call[c].full
           /\ IF change = 0 THEN Told(c)
              ELSE call' = [call EXCEPT ![c].pc = "reduce", ![c].net = change]
     /\ UNCHANGED <<settlement, payout, recoveries, refundRows, ledger, stripe, events, used, scenario>>

\* *Mutant*: the net is written off and its posting forgotten.
WriteOffUnposted(c) ==
  LET s == call[c].s
  IN /\ call[c].pc = "writeOff"
     /\ IF MayBecome(s, {"PENDING", "ON_HOLD", "ELIGIBLE", "TRANSFER_FAILED"}, "REFUNDED")
        THEN Becomes(s, "REFUNDED", 0, settlement[s].method) /\ UNCHANGED payable
        ELSE UNCHANGED <<settlement, payable>>
     /\ Told(c)
     /\ UNCHANGED <<payout, recoveries, refundRows, recoverable, stripe, events, used, scenario>>

\* The net that was read is posted; TRANSFER_FAILED is in the list of statuses
\* it may leave, but the table of transitions refuses the move.
WriteOff(c) ==
  LET s == call[c].s
  IN /\ call[c].pc = "writeOff"
     /\ IF MayBecome(s, {"PENDING", "ON_HOLD", "ELIGIBLE", "TRANSFER_FAILED"}, "REFUNDED")
        THEN Becomes(s, "REFUNDED", 0, settlement[s].method) /\ Debit(s, call[c].net)
        ELSE UNCHANGED <<settlement, payable>>
     /\ Told(c)
     /\ UNCHANGED <<payout, recoveries, refundRows, recoverable, stripe, events, used, scenario>>

\* adjustSettlement throws when the money has left meanwhile; an event that
\* threw is handled again.
Reduce(c) ==
  LET s == call[c].s
  IN /\ call[c].pc = "reduce"
     /\ IF Adjustable(s) THEN AdjustBy(s, call[c].net) /\ Told(c)
                         ELSE UNCHANGED <<settlement, payable>> /\ Finish(c)
     /\ UNCHANGED <<payout, recoveries, refundRows, recoverable, stripe, events, used, scenario>>

\* onCardDisputeClosed writes off, or takes back, what is not refunded yet.  The
\* bank's decision and the handler's read are one step here, and a handler that
\* dies after it is not run again.
DisputeLost(c, s) ==
  /\ "dispute" \in scenario
  /\ Status(s) # "none"
  /\ s \notin stripe.lost
  /\ RefundedAt(s) < Total
  /\ stripe' = [stripe EXCEPT !.lost = @ \cup {s}]
  /\ Start(c, [Idle EXCEPT !.pc = IF Status(s) \in Paid THEN "recover" ELSE "lose", !.s = s,
                           !.amount = Total - RefundedAt(s), !.net = settlement[s].net])
  /\ UNCHANGED <<settlement, payout, recoveries, refundRows, ledger, events, used, scenario>>

Lose(c) ==
  LET s == call[c].s
  IN /\ call[c].pc = "lose"
     /\ IF MayBecome(s, {"PENDING", "ON_HOLD", "ELIGIBLE"}, "REFUNDED")
        THEN Becomes(s, "REFUNDED", 0, settlement[s].method) /\ Debit(s, call[c].net)
        ELSE UNCHANGED <<settlement, payable>>
     /\ Finish(c)
     /\ UNCHANGED <<payout, recoveries, refundRows, recoverable, stripe, events, used, scenario>>
-------------------------------------------------------------------------------
(***************************************************************************)
(* recoverFromSeller: reverse the transfer, or else open a recovery.       *)
(***************************************************************************)
\* What went out and has not come back bounds what is asked for.
Recoverable(s) ==
  (IF payout[s].provider = "none" THEN settlement[s].net ELSE payout[s].amount) - payout[s].reversed

Recover(c) ==
  LET s == call[c].s  target == Smaller(call[c].amount, Recoverable(s))
  IN /\ call[c].pc = "recover"
     /\ IF target <= 0 THEN Told(c)
        ELSE call' = [call EXCEPT ![c].amount = target, ![c].net = payout[s].reversed,
                       ![c].pc = IF payout[s].sent THEN "reverse" ELSE "open"]
     /\ UNCHANGED <<settlement, payout, recoveries, refundRows, ledger, stripe, events, used, scenario>>

\* Stripe answers a known key as before; it refuses when the money is at the
\* seller's bank, or when a known key comes with another amount (an error
\* the provider throws on).
Reverse(c) ==
  LET s == call[c].s
      key == [s |-> s, already |-> call[c].net, amount |-> call[c].amount]
      known == {r \in stripe.reversals : r.s = s /\ r.already = call[c].net}
      left == stripe.sent[s] - ReversedAt(s)
  IN /\ call[c].pc = "reverse"
     /\ \/ key \in known /\ MoveTo(c, "reversed") /\ UNCHANGED <<stripe, events>>
        \/ known \notin {{}, {key}} /\ Finish(c) /\ UNCHANGED <<stripe, events>>
        \/ /\ known = {}
           /\ IF stripe.where[s] \in {"balance", "bounced"} /\ key.amount <= left
              THEN /\ stripe' = [stripe EXCEPT !.reversals = @ \cup {key}]
                   /\ events' = events \cup
                        {Event("transfer", s, {}, key.amount = left, ReversedAt(s) + key.amount)}
                   /\ MoveTo(c, "reversed")
              ELSE MoveTo(c, "open") /\ UNCHANGED <<stripe, events>>
     /\ UNCHANGED <<settlement, payout, recoveries, refundRows, ledger, used, scenario>>

Reversed(c) ==
  LET s == call[c].s  reversed == call[c].net + call[c].amount
  IN /\ call[c].pc = "reversed"
     /\ payout' = [payout EXCEPT ![s].reversed = reversed,
                    ![s].status = IF reversed >= payout[s].amount THEN "REVERSED" ELSE "PARTIALLY_REVERSED"]
     /\ Told(c)
     /\ UNCHANGED <<settlement, recoveries, refundRows, ledger, stripe, events, used, scenario>>

OpenRecovery(c) ==
  /\ call[c].pc = "open"
  /\ recoveries' = Append(recoveries, [s |-> call[c].s, amount |-> call[c].amount, recovered |-> 0])
  /\ recoverable' = recoverable + call[c].amount
  /\ Told(c)
  /\ UNCHANGED <<settlement, payout, refundRows, payable, stripe, events, used, scenario>>

\* handleTransferEvent copies what the event says was reversed.
TransferEvent(e) ==
  /\ e.kind = "transfer"
  /\ events' = events \ {e}
  /\ payout' = IF payout[e.s].sent
               THEN [payout EXCEPT ![e.s].reversed = e.amount,
                                   ![e.s].status = IF e.full THEN "REVERSED" ELSE @]
               ELSE payout
  /\ UNCHANGED <<settlement, recoveries, refundRows, ledger, stripe, call, used, scenario>>
-------------------------------------------------------------------------------
(***************************************************************************)
(* transferSettlement with the seller's debt held back, manual payouts.    *)
(***************************************************************************)
\* resolveRecoveryOffset: as much of the debt as this net can pay.
Offset(net) == Smaller(Debt, net)

TransferRead(c, s) ==
  LET net == settlement[s].net  offset == Offset(net)
  IN /\ "transfer" \in scenario
     /\ Status(s) = "ELIGIBLE"
     /\ Start(c, [Idle EXCEPT !.pc = IF net - offset <= 0 THEN "withhold" ELSE "claim",
                              !.s = s, !.net = net, !.offset = offset, !.amount = net - offset])
     /\ UNCHANGED <<settlement, payout, recoveries, refundRows, ledger, stripe, events, used, scenario>>

\* *Mutant*: the whole debt is credited, whatever the net pays of it.
WithholdWholeDebt(c) ==
  LET s == call[c].s  net == call[c].net
  IN /\ call[c].pc = "withhold"
     /\ recoveries' = Credited(Debt)
     /\ IF MayBecome(s, {"ELIGIBLE"}, "PAID_OUT")
        THEN /\ Becomes(s, "PAID_OUT", settlement[s].net, "RECOVERY_OFFSET")
             /\ Debit(s, net)
             /\ recoverable' = recoverable - Debt
        ELSE UNCHANGED <<settlement, ledger>>
     /\ Finish(c)
     /\ UNCHANGED <<payout, refundRows, stripe, events, used, scenario>>

\* settleAgainstRecoveryOnly: the recoveries are credited whatever becomes of
\* the transition.
Withhold(c) ==
  LET s == call[c].s  net == call[c].net
  IN /\ call[c].pc = "withhold"
     /\ recoveries' = Credited(net)
     /\ IF MayBecome(s, {"ELIGIBLE"}, "PAID_OUT")
        THEN /\ Becomes(s, "PAID_OUT", settlement[s].net, "RECOVERY_OFFSET")
             /\ Debit(s, net)
             /\ recoverable' = recoverable - net
        ELSE UNCHANGED <<settlement, ledger>>
     /\ Finish(c)
     /\ UNCHANGED <<payout, refundRows, stripe, events, used, scenario>>

Claim(c) ==
  LET s == call[c].s
  IN /\ call[c].pc = "claim"
     /\ IF MayBecome(s, {"ELIGIBLE"}, "TRANSFER_PENDING")
        THEN Becomes(s, "TRANSFER_PENDING", settlement[s].net, "STRIPE_CONNECT") /\ MoveTo(c, "row")
        ELSE Finish(c) /\ UNCHANGED settlement
     /\ UNCHANGED <<payout, recoveries, refundRows, ledger, stripe, events, used, scenario>>

\* A settlement has one PayoutTransfer: a manual one makes the upsert throw.
TransferRow(c) ==
  LET s == call[c].s
  IN /\ call[c].pc = "row"
     /\ IF payout[s].provider = "MANUAL" THEN Finish(c) /\ UNCHANGED payout
        ELSE /\ payout' = [payout EXCEPT ![s].provider = "STRIPE_CONNECT", ![s].status = "PENDING",
                                         ![s].amount = call[c].amount]
             /\ MoveTo(c, "send")
     /\ UNCHANGED <<settlement, recoveries, refundRows, ledger, stripe, events, used, scenario>>

\* The key is the settlement's: a transfer Stripe has made is returned.
Send(c) ==
  LET s == call[c].s
  IN /\ call[c].pc = "send"
     /\ \/ /\ stripe' = IF stripe.sent[s] > 0 THEN stripe
                         ELSE [stripe EXCEPT !.sent[s] = call[c].amount, !.where[s] = "balance"]
           /\ \/ MoveTo(c, "sent")
              \/ "lost" \in scenario /\ Finish(c)
        \/ "refused" \in scenario /\ MoveTo(c, "failed") /\ UNCHANGED stripe
     /\ UNCHANGED <<settlement, payout, recoveries, refundRows, ledger, events, used, scenario>>

\* *Mutant*: the debt held back is not taken off the receivable.
SentOffsetForgotten(c) ==
  LET s == call[c].s
  IN /\ call[c].pc = "sent"
     /\ payout' = [payout EXCEPT ![s].status = "TRANSFERRED", ![s].sent = TRUE]
     /\ recoveries' = Credited(call[c].offset)
     /\ Becomes(s, "TRANSFERRED", settlement[s].net, settlement[s].method)
     /\ Debit(s, call[c].amount + call[c].offset)
     /\ Finish(c)
     /\ UNCHANGED <<recoverable, refundRows, stripe, events, used, scenario>>

\* One transaction: the row, the recoveries and their posting, the transition
\* and, if it is made, the posting of what was sent.
Sent(c) ==
  LET s == call[c].s  offset == call[c].offset
      moves == MayBecome(s, {"TRANSFER_PENDING"}, "TRANSFERRED")
  IN /\ call[c].pc = "sent"
     /\ payout' = [payout EXCEPT ![s].status = "TRANSFERRED", ![s].sent = TRUE]
     /\ recoveries' = Credited(offset)
     /\ recoverable' = recoverable - offset
     /\ IF moves THEN Becomes(s, "TRANSFERRED", settlement[s].net, settlement[s].method)
                 ELSE UNCHANGED settlement
     /\ Debit(s, offset + IF moves THEN call[c].amount ELSE 0)
     /\ Finish(c)
     /\ UNCHANGED <<refundRows, stripe, events, used, scenario>>

Failed(c) ==
  LET s == call[c].s
  IN /\ call[c].pc = "failed"
     /\ payout' = [payout EXCEPT ![s].status = "FAILED"]
     /\ MoveTo(c, "giveUp")
     /\ UNCHANGED <<settlement, recoveries, refundRows, ledger, stripe, events, used, scenario>>

GiveUp(c) ==
  LET s == call[c].s
  IN /\ call[c].pc = "giveUp"
     /\ IF MayBecome(s, {"TRANSFER_PENDING"}, "TRANSFER_FAILED")
        THEN Becomes(s, "TRANSFER_FAILED", settlement[s].net, settlement[s].method)
        ELSE UNCHANGED settlement
     /\ Finish(c)
     /\ UNCHANGED <<payout, recoveries, refundRows, ledger, stripe, events, used, scenario>>

ManualRead(c, s) ==
  /\ "manual" \in scenario
  /\ Status(s) \in {"ELIGIBLE", "TRANSFER_FAILED"}
  /\ Start(c, [Idle EXCEPT !.pc = "manualRow", !.s = s, !.net = settlement[s].net])
  /\ UNCHANGED <<settlement, payout, recoveries, refundRows, ledger, stripe, events, used, scenario>>

\* The upsert leaves an earlier manual row's amount as it is.
ManualRow(c) ==
  LET s == call[c].s
  IN /\ call[c].pc = "manualRow"
     /\ \/ payout[s].provider = "STRIPE_CONNECT" /\ Finish(c) /\ UNCHANGED payout
        \/ payout[s].provider = "MANUAL" /\ MoveTo(c, "manual") /\ UNCHANGED payout
        \/ /\ payout[s].provider = "none"
           /\ payout' = [payout EXCEPT ![s].provider = "MANUAL", ![s].status = "PAID_OUT",
                                       ![s].amount = call[c].net]
           /\ MoveTo(c, "manual")
     /\ UNCHANGED <<settlement, recoveries, refundRows, ledger, stripe, events, used, scenario>>

Manual(c) ==
  LET s == call[c].s
  IN /\ call[c].pc = "manual"
     /\ IF MayBecome(s, {"ELIGIBLE", "TRANSFER_FAILED"}, "PAID_OUT")
        THEN Becomes(s, "PAID_OUT", settlement[s].net, "MANUAL") /\ Debit(s, call[c].net)
        ELSE UNCHANGED <<settlement, payable>>
     /\ Finish(c)
     /\ UNCHANGED <<payout, recoveries, refundRows, recoverable, stripe, events, used, scenario>>
-------------------------------------------------------------------------------
(***************************************************************************)
(* Bank payouts of the seller's Stripe account: one per transfer.          *)
(***************************************************************************)
BankPays(s) ==
  /\ stripe.where[s] = "balance"
  /\ ReversedAt(s) < stripe.sent[s]
  /\ stripe' = [stripe EXCEPT !.where[s] = "bank"]
  /\ events' = events \cup {Event("payout", s, {}, TRUE, 0)}
  /\ UNCHANGED <<settlement, payout, recoveries, refundRows, ledger, call, used, scenario>>

BankReturns(s) ==
  /\ "bounce" \in scenario
  /\ stripe.where[s] = "bank"
  /\ stripe' = [stripe EXCEPT !.where[s] = "bounced"]
  /\ events' = events \cup {Event("payout", s, {}, FALSE, 0)}
  /\ UNCHANGED <<settlement, payout, recoveries, refundRows, ledger, call, used, scenario>>

\* Whose destination payment is recorded, and who is taken when the list of the
\* payout's transactions comes back empty.
Listed(s) == {t \in {s} : payout[t].sent}
Waiting == {t \in Settlements : payout[t].status = "TRANSFERRED" /\ ~ payout[t].bank}

\* *Mutant*: the listing is not asked for.
AttributedToAll(s) == Waiting

Attributed(s) == Listed(s)

\* attributePayout of a payout that is paid; a bank payout carries the money of one
\* sale here.  (What a payout not yet paid writes is in Settlement.)
PayoutPaid(c, e) ==
  /\ e.kind = "payout" /\ e.full
  /\ \/ /\ Start(c, [Idle EXCEPT !.pc = "payout", !.s = e.s, !.todo = Attributed(e.s), !.event = e])
        /\ UNCHANGED stripe
     \/ /\ "emptyList" \in scenario
        /\ Start(c, [Idle EXCEPT !.pc = "payout", !.s = e.s, !.todo = Waiting, !.event = e])
        /\ stripe' = [stripe EXCEPT !.guessed = TRUE]
  /\ UNCHANGED <<settlement, payout, recoveries, refundRows, ledger, events, used, scenario>>

\* For each transfer the row and then the settlement's transition.
PayoutRow(c, s) ==
  /\ call[c].pc = "payout"
  /\ s \in call[c].todo
  /\ payout' = [payout EXCEPT ![s].status = "PAID_OUT", ![s].bank = TRUE]
  /\ call' = [call EXCEPT ![c].pc = "paid", ![c].s = s]
  /\ UNCHANGED <<settlement, recoveries, refundRows, ledger, stripe, events, used, scenario>>

PayoutMove(c) ==
  LET s == call[c].s
  IN /\ call[c].pc = "paid"
     /\ IF MayBecome(s, {"TRANSFERRED"}, "PAID_OUT")
        THEN Becomes(s, "PAID_OUT", settlement[s].net, settlement[s].method)
        ELSE UNCHANGED settlement
     /\ call' = [call EXCEPT ![c].pc = "payout", ![c].todo = @ \ {s}]
     /\ UNCHANGED <<payout, recoveries, refundRows, ledger, stripe, events, used, scenario>>

PayoutDone(c) ==
  /\ call[c].pc = "payout"
  /\ call[c].todo = {}
  /\ events' = events \ {call[c].event}
  /\ Finish(c)
  /\ UNCHANGED <<settlement, payout, recoveries, refundRows, ledger, stripe, used, scenario>>

\* recordPayoutFailure: the rows of the payout; the settlements keep their status.
PayoutBounced(e) ==
  /\ e.kind = "payout" /\ ~ e.full
  /\ events' = events \ {e}
  /\ payout' = IF payout[e.s].bank THEN [payout EXCEPT ![e.s].status = "TRANSFERRED"] ELSE payout
  /\ UNCHANGED <<settlement, recoveries, refundRows, ledger, stripe, call, used, scenario>>

\* A handler dies, or an error it does not expect ends it: an event it was
\* handling comes again.
Die(c) ==
  /\ call[c].pc # "idle"
  /\ Uses("crashes", MaxCrashes)
  /\ Finish(c)
  /\ UNCHANGED <<settlement, payout, recoveries, refundRows, ledger, stripe, events, scenario>>
-------------------------------------------------------------------------------
Sales == \E s \in Settlements :
  Book(s) \/ Advance(s) \/ Cancel(s)

Refunding(c) ==
  \/ \E s \in Settlements : \E n \in Parts \cup {Total - AlreadyRefunded(s)} : RefundRead(c, s, n)
  \/ RefundInsert(c) \/ RefundAsk(c) \/ RefundLink(c)
  \/ \E e \in events : RefundEvent(c, e)
  \/ \E i \in Refunds : RefundPost(c, i)
  \/ RefundEventDone(c) \/ ApplyRead(c) \/ WriteOff(c) \/ Reduce(c)
  \/ \E s \in Settlements : DisputeLost(c, s)
  \/ \E s \in Settlements : \E n \in Changes : Adjust(c, s, n)
  \/ Lose(c) \/ Recover(c) \/ Reverse(c) \/ Reversed(c) \/ OpenRecovery(c)

Paying(c) ==
  \/ \E s \in Settlements : TransferRead(c, s) \/ ManualRead(c, s) \/ PayoutRow(c, s)
  \/ Withhold(c) \/ Claim(c) \/ TransferRow(c) \/ Send(c) \/ Sent(c) \/ Failed(c) \/ GiveUp(c)
  \/ ManualRow(c) \/ Manual(c)
  \/ \E e \in events : PayoutPaid(c, e)
  \/ PayoutMove(c) \/ PayoutDone(c)

Stripe ==
  \/ \E i \in Refunds : \E n \in Parts \cup {Total - RefundedAt(i[1])} : n > 0 /\ DashboardRefund(i, n)
  \/ \E s \in Settlements : BankPays(s) \/ BankReturns(s)
  \/ \E e \in events : TransferEvent(e) \/ PayoutBounced(e)

Next == Sales \/ Stripe \/ \E c \in Callers : Refunding(c) \/ Paying(c) \/ Die(c)

Spec == Init /\ [][Next]_vars
-------------------------------------------------------------------------------
TypeOK ==
  /\ settlement \in [Settlements -> [status : {"none", "REFUNDED", "CANCELLED"} \cup Paid \cup Outstanding,
                                     net : Nat,
                                     method : {"none", "STRIPE_CONNECT", "MANUAL", "RECOVERY_OFFSET",
                                               "TRADEAUCT_OWNED"}]]
  /\ \A s \in Settlements :
       /\ 0 <= payout[s].reversed /\ payout[s].reversed <= payout[s].amount
       /\ payout[s].sent => payout[s].amount = stripe.sent[s]
  /\ \A k \in DOMAIN recoveries : 0 <= recoveries[k].recovered /\ recoveries[k].recovered <= recoveries[k].amount
  /\ \A i \in Refunds : refund[i].linked => refund[i].amount = stripe.refunds[i]

\* The books and the settlements agree at every moment: what the ledger owes the
\* seller for a settlement is its net while it is owed, and nothing once it has
\* been paid.  (A cancellation posts nothing: see the README's findings.)
PayableIsNet == \A s \in Settlements :
  Status(s) # "CANCELLED" =>
    payable[s] = IF Status(s) \in Paid \cup {"none"} THEN 0 ELSE settlement[s].net

\* The receivable in the ledger is what the open recoveries still ask for.
RecoverableIsDebt == recoverable = Debt

\* The money the seller got through Stripe is the net of the settlements that
\* were paid that way, less the debt that was held back from them.
SellerPaidNetLessDebt ==
  LET through == {s \in Settlements : Status(s) \in Paid
                    /\ settlement[s].method \in {"STRIPE_CONNECT", "RECOVERY_OFFSET"}}
  IN SumFunctionOnSet(stripe.sent, through) =
       SumFunction([s \in through |-> settlement[s].net])
       - SumFunction([k \in DOMAIN recoveries |-> recoveries[k].recovered])

\* A settlement counts as paid out through Stripe only when the bank has paid,
\* unless a payout had to be attributed by guess.
PaidOutReachedBank == \A s \in Settlements :
  Status(s) = "PAID_OUT" /\ settlement[s].method = "STRIPE_CONNECT" =>
    stripe.where[s] \in {"bank", "bounced"} \/ stripe.guessed

\* What the code says of recoverFromSeller, "Never claw back more than actually
\* went out", of a settlement's reversals and recoveries together.
NeverClawsBackMore == \A s \in Settlements :
  Status(s) \in Paid /\ settlement[s].method = "STRIPE_CONNECT" =>
    ReversedAt(s) + SumFunction([k \in {j \in DOMAIN recoveries : recoveries[j].s = s} |->
                                   recoveries[k].amount]) <= stripe.sent[s]
===============================================================================
