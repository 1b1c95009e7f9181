---------------------------- MODULE PaymentsProofs ----------------------------
(***************************************************************************)
(* What Payments guarantees for any number of callers, checkouts and       *)
(* recovery attempts, in any environment.                                  *)
(***************************************************************************)
EXTENDS Payments, FiniteSetTheorems, TLAPS

USE DEF vars, books

-------------------------------------------------------------------------------
(***************************************************************************)
(* The inductive invariant.                                                *)
(***************************************************************************)
SuccessEvents == {"payment_intent.succeeded", "checkout.session.completed"}
Pending == {"pendingRead", "pendingWrite"}
Charging == {"winnerCharge", "recordAttempt", "recover"}
Retrying == {"retryMark", "retryCharge"} \cup RetryEndings

\* An intent as Stripe, the ledger and the environment have it.
IntentShape(i) ==
  /\ stripe[i].answer = "succeeded" => stripe[i].state = "succeeded"
  /\ stripe[i].state # "none" /\ i \notin Checkouts => stripe[i].answer \in Answers
  /\ stripe[i].state # "none" /\ i[1] = "winner" => "auction" \in scenario
  /\ stripe[i].state # "none" /\ i[1] = "retry" => "retry" \in scenario
  /\ refunded[i] # "none" => stripe[i].state = "succeeded" /\ "refunds" \in scenario
  /\ charges[i] > 0 => Reconciles(i)

\* What was announced has happened.
EventShape(i) ==
  /\ \A type \in SuccessEvents : <<type, i>> \in sent => stripe[i].state = "succeeded"
  /\ <<"charge.refunded", i>> \in sent => refunded[i] # "none"
  /\ <<"payment_intent.payment_failed", i>> \in sent => "declines" \in scenario

SentShape ==
  /\ queue \subseteq sent
  /\ ChargeWinner \in sent => "auction" \in scenario

\* A caller's record fits its program counter.
CallShape(c) ==
  LET x == call[c] IN
  /\ x.pc = "idle" => x = Idle
  /\ x.job # NoJob => x.job \in sent
  /\ x.no > 0 => x.job = ChargeWinner \/ (x.job = NoJob /\ "retry" \in scenario)
  /\ x.pc \in Pending => x.intent \in Checkouts
  /\ x.pc = "settleRead" => x.intent \in Intents /\ stripe[x.intent].state = "succeeded"
  /\ x.pc \in {"settle", "settleCreate"} => x.intent \in Intents /\ Reconciles(x.intent)
  /\ x.pc = "quarantine" => x.intent \in Intents /\ "retry" \in scenario
  /\ x.pc = "refundPost" => x.intent \in Intents /\ refunded[x.intent] # "none"
  /\ x.pc \in Charging => x.no > 0 /\ x.job = ChargeWinner
  /\ x.pc \in {"winnerCharge", "recordAttempt"} => x.intent = <<"winner", x.no>>
  /\ x.pc = "recordAttempt" => stripe[x.intent].state # "none"
  /\ x.pc \in Retrying => x.no > 0 /\ x.job = NoJob
  /\ x.pc \in {"retryMark", "retryCharge"} => x.intent = <<"retry", x.no>>

\* The numbers of the attempts have a greatest one.
Counted ==
  \E m \in {0} \cup {a[1] : a \in attempts} : \A a \in attempts : a[1] <= m

Captured == \E i \in Intents : stripe[i].state = "succeeded"

\* The command to charge the winner is with the queue or with one caller.
OneWinner ==
  /\ \A c, d \in Callers : call[c].job = ChargeWinner /\ call[d].job = ChargeWinner => c = d
  /\ ChargeWinner \in queue => \A c \in Callers : call[c].job # ChargeWinner

\* A checkout is on its way to its row in one request, and cannot be paid yet.
PendingShape ==
  /\ \A c \in Callers : call[c].pc \in Pending =>
       stripe[call[c].intent].state \in {"created", "canceled"}
  /\ \A c, d \in Callers :
       call[c].pc \in Pending /\ call[d].pc \in Pending /\ call[c].intent = call[d].intent => c = d

Numbers == {a[1] : a \in attempts}
Recorded(n) == <<n, <<"attempt", n>>>> \in attempts

\* Undisturbed attempts are numbered without a gap; a paid payment has one more
\* than were counted, so that the next number is taken.
NumberShape ==
  \E m \in Nat : /\ Numbers = 1..m
                 /\ pay.count <= m
                 /\ pay.status = "PAID" => pay.count < m

\* The one who charges the winner has the next number, and its own row is not
\* there before it writes it.
WinnerShape ==
  /\ \A c \in Callers : call[c].pc \in Charging \cup {"settleRead"} /\ call[c].no > 0 =>
       call[c].no = pay.count + 1
  /\ \A c \in Callers : call[c].pc = "recordAttempt" => ~ Recorded(call[c].no)
  /\ \A n \in 1..MaxAttempts + 1 :
       Recorded(n) => n <= pay.count \/ stripe[<<"winner", n>>].state # "none"

\* What is booked is paid.
BookShape ==
  /\ \A i \in Intents : charges[i] > 0 => pay.status = "PAID"
  /\ \A a \in attempts : a[2][1] = "settle" => pay.status = "PAID"

\* A settlement is of a booked intent; the attempts have a greatest number.
Books ==
  /\ attempts \subseteq (Nat \ {0}) \X AttemptKeys
  /\ charges \in [Intents -> 0..2]
  /\ settlement \in Intents \cup {NoIntent}
  /\ Counted
  /\ settlement # NoIntent => charges[settlement] > 0

\* The shape of everything that exists.
Shaped ==
  /\ TypeOK
  /\ \A i \in Intents : IntentShape(i) /\ EventShape(i)
  /\ SentShape
  /\ \A c \in Callers : CallShape(c)

IInv ==
  /\ Shaped
  /\ Books
  /\ pay.status = "PAID" => Captured
  /\ OneWinner
  /\ PendingShape
  /\ Undisturbed => NumberShape /\ WinnerShape /\ BookShape /\ BookedOnce
-------------------------------------------------------------------------------
(***************************************************************************)
(* The call record: what each way to proceed stores, for whom.             *)
(***************************************************************************)
CallOK == call \in [Callers -> Calls]

\* Only caller c's record changes, and it becomes r.
Becomes(c, r) ==
  /\ call' \in [Callers -> Calls]
  /\ call'[c] = r
  /\ \A d \in Callers \ {c} : call'[d] = call[d]

LEMMA Store ==
  ASSUME CallOK, NEW c \in Callers, NEW r \in Calls, call' = [call EXCEPT ![c] = r]
  PROVE  Becomes(c, r)
  BY DEF CallOK, Becomes

\* A record built by Call is a well-typed call.
LEMMA CallTyped ==
  ASSUME NEW pc \in PCs, NEW i \in Intents \cup {NoIntent}, NEW no \in 0..MaxAttempts + 1,
         NEW job \in Jobs \cup {NoJob}
  PROVE  Call(pc, i, no, job) \in Calls
  BY DEF Call, Calls

LEMMA IdleTyped == Idle \in Calls
<1>1. "idle" \in PCs /\ NoIntent \in Intents \cup {NoIntent} /\ NoJob \in Jobs \cup {NoJob}
  BY DEF PCs
<1>2. 0 \in 0..MaxAttempts + 1
  BY AttemptsAssumption
<1>3. QED BY <1>1, <1>2, CallTyped DEF Idle

\* After Finish the caller is idle.
LEMMA FinishStores ==
  ASSUME CallOK, NEW c \in Callers, Finish(c)
  PROVE  Becomes(c, Idle)
  BY IdleTyped, Store DEF Finish

\* After Enter the caller is at the given step with the given data.
LEMMA EnterStores ==
  ASSUME CallOK, NEW c \in Callers, NEW pc \in PCs, NEW i \in Intents \cup {NoIntent},
         NEW no \in 0..MaxAttempts + 1, NEW job \in Jobs \cup {NoJob}, Enter(c, pc, i, no, job)
  PROVE  Becomes(c, Call(pc, i, no, job))
  BY CallTyped, Store DEF Enter

\* The same call at another step.
At(c, pc) == Call(pc, call[c].intent, call[c].no, call[c].job)

LEMMA NewPc ==
  ASSUME NEW x \in Calls, NEW pc
  PROVE  [x EXCEPT !.pc = pc] = Call(pc, x.intent, x.no, x.job)
  BY DEF Calls, Call

\* After MoveTo the caller is at the new step, its other fields kept.
LEMMA MoveStores ==
  ASSUME CallOK, NEW c \in Callers, NEW pc \in PCs, MoveTo(c, pc)
  PROVE  Becomes(c, At(c, pc))
<1>1. call[c] \in Calls
  BY DEF CallOK
<1>2. At(c, pc) \in Calls
  BY <1>1, CallTyped DEF At, Calls
<1>3. [call[c] EXCEPT !.pc = pc] = At(c, pc)
  BY <1>1, NewPc, Zenon DEF At
<1>4. call' = [call EXCEPT ![c] = [call[c] EXCEPT !.pc = pc]]
  BY DEF MoveTo
<1>5. QED BY <1>2, <1>3, <1>4, Store, Zenon

\* After Done the caller is idle, or has its job to acknowledge.
LEMMA DoneStores ==
  ASSUME CallOK, NEW c \in Callers, Done(c)
  PROVE  \/ call[c].job = NoJob /\ Becomes(c, Idle)
         \/ call[c].job # NoJob /\ Becomes(c, At(c, "ack"))
<1>1. "ack" \in PCs
  BY DEF PCs
<1>2. QED BY <1>1, FinishStores, MoveStores DEF Done

\* After Settled it may also be a retry that has its recovery to write.
LEMMA SettledStores ==
  ASSUME CallOK, NEW c \in Callers, Settled(c)
  PROVE  \/ call[c].job = NoJob /\ Becomes(c, Idle)
         \/ call[c].job # NoJob /\ Becomes(c, At(c, "ack"))
         \/ call[c].no > 0 /\ call[c].job = NoJob /\ Becomes(c, At(c, "recovered"))
<1>1. "recovered" \in PCs
  BY DEF PCs, RetryEndings
<1>2. QED BY <1>1, DoneStores, MoveStores DEF Settled

-------------------------------------------------------------------------------
(***************************************************************************)
(* Types.                                                                  *)
(***************************************************************************)
LEMMA PCsAre ==
  PCs = {"idle", "ack", "pendingRead", "pendingWrite", "settleRead", "settle",
         "settleCreate", "quarantine", "refundPost", "winnerCharge", "recordAttempt",
         "recover", "retryMark", "retryCharge", "expire", "recovered", "retryAction",
         "retryPending", "retryFailed"}
  BY DEF PCs, RetryEndings

\* The intents, their names and their events.
LEMMA IntentKinds ==
  /\ Checkouts \subseteq Intents
  /\ \A n \in 1..MaxAttempts + 1 : <<"winner", n>> \in Intents /\ <<"retry", n>> \in Intents
  /\ \A n : <<"winner", n>> \notin Checkouts /\ <<"retry", n>> \notin Checkouts
  /\ NoIntent \notin Intents
  /\ \A i \in Intents : i[1] \in {"elements", "session", "winner", "retry"}
  /\ \A i \in Intents : i \in Checkouts <=> i[1] \in {"elements", "session"}
  BY DEF Intents, Checkouts, NoIntent

\* An attempt number names a winner's charge and a retry's.
LEMMA Numbered ==
  ASSUME NEW n \in 1..MaxAttempts + 1
  PROVE  n \in 0..MaxAttempts + 1 /\ n > 0 /\ <<"winner", n>> \in Intents /\ <<"retry", n>> \in Intents
<1>1. n \in 0..MaxAttempts + 1 /\ n > 0
  BY AttemptsAssumption
<1>2. QED BY <1>1, IntentKinds

LEMMA JobKinds ==
  /\ ChargeWinner \in Jobs /\ ChargeWinner # NoJob /\ NoJob \notin Jobs
  /\ \A type \in EventTypes, i \in Intents :
       /\ <<type, i>> \in Jobs
       /\ <<type, i>> # ChargeWinner /\ <<type, i>> # NoJob
  BY DEF Jobs, ChargeWinner, NoJob, EventTypes

Statuses == {"none", "PENDING", "REQUIRES_ACTION", "PROCESSING", "PAID", "FAILED", "REFUNDED"}
Recoveries == {"NOT_REQUIRED", "REQUIRED", "IN_PROGRESS", "RETRYING", "RECOVERED", "EXPIRED"}

\* Writing fields of the payment keeps its type.
LEMMA RowTyped ==
  ASSUME pay \in Payments, NEW i \in Intents \cup {NoIntent}
  PROVE  /\ Naming(i) \in Payments
         /\ Naming(i).status = pay.status /\ Naming(i).count = pay.count
  BY DEF Payments, Naming

LEMMA WritesTyped ==
  ASSUME NEW x \in Payments
  PROVE  /\ \A status \in Statuses : [x EXCEPT !.status = status] \in Payments
         /\ \A recovery \in Recoveries : [x EXCEPT !.recovery = recovery] \in Payments
         /\ \A intent \in Intents \cup {NoIntent} : [x EXCEPT !.intent = intent] \in Payments
         /\ [x EXCEPT !.window = "over"] \in Payments
         /\ \A status \in Statuses, recovery \in Recoveries :
              /\ [x EXCEPT !.status = status, !.recovery = recovery] \in Payments
              /\ [x EXCEPT !.status = status, !.recovery = recovery, !.window = "open"] \in Payments
         /\ \A recovery \in Recoveries, count \in 0..MaxAttempts + 1 :
              [x EXCEPT !.recovery = recovery, !.count = count] \in Payments
         /\ \A status \in Statuses, recovery \in Recoveries, count \in 0..MaxAttempts + 1 :
              [x EXCEPT !.status = status, !.recovery = recovery, !.count = count,
                        !.window = "open"] \in Payments
<1> DEFINE Ints == Intents \cup {NoIntent}
           Counts == 0..MaxAttempts + 1
<1>1. Payments = [status : Statuses, intent : Ints, gateway : Ints, recovery : Recoveries,
                  count : Counts, window : {"none", "open", "over"}]
  BY DEF Payments, Statuses, Recoveries
<1> HIDE DEF Ints, Counts
<1>2. \A status \in Statuses : [x EXCEPT !.status = status] \in Payments
  BY <1>1
<1>3. \A recovery \in Recoveries : [x EXCEPT !.recovery = recovery] \in Payments
  BY <1>1
<1>4. \A intent \in Ints : [x EXCEPT !.intent = intent] \in Payments
  BY <1>1
<1>5. [x EXCEPT !.window = "over"] \in Payments
  BY <1>1
<1>6. \A status \in Statuses, recovery \in Recoveries :
        [x EXCEPT !.status = status, !.recovery = recovery] \in Payments
  BY <1>1
<1>7. \A status \in Statuses, recovery \in Recoveries :
        [x EXCEPT !.status = status, !.recovery = recovery, !.window = "open"] \in Payments
  BY <1>1
<1>8. \A recovery \in Recoveries, count \in Counts :
        [x EXCEPT !.recovery = recovery, !.count = count] \in Payments
  BY <1>1
<1>9. \A status \in Statuses, recovery \in Recoveries, count \in Counts :
        [x EXCEPT !.status = status, !.recovery = recovery, !.count = count,
                  !.window = "open"] \in Payments
  BY <1>1
<1>10. QED BY <1>2, <1>3, <1>4, <1>5, <1>6, <1>7, <1>8, <1>9 DEF Ints, Counts

\* The attempts have a greatest number, so Max finds it.
LEMMA GreatestNumber ==
  ASSUME attempts \subseteq (Nat \ {0}) \X AttemptKeys, Counted
  PROVE  LET top == Max({0} \cup Numbers) IN
         /\ top \in Nat
         /\ top \in {0} \cup Numbers
         /\ \A n \in Numbers : n <= top
<1>1. Numbers \subseteq Nat
  BY DEF Numbers
<1>2. PICK m \in {0} \cup Numbers : \A n \in {0} \cup Numbers : m >= n
  BY <1>1 DEF Counted, Numbers
<1>3. Max({0} \cup Numbers) = CHOOSE x \in {0} \cup Numbers : \A n \in {0} \cup Numbers : x >= n
  BY DEF Max
<1>4. /\ Max({0} \cup Numbers) \in {0} \cup Numbers
      /\ \A n \in {0} \cup Numbers : Max({0} \cup Numbers) >= n
  BY <1>2, <1>3
<1> DEFINE top == Max({0} \cup Numbers)
<1>5. top \in {0} \cup Numbers /\ \A n \in {0} \cup Numbers : top >= n
  BY <1>4
<1> HIDE DEF top
<1>6. top \in Nat /\ \A n \in Numbers : n <= top
  BY <1>1, <1>5
<1>7. QED BY <1>5, <1>6 DEF top

\* Booking adds at most one attempt, under the next number.
LEMMA SettleAttemptAdds ==
  ASSUME attempts \subseteq (Nat \ {0}) \X AttemptKeys, Counted, NEW i \in Intents
  PROVE  /\ SettleAttempt(i) \subseteq (Nat \ {0}) \X AttemptKeys
         /\ \/ SettleAttempt(i) = attempts /\ \E a \in attempts : a[2] = <<"settle", i>>
            \/ /\ SettleAttempt(i) =
                    attempts \cup {<<1 + Max({0} \cup Numbers), <<"settle", i>>>>}
               /\ ~ \E a \in attempts : a[2] = <<"settle", i>>
<1> DEFINE top == Max({0} \cup Numbers)
<1>1. top \in Nat
  BY GreatestNumber
<1>2. <<1 + top, <<"settle", i>>>> \in (Nat \ {0}) \X AttemptKeys
  BY <1>1 DEF AttemptKeys
<1>3. SettleAttempt(i) = IF \E a \in attempts : a[2] = <<"settle", i>>
                         THEN attempts ELSE attempts \cup {<<1 + top, <<"settle", i>>>>}
  BY DEF SettleAttempt, Numbers
<1>4. QED BY <1>2, <1>3

\* One more attempt leaves a greatest number.
LEMMA OneMoreCounted ==
  ASSUME attempts \subseteq (Nat \ {0}) \X AttemptKeys, Counted, NEW n \in Nat, NEW key,
         attempts' = attempts \cup {<<n, key>>}
  PROVE  Counted'
<1>1. PICK m \in {0} \cup {a[1] : a \in attempts} : \A a \in attempts : a[1] <= m
  BY DEF Counted
<1>2. m \in Nat /\ \A a \in attempts : a[1] \in Nat
  OBVIOUS
<1> DEFINE top == IF n <= m THEN m ELSE n
<1>3. top \in {0} \cup {a[1] : a \in attempts'}
  OBVIOUS
<1>4. \A a \in attempts' : a[1] <= top
  BY <1>1, <1>2
<1>5. QED BY <1>3, <1>4 DEF Counted
-------------------------------------------------------------------------------
(***************************************************************************)
(* What happens outside only grows.                                        *)
(***************************************************************************)
Seen == [state : IntentStates, answer : Answers \cup {"none"}]
StripeOK == stripe \in [Intents -> Seen]

LEMMA StripeHasStores ==
  ASSUME StripeOK, NEW i \in Intents, NEW state \in IntentStates, StripeHas(i, state)
  PROVE  /\ StripeOK'
         /\ stripe'[i].state = state /\ stripe'[i].answer = stripe[i].answer
         /\ \A j \in Intents \ {i} : stripe'[j] = stripe[j]
<1>1. stripe[i] \in Seen
  BY DEF StripeOK
<1>2. [stripe[i] EXCEPT !.state = state] \in Seen
  BY <1>1 DEF Seen
<1>3. stripe' = [stripe EXCEPT ![i] = [stripe[i] EXCEPT !.state = state]]
  BY DEF StripeHas
<1>4. [stripe[i] EXCEPT !.state = state].state = state
  BY <1>1 DEF Seen
<1>5. [stripe[i] EXCEPT !.state = state].answer = stripe[i].answer
  BY <1>1 DEF Seen
<1>6. QED BY <1>2, <1>3, <1>4, <1>5 DEF StripeOK

LEMMA StripeChargesStores ==
  ASSUME StripeOK, NEW i \in Intents, NEW answer \in Answers, StripeCharges(i, answer)
  PROVE  /\ StripeOK'
         /\ stripe[i].state = "none"
         /\ stripe'[i].state = answer /\ stripe'[i].answer = answer
         /\ \A j \in Intents \ {i} : stripe'[j] = stripe[j]
         /\ answer = "declined" => "declines" \in scenario
<1>1. [state |-> answer, answer |-> answer] \in Seen
  BY DEF Seen, IntentStates
<1>2. stripe' = [stripe EXCEPT ![i] = [state |-> answer, answer |-> answer]]
  BY DEF StripeCharges
<1>3. QED BY <1>1, <1>2 DEF StripeOK, StripeCharges

\* An intent that exists goes on existing with the answer it had, a capture
\* and a refund are never taken back, nothing announced is forgotten.
Grows ==
  /\ scenario' = scenario
  /\ sent \subseteq sent'
  /\ \A i \in Intents :
       /\ stripe[i].state = "succeeded" => stripe'[i].state = "succeeded"
       /\ stripe[i].state # "none" =>
            stripe'[i].state # "none" /\ stripe'[i].answer = stripe[i].answer
       /\ refunded[i] # "none" => refunded'[i] # "none"

\* Most steps leave the outside alone.
Quiet == UNCHANGED <<stripe, refunded, sent, scenario>>

LEMMA QuietGrows == Quiet => Grows
  BY DEF Quiet, Grows

\* Writing a state over any other than a capture.
LEMMA HasGrows ==
  ASSUME StripeOK, NEW i \in Intents, NEW state \in IntentStates, StripeHas(i, state),
         stripe[i].state = "succeeded" => state = "succeeded", state # "none",
         UNCHANGED <<refunded, scenario>>, sent \subseteq sent'
  PROVE  Grows
  BY StripeHasStores DEF Grows

LEMMA ChargesGrows ==
  ASSUME StripeOK, NEW i \in Intents, NEW answer \in Answers, StripeCharges(i, answer),
         UNCHANGED <<refunded, scenario>>
  PROVE  Grows
<1>1. sent \subseteq sent'
  BY DEF StripeCharges, Send
<1>2. QED BY <1>1, StripeChargesStores DEF Grows

\* The steps that are not quiet.
LEMMA QuietSteps ==
  ASSUME NEW c \in Callers,
         \/ RecoveryWindowPasses
         \/ TakeJob(c) \/ Crash(c)
         \/ (\E i \in Intents : ConfirmPayment(c, i)) \/ RetryPayment(c) \/ SweepRead(c)
         \/ Acknowledge(c) \/ PendingRead(c)
         \/ SettleRead(c) \/ SettleClaim(c) \/ SettleCreate(c) \/ Quarantine(c)
         \/ PostRefund(c)
         \/ RecordAttempt(c) \/ SettleFails(c) \/ OpenRecovery(c)
         \/ RetryMark(c) \/ RetryEnds(c) \/ Expire(c)
  PROVE  Quiet
  BY DEF RecoveryWindowPasses, TakeJob, ChargeAuctionWinner, HandleSucceeded, RecordFailure,
         HandleCanceled, HandleSessionExpired, HandleRefunded, Take, Crash, ConfirmPayment,
         RetryPayment, SweepRead, Acknowledge, PendingRead, SettleRead, SettleClaim,
         SettleCreate, Quarantine, PostRefund, RecordAttempt, SettleFails, OpenRecovery,
         RetryMark, RetryEnds, Expire, Quiet

\* A caller's intent, where its step has one.
LEMMA HasIntent ==
  ASSUME CallOK, NEW c \in Callers, CallShape(c)
  PROVE  /\ call[c] \in Calls
         /\ call[c].pc \in Pending => call[c].intent \in Checkouts
         /\ call[c].pc \in Pending \cup {"settleRead", "settle", "settleCreate", "quarantine",
                              "refundPost", "winnerCharge", "recordAttempt", "retryMark",
                              "retryCharge"}
              => call[c].intent \in Intents
<1>1. call[c] \in Calls
  BY DEF CallOK
<1>2. call[c].no \in 0..MaxAttempts + 1
  BY <1>1 DEF Calls
<1>3. call[c].no > 0 => call[c].no \in 1..MaxAttempts + 1
  BY <1>2, AttemptsAssumption
<1>4. call[c].pc \in Pending => call[c].intent \in Checkouts
  BY DEF CallShape
<1>5. call[c].pc \in {"settleRead", "settle", "settleCreate", "quarantine", "refundPost"}
      => call[c].intent \in Intents
  BY DEF CallShape
<1>6. call[c].pc \in {"winnerCharge", "recordAttempt"} => call[c].intent \in Intents
  BY <1>3, IntentKinds DEF CallShape, Charging
<1>7. call[c].pc \in {"retryMark", "retryCharge"} => call[c].intent \in Intents
  BY <1>3, IntentKinds DEF CallShape, Retrying
<1>8. QED BY <1>1, <1>4, <1>5, <1>6, <1>7, IntentKinds

\* The parts of the type the steps are about.
LEMMA Typed ==
  ASSUME TypeOK
  PROVE  CallOK /\ StripeOK
  BY DEF TypeOK, CallOK, StripeOK, Seen

LEMMA EnvironmentGrows ==
  ASSUME Shaped, Environment
  PROVE  Grows
<1>1. StripeOK
  BY Typed DEF Shaped
<1>2. \A jobs : Send(jobs) => sent \subseteq sent'
  BY DEF Send
<1>3. ASSUME NEW i \in Intents, BuyerPays(i)
      PROVE  Grows
  <2>1. "succeeded" \in IntentStates
    BY DEF IntentStates, Answers
  <2>2. QED BY <1>1, <1>2, <1>3, <2>1, HasGrows DEF BuyerPays, Succeeds
<1>4. ASSUME NEW i \in Intents, CardDeclined(i)
      PROVE  Grows
  <2>1. "declined" \in IntentStates
    BY DEF IntentStates, Answers
  <2>2. sent \subseteq sent' /\ UNCHANGED <<refunded, scenario>>
    BY <1>2, <1>4 DEF CardDeclined
  <2>3. CASE UNCHANGED stripe
    BY <2>2, <2>3 DEF Grows
  <2>4. CASE stripe[i].state \in {"requires_action", "processing"} /\ StripeHas(i, "declined")
    BY <1>1, <2>1, <2>2, <2>4, HasGrows
  <2>5. QED BY <1>4, <2>3, <2>4 DEF CardDeclined
<1>5. ASSUME NEW i \in Checkouts, CheckoutAbandoned(i)
      PROVE  Grows
  <2>1. "canceled" \in IntentStates /\ i \in Intents
    BY IntentKinds DEF IntentStates
  <2>2. QED BY <1>1, <1>2, <1>5, <2>1, HasGrows DEF CheckoutAbandoned
<1>6. ASSUME NEW i \in Intents, NEW amount \in {"partial", "full"}, DashboardRefund(i, amount)
      PROVE  Grows
  <2>1. refunded' = [refunded EXCEPT ![i] = amount] /\ refunded[i] = "none"
    BY <1>6 DEF DashboardRefund
  <2>2. refunded \in [Intents -> {"none", "partial", "full"}]
    BY DEF Shaped, TypeOK
  <2>3. \A j \in Intents : refunded[j] # "none" => refunded'[j] # "none"
    BY <2>1, <2>2
  <2>4. QED BY <1>2, <1>6, <2>3 DEF DashboardRefund, Grows
<1>7. AuctionCloses => Grows
  BY <1>2 DEF AuctionCloses, Grows
<1>8. RecoveryWindowPasses => Grows
  BY DEF RecoveryWindowPasses, Grows
<1>9. QED BY <1>3, <1>4, <1>5, <1>6, <1>7, <1>8 DEF Environment

LEMMA CallerGrows ==
  ASSUME Shaped, NEW c \in Callers, Request(c) \/ TakeJob(c) \/ Continue(c) \/ Crash(c)
  PROVE  Grows
<1>1. StripeOK /\ CallOK /\ CallShape(c)
  BY Typed DEF Shaped
<1>2. ASSUME NEW i \in Checkouts, StartCheckout(c, i)
      PROVE  Grows
  <2>1. "created" \in IntentStates /\ i \in Intents
    BY IntentKinds DEF IntentStates
  <2>2. QED BY <1>1, <1>2, <2>1, HasGrows DEF StartCheckout
<1>3. ASSUME PendingWrite(c)
      PROVE  Grows
  <2>1. "open" \in IntentStates
    BY DEF IntentStates
  <2>2. call[c].intent \in Intents
    BY <1>1, <1>3, HasIntent DEF PendingWrite, Pending
  <2>3. CASE UNCHANGED stripe
    BY <1>3, <2>3 DEF PendingWrite, Grows
  <2>4. CASE stripe[call[c].intent].state = "created" /\ StripeHas(call[c].intent, "open")
    BY <1>1, <1>3, <2>1, <2>2, <2>4, HasGrows DEF PendingWrite
  <2>5. QED BY <1>3, <2>3, <2>4 DEF PendingWrite
<1>4. ASSUME WinnerCharge(c) \/ RetryCharge(c)
      PROVE  Grows
  <2>1. call[c].intent \in Intents
    BY <1>1, <1>4, HasIntent DEF WinnerCharge, RetryCharge
  <2>2. UNCHANGED <<refunded, scenario>>
    BY <1>4 DEF WinnerCharge, RetryCharge
  <2>3. \/ UNCHANGED <<stripe, sent>>
        \/ \E answer \in Answers : StripeCharges(call[c].intent, answer)
    BY <1>4 DEF WinnerCharge, RetryCharge
  <2>4. CASE UNCHANGED <<stripe, sent>>
    BY <2>2, <2>4 DEF Grows
  <2>5. CASE \E answer \in Answers : StripeCharges(call[c].intent, answer)
    BY <1>1, <2>1, <2>2, <2>5, ChargesGrows
  <2>6. QED BY <2>3, <2>4, <2>5
<1>5. QED
  BY <1>2, <1>3, <1>4, QuietSteps, QuietGrows DEF Request, Continue
-------------------------------------------------------------------------------
(***************************************************************************)
(* Calls keep their shape.                                                 *)
(***************************************************************************)
Moved(c) ==
  /\ CallOK'
  /\ CallShape(c)'
  /\ \A d \in Callers \ {c} : call'[d] = call[d]

\* Whoever does not move keeps its shape.
LEMMA Bystander ==
  ASSUME Shaped, Grows, NEW d \in Callers, call'[d] = call[d]
  PROVE  CallShape(d)'
<1>1. CallShape(d) /\ CallOK
  BY Typed DEF Shaped
<1>2. \A i \in Intents : Reconciles(i) => Reconciles(i)'
  BY DEF Reconciles, Grows
<1>3. call[d].pc = "recordAttempt" => call[d].intent \in Intents
  BY <1>1, HasIntent
<1>4. QED BY <1>1, <1>2, <1>3 DEF CallShape, Grows

LEMMA MovedIdle ==
  ASSUME NEW c \in Callers, Becomes(c, Idle)
  PROVE  Moved(c)
<1>1. call'[c] = Call("idle", NoIntent, 0, NoJob)
  BY DEF Becomes, Idle
<1>2. CallShape(c)'
  BY <1>1 DEF CallShape, Call, Idle, Pending, Charging, Retrying, RetryEndings
<1>3. QED BY <1>2 DEF Moved, Becomes, CallOK

\* What a step that only changes the program counter keeps.
LEMMA MovedAt ==
  ASSUME Shaped, Grows, NEW c \in Callers, NEW pc, Becomes(c, At(c, pc))
  PROVE  /\ call'[c].pc = pc /\ call'[c].intent = call[c].intent
         /\ call'[c].no = call[c].no /\ call'[c].job = call[c].job
         /\ CallOK' /\ \A d \in Callers \ {c} : call'[d] = call[d]
         /\ call'[c].job # NoJob => call'[c].job \in sent'
         /\ call'[c].no > 0 => \/ call'[c].job = ChargeWinner
                               \/ call'[c].job = NoJob /\ "retry" \in scenario'
<1>1. call'[c] = Call(pc, call[c].intent, call[c].no, call[c].job)
  BY DEF Becomes, At
<1>2. CallShape(c)
  BY DEF Shaped
<1>3. call'[c].pc = pc /\ call'[c].intent = call[c].intent
      /\ call'[c].no = call[c].no /\ call'[c].job = call[c].job
  BY <1>1 DEF Call
<1>4. QED BY <1>2, <1>3 DEF CallShape, Grows, Becomes, CallOK

\* A step with a plain record asks nothing of its other fields.
LEMMA MovedPlain ==
  ASSUME Shaped, Grows, NEW c \in Callers, NEW pc \in {"ack", "expire"}, Becomes(c, At(c, pc))
  PROVE  Moved(c)
  BY MovedAt DEF CallShape, Pending, Charging, Retrying, RetryEndings, Moved

LEMMA MovedDone ==
  ASSUME Shaped, Grows, NEW c \in Callers, Done(c)
  PROVE  Moved(c)
  BY Typed, DoneStores, MovedIdle, MovedPlain DEF Shaped

LEMMA MovedSettled ==
  ASSUME Shaped, Grows, NEW c \in Callers, Settled(c)
  PROVE  Moved(c)
<1>1. CallOK
  BY Typed DEF Shaped
<1>2. ASSUME call[c].no > 0, call[c].job = NoJob, Becomes(c, At(c, "recovered"))
      PROVE  Moved(c)
    BY <1>2, MovedAt DEF CallShape, Pending, Charging, Retrying, RetryEndings, Moved
<1>3. QED BY <1>1, <1>2, SettledStores, MovedIdle, MovedPlain

\* The steps of settlePaidIntent.
LEMMA MovedToSettle ==
  ASSUME Shaped, Grows, NEW c \in Callers, NEW pc \in {"settle", "settleCreate"},
         Becomes(c, At(c, pc)), call[c].intent \in Intents, Reconciles(call[c].intent)
  PROVE  Moved(c)
<1>1. Reconciles(call[c].intent)'
  BY DEF Reconciles, Grows, Becomes, At, Call
<1>2. QED BY <1>1, MovedAt DEF CallShape, Pending, Charging, Retrying, RetryEndings, Moved

LEMMA MovedToQuarantine ==
  ASSUME Shaped, Grows, NEW c \in Callers, Becomes(c, At(c, "quarantine")),
         call[c].intent \in Intents, "retry" \in scenario
  PROVE  Moved(c)
  BY MovedAt DEF CallShape, Pending, Charging, Retrying, RetryEndings, Moved, Grows

LEMMA MovedToRead ==
  ASSUME Shaped, Grows, NEW c \in Callers, Becomes(c, At(c, "settleRead")),
         call[c].intent \in Intents, stripe'[call[c].intent].state = "succeeded"
  PROVE  Moved(c)
  BY MovedAt DEF CallShape, Pending, Charging, Retrying, RetryEndings, Moved, Grows

\* A winner's charge that goes to recovery, naming its intent or none.
LEMMA MovedToRecover ==
  ASSUME Shaped, Grows, NEW c \in Callers, call[c].no > 0, call[c].job = ChargeWinner,
         NEW i, Becomes(c, Call("recover", i, call[c].no, ChargeWinner))
  PROVE  Moved(c)
<1>1. call[c].job # NoJob => call[c].job \in sent'
  BY DEF Shaped, CallShape, Grows
<1>2. call'[c] = Call("recover", i, call[c].no, ChargeWinner)
  BY DEF Becomes
<1>3. CallShape(c)'
  BY <1>1, <1>2, JobKinds DEF CallShape, Pending, Charging, Retrying, RetryEndings, Call
<1>4. QED BY <1>3 DEF Moved, Becomes, CallOK

\* The steps of a retry.
LEMMA MovedToRetry ==
  ASSUME Shaped, Grows, NEW c \in Callers, NEW pc \in {"retryAction", "retryPending",
         "retryFailed", "recovered"}, Becomes(c, At(c, pc)), call[c].no > 0, call[c].job = NoJob
  PROVE  Moved(c)
  BY MovedAt DEF CallShape, Pending, Charging, Retrying, RetryEndings, Moved

\* What a call that has started knows.
LEMMA Knows ==
  ASSUME Shaped, NEW c \in Callers
  PROVE  /\ CallOK /\ StripeOK /\ call[c] \in Calls /\ CallShape(c)
         /\ call[c].no \in 0..MaxAttempts + 1
         /\ pay.count \in 0..MaxAttempts + 1
         /\ queue \subseteq sent
<1>1. pay.count \in 0..MaxAttempts + 1
  BY DEF Shaped, TypeOK, Payments
<1>2. CallOK /\ StripeOK /\ call[c] \in Calls /\ CallShape(c)
  BY Typed DEF Shaped, CallOK
<1>3. call[c].no \in 0..MaxAttempts + 1
  BY <1>2 DEF Calls
<1>4. QED BY <1>1, <1>2, <1>3 DEF Shaped, SentShape

LEMMA RequestMoves ==
  ASSUME Shaped, Grows, NEW c \in Callers, Request(c)
  PROVE  Moved(c)
<1>1. CallOK /\ NoJob \in Jobs \cup {NoJob} /\ 0 \in 0..MaxAttempts + 1
  BY Knows, AttemptsAssumption
<1>2. ASSUME NEW i \in Checkouts, StartCheckout(c, i)
      PROVE  Moved(c)
  <2>1. i \in Intents /\ i \in Intents \cup {NoIntent} /\ "pendingRead" \in PCs
    BY IntentKinds DEF PCs
  <2>2. Becomes(c, Call("pendingRead", i, 0, NoJob))
    BY <1>1, <1>2, <2>1, EnterStores DEF StartCheckout
  <2>3. QED BY <2>2 DEF Becomes, CallShape, Call, Charging, Retrying, RetryEndings, Moved, CallOK
<1>3. ASSUME NEW i \in Intents, ConfirmPayment(c, i)
      PROVE  Moved(c)
  <2>1. "settleRead" \in PCs /\ stripe'[i].state = "succeeded"
    BY <1>3 DEF PCs, ConfirmPayment
  <2>2. Becomes(c, Call("settleRead", i, 0, NoJob))
    BY <1>1, <1>3, <2>1, EnterStores DEF ConfirmPayment
  <2>3. QED
    BY <2>1, <2>2
    DEF Becomes, CallShape, Call, Pending, Charging, Retrying, RetryEndings, Moved, CallOK
<1>4. "expire" \in PCs /\ "retryMark" \in PCs
  BY DEF PCs
<1>5. ASSUME MoveTo(c, "expire")
      PROVE  Moved(c)
  BY <1>1, <1>4, <1>5, MoveStores, MovedPlain
<1>6. ASSUME "retry" \in scenario, pay.count < MaxAttempts,
             Enter(c, "retryMark", <<"retry", pay.count + 1>>, pay.count + 1, NoJob)
      PROVE  Moved(c)
  <2> DEFINE no == pay.count + 1
  <2>1. no \in 1..MaxAttempts + 1
    BY <1>6, Knows, AttemptsAssumption
  <2>2. no \in 0..MaxAttempts + 1 /\ no > 0 /\ <<"retry", no>> \in Intents
    BY <2>1, Numbered
  <2> HIDE DEF no
  <2>3. Becomes(c, Call("retryMark", <<"retry", no>>, no, NoJob))
    BY <1>1, <1>4, <1>6, <2>2, EnterStores DEF no
  <2>4. QED
    BY <1>6, <2>2, <2>3
    DEF Becomes, CallShape, Call, Pending, Charging, Retrying, RetryEndings, Moved, CallOK, Grows
<1>7. QED BY <1>2, <1>3, <1>5, <1>6 DEF Request, RetryPayment, SweepRead

\* A worker that has taken an event holds its job.
LEMMA EventTaken ==
  ASSUME Shaped, Grows, NEW c \in Callers, NEW type \in EventTypes, NEW i \in Intents,
         NEW pc \in {"ack", "settleRead", "refundPost"}, Take(c, <<type, i>>),
         pc = "settleRead" => stripe'[i].state = "succeeded",
         pc = "refundPost" => refunded'[i] # "none",
         Enter(c, pc, i, 0, <<type, i>>)
  PROVE  Moved(c)
<1>1. CallOK /\ 0 \in 0..MaxAttempts + 1 /\ pc \in PCs
  BY Knows, AttemptsAssumption DEF PCs
<1> DEFINE job == <<type, i>>
<1>2. job \in Jobs \cup {NoJob} /\ job # NoJob /\ job \in sent'
  BY JobKinds, Knows DEF Take
<1> HIDE DEF job
<1>3. Becomes(c, Call(pc, i, 0, job))
  BY <1>1, <1>2, EnterStores DEF job
<1>4. QED
  BY <1>2, <1>3
  DEF Becomes, CallShape, Call, Pending, Charging, Retrying, RetryEndings, Moved, CallOK

\* A worker that has taken the command holds it.
LEMMA CommandTaken ==
  ASSUME Shaped, Grows, NEW c \in Callers, NEW no \in 0..MaxAttempts + 1,
         NEW i \in Intents \cup {NoIntent}, NEW pc \in {"ack", "winnerCharge", "recover"},
         Take(c, ChargeWinner),
         pc # "ack" => no > 0, pc = "winnerCharge" => i = <<"winner", no>>,
         Enter(c, pc, i, no, ChargeWinner)
  PROVE  Moved(c)
<1>1. CallOK /\ pc \in PCs
  BY Knows DEF PCs
<1>2. ChargeWinner \in Jobs \cup {NoJob} /\ ChargeWinner # NoJob /\ ChargeWinner \in sent'
  BY JobKinds, Knows DEF Take
<1>3. Becomes(c, Call(pc, i, no, ChargeWinner))
  BY <1>1, <1>2, EnterStores
<1>4. QED
  BY <1>2, <1>3
  DEF Becomes, CallShape, Call, Pending, Charging, Retrying, RetryEndings, Moved, CallOK

LEMMA TakeMoves ==
  ASSUME Shaped, Grows, NEW c \in Callers, TakeJob(c)
  PROVE  Moved(c)
<1>1. \A i \in Intents : EventShape(i)
  BY DEF Shaped
<1>2. ASSUME NEW i \in Intents, NEW type \in SuccessEvents, HandleSucceeded(c, type, i)
      PROVE  Moved(c)
  <2>1. type \in EventTypes /\ <<type, i>> \in sent
    BY <1>2, Knows DEF EventTypes, SuccessEvents, HandleSucceeded, Take
  <2>2. stripe'[i].state = "succeeded"
    BY <1>1, <2>1, <1>2 DEF EventShape, Grows
  <2>3. QED BY <1>2, <2>1, <2>2, EventTaken DEF HandleSucceeded
<1>3. ASSUME NEW i \in Intents,
             RecordFailure(c, i) \/ HandleCanceled(c, i) \/ HandleSessionExpired(c, i)
      PROVE  Moved(c)
  BY <1>3, EventTaken DEF RecordFailure, HandleCanceled, HandleSessionExpired, EventTypes
<1>4. ASSUME NEW i \in Intents, HandleRefunded(c, i)
      PROVE  Moved(c)
  <2>1. <<"charge.refunded", i>> \in sent
    BY <1>4, Knows DEF HandleRefunded, Take
  <2>2. refunded'[i] # "none" /\ "charge.refunded" \in EventTypes
    BY <1>1, <2>1 DEF EventShape, Grows, EventTypes
  <2> DEFINE pc == IF Names(i) /\ i \notin posted THEN "refundPost" ELSE "ack"
  <2>3. pc \in {"ack", "refundPost"}
    OBVIOUS
  <2>4. Take(c, <<"charge.refunded", i>>) /\ Enter(c, pc, i, 0, <<"charge.refunded", i>>)
    BY <1>4 DEF HandleRefunded
  <2> HIDE DEF pc
  <2>5. QED BY <2>2, <2>3, <2>4, EventTaken
<1>5. ASSUME ChargeAuctionWinner(c)
      PROVE  Moved(c)
  <2>1. Take(c, ChargeWinner)
    BY <1>5 DEF ChargeAuctionWinner
  <2>2. CASE Enter(c, "ack", NoIntent, 0, ChargeWinner)
    <3>1. 0 \in 0..MaxAttempts + 1
      BY AttemptsAssumption
    <3>2. QED BY <2>1, <2>2, <3>1, CommandTaken
  <2>3. CASE /\ pay.count < MaxAttempts + 1
             /\ \/ Enter(c, "winnerCharge", <<"winner", pay.count + 1>>, pay.count + 1, ChargeWinner)
                \/ Enter(c, "recover", NoIntent, pay.count + 1, ChargeWinner)
    <3> DEFINE no == pay.count + 1
    <3>1. no \in 1..MaxAttempts + 1
      BY <2>3, Knows, AttemptsAssumption
    <3>2. no \in 0..MaxAttempts + 1 /\ no > 0 /\ <<"winner", no>> \in Intents
      BY <3>1, Numbered
    <3>3. \/ Enter(c, "winnerCharge", <<"winner", no>>, no, ChargeWinner)
          \/ Enter(c, "recover", NoIntent, no, ChargeWinner)
      BY <2>3
    <3> HIDE DEF no
    <3>4. QED BY <2>1, <3>1, <3>2, <3>3, CommandTaken
  <2>4. QED BY <1>5, <2>2, <2>3 DEF ChargeAuctionWinner
<1>6. QED BY <1>2, <1>3, <1>4, <1>5 DEF TakeJob, SuccessEvents

\* The steps of settlePaidIntent.
LEMMA SettleMoves ==
  ASSUME Shaped, Grows, NEW c \in Callers,
         SettleRead(c) \/ SettleClaim(c) \/ SettleCreate(c) \/ Quarantine(c)
  PROVE  Moved(c)
<1>1. CallOK /\ CallShape(c) /\ {"settle", "settleCreate", "quarantine"} \subseteq PCs
  BY Knows DEF PCs
<1>2. ASSUME SettleRead(c)
      PROVE  Moved(c)
  <2>1. call[c].intent \in Intents /\ stripe[call[c].intent].state = "succeeded"
    BY <1>1, <1>2 DEF SettleRead, CallShape
  <2>2. CASE Reconciles(call[c].intent) /\ MoveTo(c, "settle")
    BY <1>1, <2>1, <2>2, MoveStores, MovedToSettle
  <2>3. CASE ~ Reconciles(call[c].intent) /\ MoveTo(c, "quarantine")
    <3>1. IntentShape(call[c].intent)
      BY <2>1 DEF Shaped
    <3>2. "retry" \in scenario
      BY <2>1, <2>3, <3>1 DEF Reconciles, IntentShape
    <3>3. QED BY <1>1, <2>1, <2>3, <3>2, MoveStores, MovedToQuarantine
  <2>4. CASE Settled(c)
    BY <2>4, MovedSettled
  <2>5. QED BY <1>2, <2>2, <2>3, <2>4 DEF SettleRead
<1>3. ASSUME SettleClaim(c)
      PROVE  Moved(c)
  <2>1. call[c].intent \in Intents /\ Reconciles(call[c].intent)
    BY <1>1, <1>3 DEF SettleClaim, CallShape
  <2>2. CASE MoveTo(c, "settleCreate")
    BY <1>1, <2>1, <2>2, MoveStores, MovedToSettle
  <2>3. CASE Settled(c)
    BY <2>3, MovedSettled
  <2>4. QED BY <1>3, <2>2, <2>3 DEF SettleClaim
<1>4. QED BY <1>2, <1>3, MovedSettled DEF SettleCreate, Quarantine

\* The steps of the winner's charge.
LEMMA ChargeMoves ==
  ASSUME Shaped, Grows, NEW c \in Callers,
         WinnerCharge(c) \/ RecordAttempt(c) \/ SettleFails(c) \/ OpenRecovery(c)
  PROVE  Moved(c)
<1>1. /\ CallOK /\ StripeOK /\ CallShape(c)
      /\ call[c].no \in 0..MaxAttempts + 1
      /\ {"recover", "recordAttempt", "settleRead", "retryFailed"} \subseteq PCs
      /\ ChargeWinner \in Jobs \cup {NoJob}
  BY Knows, JobKinds DEF PCs, RetryEndings
<1>2. ASSUME call[c].no > 0, call[c].job = ChargeWinner,
             Enter(c, "recover", NoIntent, call[c].no, ChargeWinner)
      PROVE  Moved(c)
  BY <1>1, <1>2, EnterStores, MovedToRecover
<1>3. ASSUME call[c].no > 0, call[c].job = ChargeWinner, MoveTo(c, "recover")
      PROVE  Moved(c)
  BY <1>1, <1>3, MoveStores, MovedToRecover DEF At
<1>4. ASSUME WinnerCharge(c)
      PROVE  Moved(c)
  <2>1. /\ call[c].no > 0 /\ call[c].job = ChargeWinner
        /\ call[c].intent = <<"winner", call[c].no>> /\ call[c].intent \in Intents
    BY <1>1, <1>4, HasIntent DEF WinnerCharge, CallShape, Charging
  <2>2. ASSUME NEW answer \in Answers, StripeCharges(call[c].intent, answer),
               MoveTo(c, "recordAttempt")
        PROVE  Moved(c)
    <3>1. stripe'[call[c].intent].state # "none"
      BY <1>1, <2>1, <2>2, StripeChargesStores DEF Answers
    <3>2. Becomes(c, At(c, "recordAttempt"))
      BY <1>1, <2>2, MoveStores
    <3>3. QED
      BY <2>1, <3>1, <3>2, MovedAt
      DEF CallShape, Pending, Charging, Retrying, RetryEndings, Moved
  <2>3. \/ Enter(c, "recover", NoIntent, call[c].no, ChargeWinner)
        \/ MoveTo(c, "recover")
        \/ \E answer \in Answers :
             StripeCharges(call[c].intent, answer) /\ MoveTo(c, "recordAttempt")
    BY <1>4 DEF WinnerCharge
  <2>4. QED BY <1>2, <1>3, <2>1, <2>2, <2>3
<1>5. ASSUME RecordAttempt(c)
      PROVE  Moved(c)
  <2>1. call[c].no > 0 /\ call[c].job = ChargeWinner /\ call[c].intent \in Intents
    BY <1>1, <1>5, HasIntent DEF RecordAttempt, CallShape, Charging
  <2>2. CASE stripe[call[c].intent].answer = "succeeded" /\ MoveTo(c, "settleRead")
    <3>1. IntentShape(call[c].intent)
      BY <2>1 DEF Shaped
    <3>2. stripe'[call[c].intent].state = "succeeded"
      BY <2>1, <2>2, <3>1 DEF IntentShape, Grows
    <3>3. QED BY <1>1, <2>1, <2>2, <3>2, MoveStores, MovedToRead
  <2>3. CASE MoveTo(c, "recover") \/ Enter(c, "recover", NoIntent, call[c].no, ChargeWinner)
    BY <1>2, <1>3, <2>1, <2>3
  <2>4. CASE Done(c)
    BY <2>4, MovedDone
  <2>5. QED BY <1>5, <2>2, <2>3, <2>4 DEF RecordAttempt
<1>6. ASSUME SettleFails(c)
      PROVE  Moved(c)
  <2>1. call[c].no > 0 /\ (call[c].job # NoJob => call[c].job = ChargeWinner)
    BY <1>1, <1>6 DEF SettleFails, CallShape
  <2>2. CASE call[c].job = NoJob /\ MoveTo(c, "retryFailed")
    BY <1>1, <2>1, <2>2, MoveStores, MovedToRetry
  <2>3. CASE call[c].job # NoJob /\ Enter(c, "recover", NoIntent, call[c].no, ChargeWinner)
    BY <1>2, <2>1, <2>3
  <2>4. QED BY <1>6, <2>2, <2>3 DEF SettleFails
<1>7. ASSUME OpenRecovery(c)
      PROVE  Moved(c)
  BY <1>1, <1>7, MovedDone, FinishStores, MovedIdle DEF OpenRecovery
<1>8. QED BY <1>4, <1>5, <1>6, <1>7

\* The steps of a retry.
LEMMA RetryMoves ==
  ASSUME Shaped, Grows, NEW c \in Callers,
         RetryMark(c) \/ RetryCharge(c) \/ RetryEnds(c) \/ Expire(c)
  PROVE  Moved(c)
<1>1. /\ CallOK /\ StripeOK /\ CallShape(c)
      /\ {"retryCharge", "settleRead", "retryAction", "retryPending", "retryFailed"} \subseteq PCs
  BY Knows DEF PCs, RetryEndings
<1>2. ASSUME RetryMark(c)
      PROVE  Moved(c)
  <2>1. call[c].no > 0 /\ call[c].job = NoJob /\ call[c].intent = <<"retry", call[c].no>>
    BY <1>1, <1>2 DEF RetryMark, CallShape, Retrying
  <2>2. Becomes(c, At(c, "retryCharge"))
    BY <1>1, <1>2, MoveStores DEF RetryMark
  <2>3. QED
    BY <2>1, <2>2, MovedAt DEF CallShape, Pending, Charging, Retrying, RetryEndings, Moved
<1>3. ASSUME RetryCharge(c)
      PROVE  Moved(c)
  <2>1. /\ call[c].no > 0 /\ call[c].job = NoJob
        /\ call[c].intent = <<"retry", call[c].no>> /\ call[c].intent \in Intents
    BY <1>1, <1>3, HasIntent DEF RetryCharge, CallShape, Retrying
  <2>2. ASSUME MoveTo(c, "retryFailed")
        PROVE  Moved(c)
    BY <1>1, <2>1, <2>2, MoveStores, MovedToRetry
  <2>3. ASSUME NEW answer \in Answers, MoveTo(c, AfterRetry[answer]),
               answer = "succeeded" => stripe'[call[c].intent].state = "succeeded"
        PROVE  Moved(c)
    <3>1. CASE answer = "succeeded"
      <4>1. AfterRetry[answer] = "settleRead"
        BY <3>1 DEF AfterRetry
      <4>2. QED BY <1>1, <2>1, <2>3, <3>1, <4>1, MoveStores, MovedToRead
    <3>2. CASE answer # "succeeded"
      <4>1. AfterRetry[answer] \in {"retryAction", "retryPending", "retryFailed"}
        BY <2>3, <3>2 DEF AfterRetry, Answers
      <4>2. QED BY <1>1, <2>1, <2>3, <4>1, MoveStores, MovedToRetry
    <3>3. QED BY <3>1, <3>2
  <2>4. ASSUME NEW answer \in Answers, StripeCharges(call[c].intent, answer),
               MoveTo(c, AfterRetry[answer])
        PROVE  Moved(c)
    BY <1>1, <2>1, <2>3, <2>4, StripeChargesStores
  <2>5. ASSUME stripe[call[c].intent].state # "none",
               MoveTo(c, AfterRetry[stripe[call[c].intent].answer])
        PROVE  Moved(c)
    <3>1. IntentShape(call[c].intent) /\ call[c].intent \notin Checkouts
      BY <2>1, IntentKinds DEF Shaped
    <3>2. /\ stripe[call[c].intent].answer \in Answers
          /\ stripe[call[c].intent].answer = "succeeded"
               => stripe'[call[c].intent].state = "succeeded"
      BY <2>1, <2>5, <3>1 DEF IntentShape, Grows
    <3>3. QED BY <2>3, <2>5, <3>2
  <2>6. QED BY <1>3, <2>2, <2>4, <2>5 DEF RetryCharge
<1>4. ASSUME RetryEnds(c) \/ Expire(c)
      PROVE  Moved(c)
  BY <1>1, <1>4, FinishStores, MovedIdle DEF RetryEnds, Expire
<1>5. QED BY <1>2, <1>3, <1>4

LEMMA CallerMoves ==
  ASSUME Shaped, Grows, NEW c \in Callers, Request(c) \/ TakeJob(c) \/ Continue(c) \/ Crash(c)
  PROVE  Moved(c)
<1>1. CallOK /\ CallShape(c) /\ "pendingWrite" \in PCs
  BY Knows DEF PCs
<1>2. ASSUME Acknowledge(c) \/ Crash(c) \/ PendingWrite(c) \/ PostRefund(c)
      PROVE  Moved(c)
  BY <1>1, <1>2, FinishStores, MovedIdle, MovedDone DEF Acknowledge, Crash, PendingWrite, PostRefund
<1>3. ASSUME PendingRead(c)
      PROVE  Moved(c)
  <2>1. call[c].intent \in Checkouts
    BY <1>1, <1>3 DEF PendingRead, CallShape, Pending
  <2>2. CASE MoveTo(c, "pendingWrite")
    BY <1>1, <2>1, <2>2, MoveStores, MovedAt
    DEF CallShape, Pending, Charging, Retrying, RetryEndings, Moved
  <2>3. CASE Finish(c)
    BY <1>1, <2>3, FinishStores, MovedIdle
  <2>4. QED BY <1>3, <2>2, <2>3 DEF PendingRead
<1>4. QED
  BY <1>2, <1>3, RequestMoves, TakeMoves, SettleMoves, ChargeMoves, RetryMoves DEF Continue

\* So every caller keeps its shape.
LEMMA CallStep ==
  ASSUME Shaped, [Next]_vars
  PROVE  /\ Grows /\ CallOK'
         /\ \A c \in Callers : CallShape(c)'
<1>1. CallOK
  BY Typed DEF Shaped
<1>2. CASE UNCHANGED vars
  <2>1. Grows /\ CallOK'
    BY <1>1, <1>2 DEF Grows, CallOK
  <2>2. QED BY <1>2, <2>1, Bystander
<1>3. CASE Environment
  <2>1. Grows /\ UNCHANGED call
    BY <1>3, EnvironmentGrows
    DEF Environment, BuyerPays, CardDeclined, CheckoutAbandoned, DashboardRefund, AuctionCloses,
        RecoveryWindowPasses
  <2>2. QED BY <1>1, <2>1, Bystander DEF CallOK
<1>4. ASSUME NEW c \in Callers, Request(c) \/ TakeJob(c) \/ Continue(c) \/ Crash(c)
      PROVE  /\ Grows /\ CallOK'
             /\ \A d \in Callers : CallShape(d)'
  <2>1. Grows /\ Moved(c)
    BY <1>4, CallerGrows, CallerMoves
  <2>2. QED BY <2>1, Bystander DEF Moved
<1>5. QED BY <1>2, <1>3, <1>4 DEF Next
-------------------------------------------------------------------------------
(***************************************************************************)
(* Intents and events keep their shape.                                    *)
(***************************************************************************)
\* What the steps that do not book leave of an intent's shape.
LEMMA IntentKept ==
  ASSUME Shaped, Grows, NEW i \in Intents, stripe'[i] = stripe[i], refunded'[i] = refunded[i],
         charges'[i] = charges[i]
  PROVE  IntentShape(i)'
<1>1. IntentShape(i)
  BY DEF Shaped
<1>2. QED BY <1>1 DEF IntentShape, Reconciles, Grows

\* A state written over one that was not a capture, a refund of a capture.
LEMMA IntentHas ==
  ASSUME Shaped, Grows, NEW i \in Intents, NEW state \in IntentStates, StripeHas(i, state),
         stripe[i].state # "succeeded", stripe[i].state # "none" \/ i \in Checkouts,
         UNCHANGED <<refunded, charges>>
  PROVE  \A j \in Intents : IntentShape(j)'
<1>1. StripeOK
  BY Typed DEF Shaped
<1>2. IntentShape(i)
  BY DEF Shaped
<1>3. /\ stripe'[i].state = state /\ stripe'[i].answer = stripe[i].answer
      /\ \A j \in Intents \ {i} : stripe'[j] = stripe[j]
  BY <1>1, StripeHasStores
<1>4. IntentShape(i)'
  BY <1>2, <1>3, IntentKinds DEF IntentShape, Reconciles, Grows
<1>5. QED BY <1>3, <1>4, IntentKept

LEMMA IntentCharged ==
  ASSUME Shaped, Grows, NEW i \in Intents, NEW answer \in Answers, StripeCharges(i, answer),
         i[1] = "winner" => "auction" \in scenario, i[1] = "retry" => "retry" \in scenario,
         i \notin Checkouts, UNCHANGED <<refunded, charges>>
  PROVE  \A j \in Intents : IntentShape(j)'
<1>1. StripeOK
  BY Typed DEF Shaped
<1>2. IntentShape(i)
  BY DEF Shaped
<1>3. /\ stripe[i].state = "none"
      /\ stripe'[i].state = answer /\ stripe'[i].answer = answer
      /\ \A j \in Intents \ {i} : stripe'[j] = stripe[j]
  BY <1>1, StripeChargesStores
<1>4. refunded'[i] = "none" /\ ~ charges'[i] > 0
  BY <1>2, <1>3 DEF IntentShape, Reconciles
<1>5. IntentShape(i)'
  BY <1>3, <1>4 DEF IntentShape, Grows
<1>6. QED BY <1>3, <1>5, IntentKept

LEMMA IntentRefunded ==
  ASSUME Shaped, Grows, NEW i \in Intents, NEW amount \in {"partial", "full"},
         DashboardRefund(i, amount)
  PROVE  \A j \in Intents : IntentShape(j)'
<1>1. refunded \in [Intents -> {"none", "partial", "full"}] /\ IntentShape(i)
  BY DEF Shaped, TypeOK
<1>2. \A j \in Intents \ {i} : refunded'[j] = refunded[j]
  BY <1>1 DEF DashboardRefund
<1>3. UNCHANGED <<stripe, charges>> /\ stripe[i].state = "succeeded" /\ "refunds" \in scenario
  BY DEF DashboardRefund
<1>4. IntentShape(i)'
  BY <1>1, <1>3 DEF IntentShape, Reconciles, Grows
<1>5. QED BY <1>2, <1>3, <1>4, IntentKept

\* Only an intent that reconciles is booked.
LEMMA IntentBooked ==
  ASSUME Shaped, Grows, NEW i \in Intents, Reconciles(i), Book(i), Quiet
  PROVE  \A j \in Intents : IntentShape(j)'
<1>1. charges \in [Intents -> 0..2] /\ IntentShape(i)
  BY DEF Shaped, TypeOK
<1>2. \A j \in Intents \ {i} : charges'[j] = charges[j]
  BY <1>1 DEF Book
<1>3. UNCHANGED <<stripe, refunded>>
  BY DEF Quiet
<1>4. IntentShape(i)'
  BY <1>1, <1>3 DEF IntentShape, Reconciles, Grows
<1>5. QED BY <1>2, <1>3, <1>4, IntentKept

LEMMA IntentStep ==
  ASSUME Shaped, Grows, [Next]_vars
  PROVE  \A i \in Intents : IntentShape(i)'
<1> DEFINE Goal == \A i \in Intents : IntentShape(i)'
<1>1. UNCHANGED <<stripe, refunded, charges>> => Goal
  BY IntentKept
<1>2. ASSUME NEW i \in Intents, BuyerPays(i)
      PROVE  Goal
  <2>1. "succeeded" \in IntentStates
    BY DEF IntentStates, Answers
  <2>2. QED BY <1>2, <2>1, IntentHas DEF BuyerPays, Succeeds
<1>3. ASSUME NEW i \in Intents, CardDeclined(i)
      PROVE  Goal
  <2>1. "declined" \in IntentStates
    BY DEF IntentStates, Answers
  <2>2. QED BY <1>1, <1>3, <2>1, IntentHas DEF CardDeclined
<1>4. ASSUME NEW i \in Checkouts, CheckoutAbandoned(i)
      PROVE  Goal
  <2>1. "canceled" \in IntentStates /\ i \in Intents
    BY IntentKinds DEF IntentStates
  <2>2. QED BY <1>4, <2>1, IntentHas DEF CheckoutAbandoned
<1>5. ASSUME NEW c \in Callers, NEW i \in Checkouts, StartCheckout(c, i)
      PROVE  Goal
  <2>1. "created" \in IntentStates /\ i \in Intents
    BY IntentKinds DEF IntentStates
  <2>2. QED BY <1>5, <2>1, IntentHas DEF StartCheckout
<1>6. ASSUME NEW c \in Callers, PendingWrite(c)
      PROVE  Goal
  <2>1. "open" \in IntentStates /\ call[c].intent \in Intents
    BY <1>6, Knows, HasIntent DEF IntentStates, PendingWrite, Pending
  <2>2. CASE UNCHANGED stripe
    BY <1>1, <1>6, <2>2 DEF PendingWrite
  <2>3. CASE stripe[call[c].intent].state = "created" /\ StripeHas(call[c].intent, "open")
    BY <1>6, <2>1, <2>3, IntentHas DEF PendingWrite
  <2>4. QED BY <1>6, <2>2, <2>3 DEF PendingWrite
<1>7. ASSUME NEW c \in Callers, WinnerCharge(c) \/ RetryCharge(c)
      PROVE  Goal
  <2>1. /\ call[c].intent \in Intents /\ call[c].intent \notin Checkouts
        /\ call[c].intent[1] = "winner" => "auction" \in scenario
        /\ call[c].intent[1] = "retry" => "retry" \in scenario
    <3>1. CallShape(c) /\ CallOK
      BY Knows
    <3>2. CASE WinnerCharge(c)
      <4>1. /\ call[c].intent = <<"winner", call[c].no>> /\ call[c].intent \in Intents
            /\ call[c].job = ChargeWinner /\ call[c].job \in sent
        BY <3>1, <3>2, HasIntent, JobKinds DEF WinnerCharge, CallShape, Charging
      <4>2. QED BY <4>1, IntentKinds DEF Shaped, SentShape
    <3>3. CASE RetryCharge(c)
      <4>1. /\ call[c].intent = <<"retry", call[c].no>> /\ call[c].intent \in Intents
            /\ "retry" \in scenario
        BY <3>1, <3>3, HasIntent, JobKinds DEF RetryCharge, CallShape, Retrying
      <4>2. QED BY <4>1, IntentKinds
    <3>4. QED BY <1>7, <3>2, <3>3
  <2>2. UNCHANGED <<refunded, charges>>
    BY <1>7 DEF WinnerCharge, RetryCharge
  <2>3. \/ UNCHANGED stripe
        \/ \E answer \in Answers : StripeCharges(call[c].intent, answer)
    BY <1>7 DEF WinnerCharge, RetryCharge
  <2>4. QED BY <1>1, <2>1, <2>2, <2>3, IntentCharged
<1>8. ASSUME NEW c \in Callers, SettleClaim(c) \/ SettleCreate(c)
      PROVE  Goal
  <2>1. call[c].intent \in Intents /\ Reconciles(call[c].intent)
    BY <1>8, Knows DEF SettleClaim, SettleCreate, CallShape
  <2>2. Quiet
    BY <1>8, QuietSteps
  <2>3. Book(call[c].intent) \/ UNCHANGED charges
    BY <1>8 DEF SettleClaim, SettleCreate
  <2>4. QED BY <1>1, <2>1, <2>2, <2>3, IntentBooked DEF Quiet
<1>9. ASSUME NEW c \in Callers,
             \/ TakeJob(c) \/ Crash(c)
             \/ (\E i \in Intents : ConfirmPayment(c, i)) \/ RetryPayment(c) \/ SweepRead(c)
             \/ Acknowledge(c) \/ PendingRead(c) \/ SettleRead(c) \/ Quarantine(c)
             \/ PostRefund(c) \/ RecordAttempt(c) \/ SettleFails(c) \/ OpenRecovery(c)
             \/ RetryMark(c) \/ RetryEnds(c) \/ Expire(c)
      PROVE  Goal
  <2>1. Quiet
    BY <1>9, QuietSteps
  <2>2. UNCHANGED charges
    BY <1>9
    DEF TakeJob, ChargeAuctionWinner, HandleSucceeded, RecordFailure,
        HandleCanceled, HandleSessionExpired, HandleRefunded, Crash, ConfirmPayment,
        RetryPayment, SweepRead, Acknowledge, PendingRead, SettleRead, Quarantine,
        PostRefund, RecordAttempt, SettleFails, OpenRecovery, RetryMark, RetryEnds, Expire
  <2>3. QED BY <1>1, <2>1, <2>2 DEF Quiet
<1>10. AuctionCloses \/ RecoveryWindowPasses => Goal
  BY <1>1 DEF AuctionCloses, RecoveryWindowPasses
<1>11. ASSUME NEW i \in Intents, NEW amount \in {"partial", "full"}, DashboardRefund(i, amount)
       PROVE  Goal
  BY <1>11, IntentRefunded
<1>12. UNCHANGED vars => Goal
  BY <1>1
<1> HIDE DEF Goal
<1>13. QED
  BY <1>2, <1>3, <1>4, <1>5, <1>6, <1>7, <1>8, <1>9, <1>10, <1>11, <1>12
  DEF Next, Environment, Request, Continue, Goal

\* What a job that is announced says is so.
Told(job) ==
  \/ job[1] \in SuccessEvents /\ stripe[job[2]].state = "succeeded"
  \/ job[1] = "charge.refunded" /\ refunded[job[2]] # "none"
  \/ job[1] = "payment_intent.payment_failed" /\ "declines" \in scenario
  \/ job[1] \in {"payment_intent.canceled", "checkout.session.expired"}
  \/ job = ChargeWinner /\ "auction" \in scenario

Events == /\ \A i \in Intents : EventShape(i)
          /\ SentShape
          /\ sent \subseteq Jobs

LEMMA EventsKept ==
  ASSUME Shaped, Grows, UNCHANGED sent, queue' \subseteq sent
  PROVE  Events'
<1>1. \A i \in Intents : EventShape(i)'
  BY DEF Shaped, EventShape, Grows
<1>2. QED BY <1>1 DEF Shaped, SentShape, Grows, Events, TypeOK

LEMMA EventsSent ==
  ASSUME Shaped, Grows, NEW jobs \in SUBSET Jobs, Send(jobs), \A job \in jobs : Told(job)'
  PROVE  Events'
<1>1. sent' = sent \cup jobs /\ queue' = queue \cup (jobs \ sent)
  BY DEF Send
<1>2. ASSUME NEW i \in Intents
      PROVE  EventShape(i)'
  <2>1. EventShape(i)
    BY DEF Shaped
  <2>2. ASSUME NEW type \in SuccessEvents, <<type, i>> \in sent'
        PROVE  stripe'[i].state = "succeeded"
    <3>1. CASE <<type, i>> \in sent
      BY <2>1, <2>2, <3>1 DEF EventShape, Grows
    <3>2. CASE <<type, i>> \in jobs
      <4>1. Told(<<type, i>>)'
        BY <3>2
      <4>2. QED BY <2>2, <4>1 DEF Told, SuccessEvents, ChargeWinner
    <3>3. QED BY <1>1, <2>2, <3>1, <3>2
  <2>3. ASSUME <<"charge.refunded", i>> \in sent'
        PROVE  refunded'[i] # "none"
    <3>1. CASE <<"charge.refunded", i>> \in sent
      BY <2>1, <3>1 DEF EventShape, Grows
    <3>2. CASE <<"charge.refunded", i>> \in jobs
      <4>1. Told(<<"charge.refunded", i>>)'
        BY <3>2
      <4>2. QED BY <4>1 DEF Told, SuccessEvents, ChargeWinner
    <3>3. QED BY <1>1, <2>3, <3>1, <3>2
  <2>4. ASSUME <<"payment_intent.payment_failed", i>> \in sent'
        PROVE  "declines" \in scenario'
    <3>1. CASE <<"payment_intent.payment_failed", i>> \in sent
      BY <2>1, <3>1 DEF EventShape, Grows
    <3>2. CASE <<"payment_intent.payment_failed", i>> \in jobs
      <4>1. Told(<<"payment_intent.payment_failed", i>>)'
        BY <3>2
      <4>2. QED BY <4>1 DEF Told, SuccessEvents, ChargeWinner
    <3>3. QED BY <1>1, <2>4, <3>1, <3>2
  <2>5. QED BY <2>2, <2>3, <2>4 DEF EventShape
<1>3. SentShape'
  <2>1. CASE ChargeWinner \in jobs
    <3>1. Told(ChargeWinner)'
      BY <2>1
    <3>2. "auction" \in scenario'
      BY <3>1 DEF Told, SuccessEvents, ChargeWinner
    <3>3. QED BY <1>1, <3>2 DEF Shaped, SentShape
  <2>2. CASE ChargeWinner \notin jobs
    BY <1>1, <2>2 DEF Shaped, SentShape, Grows
  <2>3. QED BY <2>1, <2>2
<1>4. QED BY <1>1, <1>2, <1>3 DEF Events, Shaped, TypeOK

\* What Stripe announces of a charge.
LEMMA EventsCharged ==
  ASSUME Shaped, Grows, NEW i \in Intents, NEW answer \in Answers, StripeCharges(i, answer)
  PROVE  Events'
<1>1. stripe'[i].state = answer /\ (answer = "declined" => "declines" \in scenario')
  BY Typed, StripeChargesStores DEF Shaped, Grows
<1> DEFINE jobs == CASE answer = "succeeded" -> {<<"payment_intent.succeeded", i>>}
                     [] answer = "declined"  -> {<<"payment_intent.payment_failed", i>>}
                     [] OTHER                -> {}
<1>2. CASE answer = "succeeded"
  <2>1. jobs = {<<"payment_intent.succeeded", i>>}
    BY <1>2
  <2>2. jobs \in SUBSET Jobs /\ \A job \in jobs : Told(job)'
    BY <1>1, <1>2, <2>1, JobKinds DEF Told, SuccessEvents, EventTypes
  <2>3. QED BY <2>2, EventsSent DEF StripeCharges
<1>3. CASE answer = "declined"
  <2>1. jobs = {<<"payment_intent.payment_failed", i>>}
    BY <1>3
  <2>2. jobs \in SUBSET Jobs /\ \A job \in jobs : Told(job)'
    BY <1>1, <1>3, <2>1, JobKinds DEF Told, SuccessEvents, EventTypes
  <2>3. QED BY <2>2, EventsSent DEF StripeCharges
<1>4. CASE answer \notin {"succeeded", "declined"}
  <2>1. jobs = {}
    BY <1>4
  <2>2. jobs \in SUBSET Jobs /\ \A job \in jobs : Told(job)'
    BY <2>1
  <2>3. QED BY <2>2, EventsSent DEF StripeCharges
<1>5. QED BY <1>2, <1>3, <1>4

LEMMA EnvironmentTells ==
  ASSUME Shaped, Grows, Environment
  PROVE  Events'
<1>1. ASSUME NEW i \in Intents, BuyerPays(i)
      PROVE  Events'
  <2>1. stripe'[i].state = "succeeded"
    BY <1>1, Typed, StripeHasStores DEF BuyerPays, Succeeds, Shaped, IntentStates, Answers
  <2> DEFINE jobs == {<<"payment_intent.succeeded", i>>} \cup
                     (IF i[1] = "session" THEN {<<"checkout.session.completed", i>>} ELSE {})
  <2>2. jobs \in SUBSET Jobs
    BY JobKinds DEF EventTypes
  <2>3. \A job \in jobs : Told(job)'
    BY <2>1 DEF Told, SuccessEvents
  <2>4. QED BY <1>1, <2>2, <2>3, EventsSent DEF BuyerPays, Succeeds
<1>2. ASSUME NEW i \in Intents, CardDeclined(i)
      PROVE  Events'
  <2> DEFINE jobs == {<<"payment_intent.payment_failed", i>>}
  <2>1. jobs \in SUBSET Jobs
    BY JobKinds DEF EventTypes
  <2>2. \A job \in jobs : Told(job)'
    BY <1>2 DEF Told, CardDeclined
  <2>3. QED BY <1>2, <2>1, <2>2, EventsSent DEF CardDeclined
<1>3. ASSUME NEW i \in Checkouts, CheckoutAbandoned(i)
      PROVE  Events'
  <2> DEFINE jobs == {IF i[1] = "session" THEN <<"checkout.session.expired", i>>
                                          ELSE <<"payment_intent.canceled", i>>}
  <2>1. jobs \in SUBSET Jobs
    BY JobKinds, IntentKinds DEF EventTypes
  <2>2. \A job \in jobs : Told(job)'
    BY DEF Told
  <2>3. QED BY <1>3, <2>1, <2>2, EventsSent DEF CheckoutAbandoned
<1>4. ASSUME NEW i \in Intents, NEW amount \in {"partial", "full"}, DashboardRefund(i, amount)
      PROVE  Events'
  <2>1. refunded'[i] # "none"
    BY <1>4 DEF DashboardRefund, Shaped, TypeOK
  <2> DEFINE jobs == {<<"charge.refunded", i>>}
  <2>2. jobs \in SUBSET Jobs
    BY JobKinds DEF EventTypes
  <2>3. \A job \in jobs : Told(job)'
    BY <2>1 DEF Told
  <2>4. QED BY <1>4, <2>2, <2>3, EventsSent DEF DashboardRefund
<1>5. ASSUME AuctionCloses
      PROVE  Events'
  <2> DEFINE jobs == {ChargeWinner}
  <2>1. jobs \in SUBSET Jobs
    BY JobKinds
  <2>2. \A job \in jobs : Told(job)'
    BY <1>5 DEF Told, AuctionCloses
  <2>3. QED BY <1>5, <2>1, <2>2, EventsSent DEF AuctionCloses
<1>6. RecoveryWindowPasses => Events'
  BY EventsKept DEF RecoveryWindowPasses, Shaped, SentShape
<1>7. QED BY <1>1, <1>2, <1>3, <1>4, <1>5, <1>6 DEF Environment

LEMMA EventStep ==
  ASSUME Shaped, Grows, [Next]_vars
  PROVE  Events'
<1>1. queue \subseteq sent
  BY DEF Shaped, SentShape
<1>2. CASE UNCHANGED vars
  BY <1>1, <1>2, EventsKept
<1>3. ASSUME NEW c \in Callers, Request(c) \/ TakeJob(c)
      PROVE  Events'
  <2>1. UNCHANGED sent /\ queue' \subseteq queue
    BY <1>3
    DEF Request, StartCheckout, ConfirmPayment, RetryPayment, SweepRead, TakeJob,
        ChargeAuctionWinner, HandleSucceeded, RecordFailure, HandleCanceled,
        HandleSessionExpired, HandleRefunded, Take
  <2>2. QED BY <1>1, <2>1, EventsKept
<1>4. ASSUME NEW c \in Callers, Crash(c)
      PROVE  Events'
  <2>1. call[c].job # NoJob => call[c].job \in sent
    BY DEF Shaped, CallShape
  <2>2. UNCHANGED sent /\ queue' \subseteq sent
    BY <1>1, <1>4, <2>1, JobKinds DEF Crash
  <2>3. QED BY <2>2, EventsKept
<1>5. ASSUME NEW c \in Callers, OpenRecovery(c)
      PROVE  Events'
  <2>1. ChargeWinner \in sent
    BY <1>5, JobKinds DEF Shaped, CallShape, OpenRecovery, Charging
  <2>2. UNCHANGED sent /\ queue' \subseteq sent
    BY <1>1, <1>5, <2>1 DEF OpenRecovery
  <2>3. QED BY <2>2, EventsKept
<1>6. ASSUME NEW c \in Callers, WinnerCharge(c) \/ RetryCharge(c)
      PROVE  Events'
  <2>1. call[c].intent \in Intents
    BY <1>6, Knows, HasIntent DEF WinnerCharge, RetryCharge
  <2>2. \/ UNCHANGED <<sent, queue>>
        \/ \E answer \in Answers : StripeCharges(call[c].intent, answer)
    BY <1>6 DEF WinnerCharge, RetryCharge
  <2>3. QED BY <1>1, <2>1, <2>2, EventsKept, EventsCharged
<1>7. ASSUME NEW c \in Callers,
             \/ Acknowledge(c) \/ PendingRead(c) \/ PendingWrite(c)
             \/ SettleRead(c) \/ SettleClaim(c) \/ SettleCreate(c) \/ Quarantine(c)
             \/ PostRefund(c) \/ RecordAttempt(c) \/ SettleFails(c)
             \/ RetryMark(c) \/ RetryEnds(c) \/ Expire(c)
      PROVE  Events'
  <2>1. UNCHANGED <<sent, queue>>
    BY <1>7
    DEF Acknowledge, PendingRead, PendingWrite, SettleRead, SettleClaim, SettleCreate,
        Quarantine, PostRefund, RecordAttempt, SettleFails, RetryMark, RetryEnds, Expire
  <2>2. QED BY <1>1, <2>1, EventsKept
<1>8. QED
  BY <1>2, <1>3, <1>4, <1>5, <1>6, <1>7, EnvironmentTells DEF Next, Continue
-------------------------------------------------------------------------------
(***************************************************************************)
(* Everything keeps its type.                                              *)
(***************************************************************************)
LEMMA RetryWriteTyped ==
  ASSUME Shaped, NEW pc \in RetryEndings
  PROVE  /\ RetryWrite[pc] \in Payments
         /\ RetryWrite[pc].status \in {pay.status, "REQUIRES_ACTION", "FAILED"}
<1>1. pay \in Payments
  BY DEF Shaped, TypeOK
<1>2. /\ {"REQUIRES_ACTION", "FAILED"} \subseteq Statuses
      /\ {"REQUIRED", "RETRYING", "RECOVERED"} \subseteq Recoveries
  BY DEF Statuses, Recoveries
<1>3. /\ RetryWrite["recovered"] = [pay EXCEPT !.recovery = "RECOVERED"]
      /\ RetryWrite["retryAction"] = [pay EXCEPT !.status = "REQUIRES_ACTION", !.recovery = "RETRYING"]
      /\ RetryWrite["retryPending"] = [pay EXCEPT !.recovery = "RETRYING"]
      /\ RetryWrite["retryFailed"] = [pay EXCEPT !.status = "FAILED", !.recovery = "REQUIRED"]
  BY DEF RetryWrite
<1>4. [pay EXCEPT !.recovery = "RECOVERED"] \in Payments
  BY <1>1, <1>2, WritesTyped
<1>5. [pay EXCEPT !.status = "REQUIRES_ACTION", !.recovery = "RETRYING"] \in Payments
  BY <1>1, <1>2, WritesTyped
<1>6. [pay EXCEPT !.recovery = "RETRYING"] \in Payments
  BY <1>1, <1>2, WritesTyped
<1>7. [pay EXCEPT !.status = "FAILED", !.recovery = "REQUIRED"] \in Payments
  BY <1>1, <1>2, WritesTyped
<1>8. CASE pc \in {"recovered", "retryPending"}
  BY <1>1, <1>3, <1>4, <1>6, <1>8 DEF Payments
<1>9. CASE pc = "retryAction"
  BY <1>1, <1>3, <1>5, <1>9 DEF Payments
<1>10. CASE pc = "retryFailed"
  BY <1>1, <1>3, <1>7, <1>10 DEF Payments
<1>11. QED BY <1>8, <1>9, <1>10 DEF RetryEndings

LEMMA PayStep ==
  ASSUME Shaped, [Next]_vars
  PROVE  pay' \in Payments
<1>1. pay \in Payments
  BY DEF Shaped, TypeOK
<1>2. \A i \in Intents \cup {NoIntent} : Naming(i) \in Payments
  BY <1>1, RowTyped
<1>3. /\ {"none", "PENDING", "REQUIRES_ACTION", "PROCESSING", "PAID", "FAILED", "REFUNDED"}
           = Statuses
      /\ {"REQUIRED", "IN_PROGRESS", "RETRYING", "RECOVERED", "EXPIRED"} \subseteq Recoveries
  BY DEF Statuses, Recoveries
<1>4. UNCHANGED pay => pay' \in Payments
  BY <1>1
<1>5. RecoveryWindowPasses => pay' \in Payments
  BY <1>1, WritesTyped DEF RecoveryWindowPasses
<1>6. ASSUME NEW c \in Callers, PendingWrite(c)
      PROVE  pay' \in Payments
  <2>1. call[c].intent \in Intents
    BY <1>6, Knows, HasIntent DEF PendingWrite, Pending
  <2> DEFINE i == IF call[c].intent[1] = "session" THEN NoIntent ELSE call[c].intent
  <2>2. i \in Intents \cup {NoIntent} /\ pay' = [Naming(i) EXCEPT !.status = "PENDING"]
    BY <1>6, <2>1 DEF PendingWrite
  <2> HIDE DEF i
  <2>3. QED BY <1>2, <1>3, <2>2, WritesTyped
<1>7. ASSUME NEW c \in Callers, SettleClaim(c) \/ SettleCreate(c)
      PROVE  pay' \in Payments
  <2>1. call[c].intent \in Intents
    BY <1>7, Knows, HasIntent DEF SettleClaim, SettleCreate
  <2> DEFINE row == Naming(call[c].intent)
  <2>2. row \in Payments
    BY <1>2, <2>1
  <2>3. \/ pay' = [row EXCEPT !.status = "PAID", !.recovery = "RECOVERED"]
        \/ pay' = [row EXCEPT !.status = "PAID"]
        \/ pay' = pay
    BY <1>7 DEF SettleClaim, SettleCreate
  <2> HIDE DEF row
  <2>4. /\ [row EXCEPT !.status = "PAID", !.recovery = "RECOVERED"] \in Payments
        /\ [row EXCEPT !.status = "PAID"] \in Payments
    BY <1>3, <2>2, WritesTyped
  <2>5. QED BY <1>1, <2>3, <2>4
<1>8. ASSUME NEW c \in Callers, RecordAttempt(c)
      PROVE  pay' \in Payments
  <2>1. call[c].intent \in Intents
    BY <1>8, Knows, HasIntent DEF RecordAttempt
  <2>2. Naming(call[c].intent) \in Payments
    BY <1>2, <2>1
  <2> DEFINE answer == stripe[call[c].intent].answer
             status == CASE answer = "succeeded" -> "PAID"
                         [] answer = "requires_action" -> "REQUIRES_ACTION"
                         [] OTHER -> "PENDING"
  <2>3. status \in Statuses
    BY <1>3
  <2>4. pay' = [Naming(call[c].intent) EXCEPT !.status = status] \/ pay' = pay
    BY <1>8 DEF RecordAttempt
  <2> HIDE DEF status
  <2>5. QED BY <1>1, <2>2, <2>3, <2>4, WritesTyped
<1>9. ASSUME NEW c \in Callers, OpenRecovery(c)
      PROVE  pay' \in Payments
  <2>1. call[c].no \in 0..MaxAttempts + 1 /\ call[c].intent \in Intents \cup {NoIntent}
    BY Knows DEF Calls
  <2> DEFINE row == IF call[c].intent = NoIntent THEN pay ELSE Naming(call[c].intent)
  <2>2. row \in Payments
    BY <1>1, <1>2, <2>1
  <2>3. \/ pay' = [row EXCEPT !.status = "FAILED", !.recovery = "REQUIRED", !.count = call[c].no,
                             !.window = "open"]
        \/ pay' = pay
    BY <1>9 DEF OpenRecovery
  <2> HIDE DEF row
  <2>4. [row EXCEPT !.status = "FAILED", !.recovery = "REQUIRED", !.count = call[c].no,
                    !.window = "open"] \in Payments
    BY <1>3, <2>1, <2>2, WritesTyped
  <2>5. QED BY <1>1, <2>3, <2>4
<1>10. ASSUME NEW c \in Callers, RetryMark(c)
       PROVE  pay' \in Payments
  BY <1>1, <1>3, <1>10, Knows, WritesTyped DEF RetryMark
<1>11. ASSUME NEW c \in Callers, RetryEnds(c)
       PROVE  pay' \in Payments
  <2>1. call[c].intent \in Intents \cup {NoIntent}
    BY Knows DEF Calls
  <2> DEFINE after == RetryWrite[call[c].pc]
  <2>2. after \in Payments
    BY <1>11, RetryWriteTyped DEF RetryEnds
  <2>3. pay' = [after EXCEPT !.intent = call[c].intent] \/ pay' = after
    BY <1>11 DEF RetryEnds
  <2> HIDE DEF after
  <2>4. QED BY <2>1, <2>2, <2>3, WritesTyped
<1>12. ASSUME NEW c \in Callers, Quarantine(c) \/ Expire(c)
       PROVE  pay' \in Payments
  BY <1>1, <1>3, <1>12, WritesTyped DEF Quarantine, Expire
<1>13. ASSUME NEW c \in Callers, PostRefund(c)
       PROVE  pay' \in Payments
  <2> DEFINE status == IF refunded[call[c].intent] = "full" THEN "REFUNDED" ELSE "PAID"
  <2>1. pay' = [pay EXCEPT !.status = status]
    BY <1>13 DEF PostRefund
  <2>2. QED BY <1>1, <1>3, <2>1, WritesTyped
<1>14. ASSUME NEW c \in Callers, NEW i \in Intents, RecordFailure(c, i)
       PROVE  pay' \in Payments
  <2>1. Naming(i) \in Payments
    BY <1>2
  <2>2. QED BY <1>1, <1>3, <1>14, <2>1, WritesTyped DEF RecordFailure
<1>15. ASSUME NEW c \in Callers, NEW i \in Intents,
              HandleCanceled(c, i) \/ HandleSessionExpired(c, i)
       PROVE  pay' \in Payments
  BY <1>1, <1>3, <1>15, WritesTyped DEF HandleCanceled, HandleSessionExpired
<1>16. Environment => UNCHANGED pay \/ RecoveryWindowPasses
  BY DEF Environment, BuyerPays, CardDeclined, CheckoutAbandoned, DashboardRefund, AuctionCloses
<1>17. ASSUME NEW c \in Callers, Request(c) \/ Crash(c) \/ ChargeAuctionWinner(c)
       PROVE  UNCHANGED pay
  BY <1>17
  DEF Request, StartCheckout, ConfirmPayment, RetryPayment, SweepRead, Crash, ChargeAuctionWinner
<1>18. ASSUME NEW c \in Callers, NEW i \in Intents, NEW type \in EventTypes,
              HandleSucceeded(c, type, i) \/ HandleRefunded(c, i)
       PROVE  UNCHANGED pay
  BY <1>18 DEF HandleSucceeded, HandleRefunded
<1>19. ASSUME NEW c \in Callers,
              \/ Acknowledge(c) \/ PendingRead(c) \/ SettleRead(c)
              \/ WinnerCharge(c) \/ SettleFails(c) \/ RetryCharge(c)
       PROVE  UNCHANGED pay
  BY <1>19 DEF Acknowledge, PendingRead, SettleRead, WinnerCharge, SettleFails, RetryCharge
<1>20. ASSUME NEW c \in Callers, TakeJob(c)
       PROVE  pay' \in Payments
  BY <1>4, <1>14, <1>15, <1>17, <1>18, <1>20 DEF TakeJob, EventTypes
<1>21. ASSUME NEW c \in Callers, Continue(c)
       PROVE  pay' \in Payments
  BY <1>4, <1>6, <1>7, <1>8, <1>9, <1>10, <1>11, <1>12, <1>13, <1>19, <1>21 DEF Continue
<1>22. QED
  BY <1>4, <1>5, <1>16, <1>17, <1>20, <1>21 DEF Next

LEMMA BookTyped ==
  ASSUME Books, NEW i \in Intents, Book(i)
  PROVE  /\ Books'
         /\ charges'[i] > 0 /\ \A j \in Intents \ {i} : charges'[j] = charges[j]
<1>1. attempts' \subseteq (Nat \ {0}) \X AttemptKeys /\ Counted'
  <2>1. CASE SettleAttempt(i) = attempts
    BY <2>1 DEF Book, Books, Counted
  <2>2. CASE SettleAttempt(i) = attempts \cup {<<1 + Max({0} \cup Numbers), <<"settle", i>>>>}
    <3>1. 1 + Max({0} \cup Numbers) \in Nat
      BY GreatestNumber DEF Books
    <3>2. QED BY <2>2, <3>1, OneMoreCounted, SettleAttemptAdds DEF Book, Books
  <2>3. QED BY <2>1, <2>2, SettleAttemptAdds DEF Book, Books
<1>2. /\ charges' \in [Intents -> 0..2]
      /\ charges'[i] > 0 /\ \A j \in Intents \ {i} : charges'[j] = charges[j]
  <2>1. charges \in [Intents -> 0..2] /\ 1 \in 0..2 /\ 2 \in 0..2
    BY DEF Books
  <2> DEFINE v == IF charges[i] = 0 THEN 1 ELSE 2
  <2>2. v \in 0..2 /\ v > 0
    OBVIOUS
  <2>3. charges' = [charges EXCEPT ![i] = v]
    BY DEF Book
  <2> HIDE DEF v
  <2>4. QED BY <2>1, <2>2, <2>3
<1>3. /\ settlement' \in Intents \cup {NoIntent}
      /\ settlement' # NoIntent => charges'[settlement'] > 0
  BY <1>2 DEF Book, Books
<1>4. QED BY <1>1, <1>2, <1>3 DEF Books

LEMMA AttemptTyped ==
  ASSUME Books, UNCHANGED books, NEW no \in 1..MaxAttempts + 1,
         attempts' = attempts \cup {<<no, <<"attempt", no>>>>}
  PROVE  Books'
<1>1. no \in Nat \ {0} /\ <<"attempt", no>> \in AttemptKeys
  BY AttemptsAssumption DEF AttemptKeys
<1>2. Counted'
  BY <1>1, OneMoreCounted DEF Books
<1>3. QED BY <1>1, <1>2 DEF Books

\* The steps that add an attempt.
LEMMA BooksKept ==
  ASSUME [Next]_vars
  PROVE  \/ UNCHANGED <<attempts, books>>
         \/ \E c \in Callers : \/ SettleClaim(c) \/ SettleCreate(c)
                               \/ RecordAttempt(c) \/ OpenRecovery(c)
<1>1. Environment => UNCHANGED <<attempts, books>>
  BY DEF Environment, BuyerPays, CardDeclined, CheckoutAbandoned, DashboardRefund, AuctionCloses,
         RecoveryWindowPasses
<1>2. ASSUME NEW c \in Callers, Request(c) \/ TakeJob(c) \/ Crash(c)
      PROVE  UNCHANGED <<attempts, books>>
  BY <1>2
  DEF Request, StartCheckout, ConfirmPayment, RetryPayment, SweepRead, TakeJob,
      ChargeAuctionWinner, HandleSucceeded, RecordFailure, HandleCanceled,
      HandleSessionExpired, HandleRefunded, Crash
<1>3. ASSUME NEW c \in Callers,
             \/ Acknowledge(c) \/ PendingRead(c) \/ PendingWrite(c) \/ SettleRead(c)
             \/ Quarantine(c) \/ PostRefund(c) \/ WinnerCharge(c) \/ SettleFails(c)
             \/ RetryMark(c) \/ RetryCharge(c) \/ RetryEnds(c) \/ Expire(c)
      PROVE  UNCHANGED <<attempts, books>>
  BY <1>3
  DEF Acknowledge, PendingRead, PendingWrite, SettleRead, Quarantine, PostRefund,
      WinnerCharge, SettleFails, RetryMark, RetryCharge, RetryEnds, Expire
<1>4. QED BY <1>1, <1>2, <1>3 DEF Next, Continue

LEMMA BooksStep ==
  ASSUME Shaped, Books, [Next]_vars
  PROVE  Books'
<1>1. UNCHANGED <<attempts, books>> => Books'
  BY DEF Books, Counted
<1>2. ASSUME NEW c \in Callers, SettleClaim(c) \/ SettleCreate(c)
      PROVE  Books'
  <2>1. call[c].intent \in Intents
    BY <1>2, Knows, HasIntent DEF SettleClaim, SettleCreate
  <2>2. Book(call[c].intent) \/ UNCHANGED <<attempts, books>>
    BY <1>2 DEF SettleClaim, SettleCreate
  <2>3. QED BY <1>1, <2>1, <2>2, BookTyped
<1>3. ASSUME NEW c \in Callers, RecordAttempt(c) \/ OpenRecovery(c)
      PROVE  Books'
  <2>1. call[c].no \in 1..MaxAttempts + 1
    <3>1. call[c].no \in 0..MaxAttempts + 1 /\ call[c].no > 0
      BY <1>3, Knows DEF CallShape, RecordAttempt, OpenRecovery, Charging
    <3>2. QED BY <3>1, AttemptsAssumption
  <2>2. /\ UNCHANGED books
        /\ \/ UNCHANGED attempts
           \/ attempts' = attempts \cup {<<call[c].no, <<"attempt", call[c].no>>>>}
    BY <1>3 DEF RecordAttempt, OpenRecovery
  <2>3. QED BY <1>1, <2>1, <2>2, AttemptTyped
<1>4. QED BY <1>1, <1>2, <1>3, BooksKept

LEMMA OutsideTyped ==
  ASSUME Shaped, [Next]_vars
  PROVE  /\ StripeOK'
         /\ refunded' \in [Intents -> {"none", "partial", "full"}]
         /\ posted' \subseteq Intents
<1> DEFINE Goal == /\ StripeOK'
                   /\ refunded' \in [Intents -> {"none", "partial", "full"}]
                   /\ posted' \subseteq Intents
<1>1. StripeOK /\ refunded \in [Intents -> {"none", "partial", "full"}] /\ posted \subseteq Intents
  BY Typed DEF Shaped, TypeOK
<1>2. UNCHANGED <<stripe, refunded, posted>> => Goal
  BY <1>1 DEF StripeOK
<1>3. ASSUME NEW i \in Intents, NEW state \in IntentStates, StripeHas(i, state),
             UNCHANGED <<refunded, posted>>
      PROVE  Goal
  BY <1>1, <1>3, StripeHasStores
<1>4. /\ {"succeeded", "declined", "canceled", "created", "open"} \subseteq IntentStates
      /\ Checkouts \subseteq Intents
  BY IntentKinds DEF IntentStates, Answers
<1>5. ASSUME NEW i \in Intents, BuyerPays(i) \/ CardDeclined(i)
      PROVE  Goal
  BY <1>2, <1>3, <1>4, <1>5 DEF BuyerPays, Succeeds, CardDeclined
<1>6. ASSUME NEW i \in Checkouts, CheckoutAbandoned(i) \/ \E c \in Callers : StartCheckout(c, i)
      PROVE  Goal
  BY <1>3, <1>4, <1>6 DEF CheckoutAbandoned, StartCheckout
<1>7. ASSUME NEW i \in Intents, NEW amount \in {"partial", "full"}, DashboardRefund(i, amount)
      PROVE  Goal
  BY <1>1, <1>7 DEF DashboardRefund, StripeOK
<1>8. ASSUME NEW c \in Callers, PendingWrite(c)
      PROVE  Goal
  <2>1. call[c].intent \in Intents
    BY <1>8, Knows, HasIntent DEF PendingWrite, Pending
  <2>2. QED BY <1>2, <1>3, <1>4, <1>8, <2>1 DEF PendingWrite
<1>9. ASSUME NEW c \in Callers, WinnerCharge(c) \/ RetryCharge(c)
      PROVE  Goal
  <2>1. call[c].intent \in Intents
    BY <1>9, Knows, HasIntent DEF WinnerCharge, RetryCharge
  <2>2. /\ UNCHANGED <<refunded, posted>>
        /\ \/ UNCHANGED stripe
           \/ \E answer \in Answers : StripeCharges(call[c].intent, answer)
    BY <1>9 DEF WinnerCharge, RetryCharge
  <2>3. QED BY <1>1, <1>2, <2>1, <2>2, StripeChargesStores
<1>10. ASSUME NEW c \in Callers, PostRefund(c)
       PROVE  Goal
  <2>1. call[c].intent \in Intents
    BY <1>10, Knows, HasIntent DEF PostRefund
  <2>2. QED BY <1>1, <1>10, <2>1 DEF PostRefund, StripeOK
<1>11. ASSUME NEW c \in Callers,
             \/ TakeJob(c) \/ Crash(c)
             \/ (\E i \in Intents : ConfirmPayment(c, i)) \/ RetryPayment(c) \/ SweepRead(c)
             \/ Acknowledge(c) \/ PendingRead(c)
             \/ SettleRead(c) \/ SettleClaim(c) \/ SettleCreate(c) \/ Quarantine(c)
             \/ RecordAttempt(c) \/ SettleFails(c) \/ OpenRecovery(c)
             \/ RetryMark(c) \/ RetryEnds(c) \/ Expire(c)
       PROVE  Goal
  <2>1. Quiet
    BY <1>11, QuietSteps
  <2>2. UNCHANGED posted
    BY <1>11
    DEF TakeJob, ChargeAuctionWinner, HandleSucceeded, RecordFailure,
        HandleCanceled, HandleSessionExpired, HandleRefunded, Crash, ConfirmPayment,
        RetryPayment, SweepRead, Acknowledge, PendingRead, SettleRead, SettleClaim,
        SettleCreate, Quarantine, RecordAttempt, SettleFails, OpenRecovery,
        RetryMark, RetryEnds, Expire
  <2>3. QED BY <1>2, <2>1, <2>2 DEF Quiet
<1>12. AuctionCloses \/ RecoveryWindowPasses \/ UNCHANGED vars => Goal
  BY <1>2 DEF AuctionCloses, RecoveryWindowPasses
<1> HIDE DEF Goal
<1>13. QED
  BY <1>5, <1>6, <1>7, <1>8, <1>9, <1>10, <1>11, <1>12
  DEF Next, Environment, Request, Continue, Goal

LEMMA ShapedStep ==
  ASSUME Shaped, Books, [Next]_vars
  PROVE  Shaped' /\ Books' /\ Grows
<1>1. Grows /\ CallOK' /\ \A c \in Callers : CallShape(c)'
  BY CallStep
<1>2. (\A i \in Intents : IntentShape(i)') /\ Events'
  BY <1>1, IntentStep, EventStep
<1>3. pay' \in Payments /\ Books'
  BY PayStep, BooksStep
<1>4. /\ StripeOK'
      /\ refunded' \in [Intents -> {"none", "partial", "full"}]
      /\ posted' \subseteq Intents
  BY OutsideTyped
<1>5. scenario' \in Scenarios /\ queue' \subseteq Jobs /\ sent' \subseteq Jobs
  BY <1>1, <1>2 DEF Shaped, TypeOK, Grows, Events, SentShape
<1>6. TypeOK'
  BY <1>1, <1>3, <1>4, <1>5 DEF TypeOK, Books, StripeOK, Seen, CallOK
<1>7. QED BY <1>1, <1>2, <1>3, <1>6 DEF Shaped, Events
-------------------------------------------------------------------------------
(***************************************************************************)
(* The row's status and count.                                             *)
(***************************************************************************)
Same ==
  /\ pay'.count = pay.count
  /\ pay'.status = "PAID" <=> pay.status = "PAID"

\* Which steps touch either.
LEMMA RowStep ==
  ASSUME Shaped, [Next]_vars
  PROVE  \/ Same
         \/ \E c \in Callers : \/ SettleClaim(c) \/ SettleCreate(c)
                               \/ RecordAttempt(c) \/ OpenRecovery(c)
                               \/ PendingWrite(c) \/ Quarantine(c) \/ PostRefund(c)
                               \/ RetryMark(c) \/ RetryEnds(c)
         \/ \E c \in Callers, i \in Intents : RecordFailure(c, i)
<1>1. pay \in Payments
  BY DEF Shaped, TypeOK
<1>2. UNCHANGED pay => Same
  BY DEF Same
<1>3. RecoveryWindowPasses => Same
  BY <1>1 DEF RecoveryWindowPasses, Same, Payments
<1>4. ASSUME NEW c \in Callers, Expire(c)
      PROVE  Same
  BY <1>1, <1>4 DEF Expire, Same, Payments
<1>5. ASSUME NEW c \in Callers, NEW i \in Intents,
             HandleCanceled(c, i) \/ HandleSessionExpired(c, i)
      PROVE  Same
  BY <1>1, <1>5 DEF HandleCanceled, HandleSessionExpired, Same, Payments
<1>6. Environment => UNCHANGED pay \/ RecoveryWindowPasses
  BY DEF Environment, BuyerPays, CardDeclined, CheckoutAbandoned, DashboardRefund, AuctionCloses
<1>7. ASSUME NEW c \in Callers, Request(c) \/ Crash(c) \/ ChargeAuctionWinner(c)
      PROVE  UNCHANGED pay
  BY <1>7
  DEF Request, StartCheckout, ConfirmPayment, RetryPayment, SweepRead, Crash, ChargeAuctionWinner
<1>8. ASSUME NEW c \in Callers, NEW i \in Intents, NEW type \in EventTypes,
             HandleSucceeded(c, type, i) \/ HandleRefunded(c, i)
      PROVE  UNCHANGED pay
  BY <1>8 DEF HandleSucceeded, HandleRefunded
<1>9. ASSUME NEW c \in Callers,
             \/ Acknowledge(c) \/ PendingRead(c) \/ SettleRead(c)
             \/ WinnerCharge(c) \/ SettleFails(c) \/ RetryCharge(c)
      PROVE  UNCHANGED pay
  BY <1>9 DEF Acknowledge, PendingRead, SettleRead, WinnerCharge, SettleFails, RetryCharge
<1>10. ASSUME NEW c \in Callers, TakeJob(c)
       PROVE  Same \/ \E i \in Intents : RecordFailure(c, i)
  BY <1>2, <1>5, <1>7, <1>8, <1>10 DEF TakeJob, EventTypes
<1>11. QED BY <1>2, <1>3, <1>4, <1>6, <1>7, <1>9, <1>10 DEF Next, Continue

\* Money was captured whenever the payment becomes PAID.
LEMMA CapturedStep ==
  ASSUME Shaped, Grows, [Next]_vars, pay.status = "PAID" => Captured, pay'.status = "PAID"
  PROVE  Captured'
<1>1. pay \in Payments
  BY DEF Shaped, TypeOK
<1>2. Captured => Captured'
  BY DEF Captured, Grows
<1>3. ASSUME NEW i \in Intents, stripe[i].state = "succeeded"
      PROVE  Captured'
  BY <1>3, <1>2 DEF Captured
<1>4. ASSUME NEW c \in Callers,
             SettleClaim(c) \/ SettleCreate(c) \/ PostRefund(c)
      PROVE  Captured'
  <2>1. CallShape(c)
    BY Knows
  <2>2. CASE SettleClaim(c) \/ SettleCreate(c)
    BY <1>3, <2>1, <2>2 DEF SettleClaim, SettleCreate, CallShape, Reconciles
  <2>3. CASE PostRefund(c)
    <3>1. call[c].intent \in Intents /\ refunded[call[c].intent] # "none"
      BY <2>1, <2>3 DEF PostRefund, CallShape
    <3>2. IntentShape(call[c].intent)
      BY <3>1 DEF Shaped
    <3>3. QED BY <1>3, <3>1, <3>2 DEF IntentShape
  <2>4. QED BY <1>4, <2>2, <2>3
<1>5. ASSUME NEW c \in Callers, RecordAttempt(c), pay.status # "PAID"
      PROVE  Captured'
  <2> DEFINE i == call[c].intent
  <2>1. i \in Intents /\ IntentShape(i)
    BY <1>5, Knows, HasIntent DEF RecordAttempt, Shaped
  <2>2. Naming(i) \in Payments
    BY <1>1, <2>1, RowTyped
  <2>3. stripe[i].answer = "succeeded"
    <3> DEFINE status == CASE stripe[i].answer = "succeeded" -> "PAID"
                           [] stripe[i].answer = "requires_action" -> "REQUIRES_ACTION"
                           [] OTHER -> "PENDING"
    <3>1. pay' = [Naming(i) EXCEPT !.status = status] \/ pay' = pay
      BY <1>5 DEF RecordAttempt
    <3> HIDE DEF status
    <3>2. pay'.status = status
      BY <1>5, <2>2, <3>1 DEF Payments
    <3>3. QED BY <3>2 DEF status
  <2>4. QED BY <1>3, <2>1, <2>3 DEF IntentShape
<1>6. ASSUME NEW c \in Callers,
             \/ OpenRecovery(c) \/ PendingWrite(c) \/ Quarantine(c) \/ RetryMark(c)
             \/ RetryEnds(c) \/ \E i \in Intents : RecordFailure(c, i)
      PROVE  pay.status = "PAID"
  <2>1. \A i \in Intents \cup {NoIntent} : Naming(i) \in Payments /\ Naming(i).status = pay.status
    BY <1>1, RowTyped
  <2>2. CASE OpenRecovery(c)
    <3> DEFINE row == IF call[c].intent = NoIntent THEN pay ELSE Naming(call[c].intent)
    <3>1. row \in Payments
      BY <1>1, <2>1, Knows DEF Calls
    <3>2. \/ pay' = [row EXCEPT !.status = "FAILED", !.recovery = "REQUIRED",
                                !.count = call[c].no, !.window = "open"]
          \/ pay' = pay
      BY <2>2 DEF OpenRecovery
    <3> HIDE DEF row
    <3>3. QED BY <3>1, <3>2 DEF Payments
  <2>3. CASE PendingWrite(c)
    <3> DEFINE i == IF call[c].intent[1] = "session" THEN NoIntent ELSE call[c].intent
    <3>1. i \in Intents \cup {NoIntent} /\ pay' = [Naming(i) EXCEPT !.status = "PENDING"]
      BY <2>3, Knows DEF PendingWrite, Calls
    <3> HIDE DEF i
    <3>2. QED BY <2>1, <3>1 DEF Payments
  <2>4. CASE Quarantine(c) \/ RetryMark(c)
    BY <1>1, <2>4 DEF Quarantine, RetryMark, Payments
  <2>5. CASE RetryEnds(c)
    <3> DEFINE after == RetryWrite[call[c].pc]
    <3>1. after \in Payments /\ after.status \in {pay.status, "REQUIRES_ACTION", "FAILED"}
      BY <2>5, RetryWriteTyped DEF RetryEnds
    <3>2. pay' = [after EXCEPT !.intent = call[c].intent] \/ pay' = after
      BY <2>5 DEF RetryEnds
    <3> HIDE DEF after
    <3>3. QED BY <3>1, <3>2 DEF Payments
  <2>6. ASSUME NEW i \in Intents, RecordFailure(c, i)
        PROVE  pay.status = "PAID"
    BY <1>1, <2>1, <2>6 DEF RecordFailure, Payments
  <2>7. QED BY <1>6, <2>2, <2>3, <2>4, <2>5, <2>6
<1>7. QED BY <1>2, <1>4, <1>5, <1>6, RowStep DEF Same
-------------------------------------------------------------------------------
(***************************************************************************)
(* One caller at most charges the winner.                                  *)
(***************************************************************************)
Others(c) == \A d \in Callers \ {c} : call'[d] = call[d]

\* Where a step leaves its caller.
LEMMA MoveKeeps ==
  ASSUME CallOK, NEW c \in Callers, NEW pc, MoveTo(c, pc)
  PROVE  /\ call'[c].pc = pc /\ call'[c].intent = call[c].intent
         /\ call'[c].no = call[c].no /\ call'[c].job = call[c].job
         /\ Others(c)
<1>1. call[c] \in Calls
  BY DEF CallOK
<1>2. call'[c] = [call[c] EXCEPT !.pc = pc] /\ Others(c)
  BY DEF MoveTo, CallOK, Others
<1>3. QED BY <1>1, <1>2 DEF Calls

LEMMA EnterKeeps ==
  ASSUME CallOK, NEW c \in Callers, NEW pc, NEW i, NEW no, NEW job, Enter(c, pc, i, no, job)
  PROVE  /\ call'[c].pc = pc /\ call'[c].intent = i /\ call'[c].no = no /\ call'[c].job = job
         /\ Others(c)
  BY DEF Enter, CallOK, Call, Others

LEMMA FinishKeeps ==
  ASSUME CallOK, NEW c \in Callers, Finish(c)
  PROVE  /\ call'[c].pc = "idle" /\ call'[c].intent = NoIntent
         /\ call'[c].no = 0 /\ call'[c].job = NoJob
         /\ Others(c)
  BY DEF Finish, Idle, CallOK, Call, Others

LEMMA DoneKeeps ==
  ASSUME CallOK, NEW c \in Callers, Done(c) \/ Settled(c)
  PROVE  /\ call'[c].pc \in {"idle", "ack", "recovered"}
         /\ call'[c].job = call[c].job
         /\ Others(c)
  BY FinishKeeps, MoveKeeps DEF Done, Settled

\* Only taking a job from the queue gives a caller one.
LEMMA JobKept ==
  ASSUME Shaped, NEW c \in Callers, Request(c) \/ Continue(c) \/ Crash(c)
  PROVE  call'[c].job \in {call[c].job, NoJob} /\ Others(c)
<1>1. CallOK /\ CallShape(c)
  BY Knows
<1> DEFINE Goal == call'[c].job \in {call[c].job, NoJob} /\ Others(c)
<1>2. \A pc : MoveTo(c, pc) => Goal
  BY <1>1, MoveKeeps
<1>3. Finish(c) => Goal
  BY <1>1, FinishKeeps
<1>4. Done(c) \/ Settled(c) => Goal
  BY <1>1, DoneKeeps
<1>5. \A pc, i, no : Enter(c, pc, i, no, NoJob) => Goal
  BY <1>1, EnterKeeps
<1>6. \A pc, i, no : Enter(c, pc, i, no, ChargeWinner) /\ call[c].job = ChargeWinner => Goal
  BY <1>1, EnterKeeps
<1> HIDE DEF Goal
<1>7. Request(c) => Goal
  BY <1>2, <1>5 DEF Request, StartCheckout, ConfirmPayment, RetryPayment, SweepRead
<1>8. WinnerCharge(c) => Goal
  BY <1>1, <1>2, <1>6 DEF WinnerCharge, CallShape, Charging
<1>9. RecordAttempt(c) => Goal
  BY <1>1, <1>2, <1>4, <1>6 DEF RecordAttempt, CallShape, Charging
<1>10. SettleFails(c) => Goal
  BY <1>1, <1>2, <1>6 DEF SettleFails, CallShape
<1>11. RetryCharge(c) => Goal
  BY <1>2 DEF RetryCharge
<1>12. \/ Acknowledge(c) \/ PendingRead(c) \/ PendingWrite(c) \/ SettleRead(c) \/ SettleClaim(c)
       \/ SettleCreate(c) \/ Quarantine(c) \/ PostRefund(c) \/ OpenRecovery(c) \/ RetryMark(c)
       \/ RetryEnds(c) \/ Expire(c) \/ Crash(c)
       => Goal
  BY <1>2, <1>3, <1>4
  DEF Acknowledge, PendingRead, PendingWrite, SettleRead, SettleClaim, SettleCreate, Quarantine,
      PostRefund, OpenRecovery, RetryMark, RetryEnds, Expire, Crash
<1>13. QED BY <1>7, <1>8, <1>9, <1>10, <1>11, <1>12 DEF Continue, Goal

\* The command is neither handed to a second caller nor put back while held.
LEMMA OneWinnerKept ==
  ASSUME OneWinner, NEW c \in Callers, Others(c),
         call'[c].job = ChargeWinner => call[c].job = ChargeWinner,
         ChargeWinner \in queue' => ChargeWinner \in queue
  PROVE  OneWinner'
  BY DEF OneWinner, Others

LEMMA OneWinnerReturned ==
  ASSUME OneWinner, NEW c \in Callers, Others(c), call[c].job = ChargeWinner,
         call'[c].job # ChargeWinner
  PROVE  OneWinner'
  BY DEF OneWinner, Others

LEMMA EventsAreNotTheCommand ==
  ASSUME NEW type \in EventTypes, NEW i
  PROVE  <<type, i>> # ChargeWinner
  BY DEF EventTypes, ChargeWinner

LEMMA OneWinnerStep ==
  ASSUME Shaped, OneWinner, [Next]_vars
  PROVE  OneWinner'
<1>1. NoJob # ChargeWinner
  BY JobKinds
<1>2. UNCHANGED call /\ (ChargeWinner \in queue' => ChargeWinner \in queue) => OneWinner'
  BY DEF OneWinner
<1>3. AuctionCloses => OneWinner'
  <2>1. \A c \in Callers : call[c].job = ChargeWinner => ChargeWinner \in sent
    BY <1>1 DEF Shaped, CallShape
  <2>2. QED BY <2>1 DEF AuctionCloses, OneWinner
<1>4. ASSUME NEW jobs, Send(jobs), ChargeWinner \notin jobs, UNCHANGED call
      PROVE  OneWinner'
  BY <1>2, <1>4 DEF Send
<1>5. ASSUME NEW i \in Intents, BuyerPays(i) \/ CardDeclined(i)
      PROVE  OneWinner'
  BY <1>4, <1>5 DEF BuyerPays, Succeeds, CardDeclined, ChargeWinner
<1>6. ASSUME NEW i \in Checkouts, CheckoutAbandoned(i)
      PROVE  OneWinner'
  BY <1>4, <1>6 DEF CheckoutAbandoned, ChargeWinner
<1>7. ASSUME NEW i \in Intents, NEW amount \in {"partial", "full"}, DashboardRefund(i, amount)
      PROVE  OneWinner'
  BY <1>4, <1>7 DEF DashboardRefund, ChargeWinner
<1>8. RecoveryWindowPasses \/ UNCHANGED vars => OneWinner'
  BY <1>2 DEF RecoveryWindowPasses
<1>9. ASSUME NEW c \in Callers, Request(c) \/ Continue(c) \/ Crash(c)
      PROVE  OneWinner'
  <2>1. call'[c].job \in {call[c].job, NoJob} /\ Others(c)
    BY <1>9, JobKept
  <2>2. CASE Crash(c)
    <3>1. call'[c].job = NoJob
      BY <2>2, Knows, FinishKeeps DEF Crash
    <3>2. CASE call[c].job = ChargeWinner
      BY <1>1, <2>1, <3>1, <3>2, OneWinnerReturned
    <3>3. CASE call[c].job # ChargeWinner
      BY <1>1, <2>1, <2>2, <3>1, <3>3, OneWinnerKept DEF Crash
    <3>4. QED BY <3>2, <3>3
  <2>3. CASE OpenRecovery(c)
    <3>1. call[c].job = ChargeWinner /\ CallOK
      BY <2>3, Knows DEF OpenRecovery, CallShape, Charging
    <3>2. CASE UNCHANGED queue
      BY <1>1, <2>1, <3>1, <3>2, OneWinnerKept
    <3>3. CASE Finish(c)
      <4>1. call'[c].job = NoJob
        BY <3>1, <3>3, FinishKeeps
      <4>2. QED BY <1>1, <2>1, <3>1, <4>1, OneWinnerReturned
    <3>4. QED BY <2>3, <3>2, <3>3 DEF OpenRecovery
  <2>4. CASE WinnerCharge(c) \/ RetryCharge(c)
    <3>1. \/ UNCHANGED queue
          \/ \E answer \in Answers : StripeCharges(call[c].intent, answer)
      BY <2>4 DEF WinnerCharge, RetryCharge
    <3>2. ChargeWinner \in queue' => ChargeWinner \in queue
      BY <3>1 DEF StripeCharges, Send, ChargeWinner
    <3>3. QED BY <1>1, <2>1, <3>2, OneWinnerKept
  <2>5. CASE \/ Request(c)
             \/ Acknowledge(c) \/ PendingRead(c) \/ PendingWrite(c) \/ SettleRead(c)
             \/ SettleClaim(c) \/ SettleCreate(c) \/ Quarantine(c) \/ PostRefund(c)
             \/ RecordAttempt(c) \/ SettleFails(c) \/ RetryMark(c) \/ RetryEnds(c) \/ Expire(c)
    <3>1. UNCHANGED queue
      BY <2>5
      DEF Request, StartCheckout, ConfirmPayment, RetryPayment, SweepRead, Acknowledge,
          PendingRead, PendingWrite, SettleRead, SettleClaim, SettleCreate, Quarantine,
          PostRefund, RecordAttempt, SettleFails, RetryMark, RetryEnds, Expire
    <3>2. QED BY <1>1, <2>1, <3>1, OneWinnerKept
  <2>6. QED BY <1>9, <2>2, <2>3, <2>4, <2>5 DEF Continue
<1>10. ASSUME NEW c \in Callers, ChargeAuctionWinner(c)
       PROVE  OneWinner'
  <2>1. CallOK /\ ChargeWinner \in queue /\ queue' = queue \ {ChargeWinner}
    BY <1>10, Knows DEF ChargeAuctionWinner, Take
  <2>2. Others(c)
    BY <1>10, <2>1, EnterKeeps DEF ChargeAuctionWinner
  <2>3. QED BY <2>1, <2>2 DEF OneWinner, Others
<1>11. ASSUME NEW c \in Callers, NEW type \in EventTypes, NEW i \in Intents, NEW pc,
              Take(c, <<type, i>>), Enter(c, pc, i, 0, <<type, i>>)
       PROVE  OneWinner'
  <2>1. call'[c].job # ChargeWinner /\ Others(c)
    BY <1>11, Knows, EnterKeeps, EventsAreNotTheCommand
  <2>2. QED BY <1>11, <2>1, OneWinnerKept DEF Take
<1>12. ASSUME NEW c \in Callers, TakeJob(c)
       PROVE  OneWinner'
  BY <1>10, <1>11, <1>12
  DEF TakeJob, HandleSucceeded, RecordFailure, HandleCanceled, HandleSessionExpired,
      HandleRefunded, EventTypes
<1>13. QED BY <1>3, <1>5, <1>6, <1>7, <1>8, <1>9, <1>12 DEF Next, Environment
-------------------------------------------------------------------------------
(***************************************************************************)
(* A checkout is with one request until its secret is returned.            *)
(***************************************************************************)
\* Nothing else changes what Stripe has of such a checkout, but giving it up.
LEMMA PendingStays ==
  ASSUME Shaped, [Next]_vars, NEW i \in Checkouts, stripe[i].state \in {"created", "canceled"}
  PROVE  \/ stripe'[i].state \in {"created", "canceled"}
         \/ \E c \in Callers : PendingWrite(c) /\ call[c].intent = i
<1> DEFINE Goal == \/ stripe'[i].state \in {"created", "canceled"}
                   \/ \E c \in Callers : PendingWrite(c) /\ call[c].intent = i
<1>1. StripeOK /\ i \in Intents /\ Checkouts \subseteq Intents
  BY Typed, IntentKinds DEF Shaped
<1>2. UNCHANGED stripe => Goal
  OBVIOUS
<1>3. ASSUME NEW j \in Intents, NEW state \in IntentStates, StripeHas(j, state), j # i \/ state = "canceled"
      PROVE  Goal
  BY <1>1, <1>3, StripeHasStores
<1>4. {"succeeded", "declined", "canceled", "created", "open"} \subseteq IntentStates
  BY DEF IntentStates, Answers
<1>5. ASSUME NEW j \in Intents, BuyerPays(j) \/ CardDeclined(j)
      PROVE  Goal
  BY <1>2, <1>3, <1>4, <1>5 DEF BuyerPays, Succeeds, CardDeclined
<1>6. ASSUME NEW j \in Checkouts, CheckoutAbandoned(j) \/ \E c \in Callers : StartCheckout(c, j)
      PROVE  Goal
  BY <1>1, <1>3, <1>4, <1>6 DEF CheckoutAbandoned, StartCheckout
<1>7. ASSUME NEW c \in Callers, PendingWrite(c)
      PROVE  Goal
  <2>1. call[c].intent \in Intents
    BY <1>7, Knows, HasIntent DEF PendingWrite, Pending
  <2>2. QED BY <1>2, <1>3, <1>4, <1>7, <2>1 DEF PendingWrite
<1>8. ASSUME NEW c \in Callers, WinnerCharge(c) \/ RetryCharge(c)
      PROVE  Goal
  <2>1. call[c].intent \in Intents
    BY <1>8, Knows, HasIntent DEF WinnerCharge, RetryCharge
  <2>2. \/ UNCHANGED stripe
        \/ \E answer \in Answers : StripeCharges(call[c].intent, answer)
    BY <1>8 DEF WinnerCharge, RetryCharge
  <2>3. QED BY <1>1, <1>2, <2>1, <2>2, StripeChargesStores
<1>9. ASSUME NEW c \in Callers,
             \/ TakeJob(c) \/ Crash(c)
             \/ (\E j \in Intents : ConfirmPayment(c, j)) \/ RetryPayment(c) \/ SweepRead(c)
             \/ Acknowledge(c) \/ PendingRead(c)
             \/ SettleRead(c) \/ SettleClaim(c) \/ SettleCreate(c) \/ Quarantine(c)
             \/ PostRefund(c) \/ RecordAttempt(c) \/ SettleFails(c) \/ OpenRecovery(c)
             \/ RetryMark(c) \/ RetryEnds(c) \/ Expire(c)
      PROVE  Goal
  BY <1>2, <1>9, QuietSteps DEF Quiet
<1>10. \/ AuctionCloses \/ RecoveryWindowPasses \/ UNCHANGED vars
       \/ \E j \in Intents, amount \in {"partial", "full"} : DashboardRefund(j, amount)
       => Goal
  BY <1>2 DEF AuctionCloses, RecoveryWindowPasses, DashboardRefund
<1> HIDE DEF Goal
<1>11. QED
  BY <1>5, <1>6, <1>7, <1>8, <1>9, <1>10 DEF Next, Environment, Request, Continue, Goal

\* Only starting a checkout makes a caller pending; a pending one stays with
\* its intent.
LEMMA PendingMoves ==
  ASSUME Shaped, NEW c \in Callers, Request(c) \/ TakeJob(c) \/ Continue(c) \/ Crash(c)
  PROVE  \/ \E i \in Checkouts : StartCheckout(c, i) /\ call'[c].intent = i /\ Others(c)
         \/ call'[c].pc \notin Pending /\ Others(c)
         \/ PendingRead(c) /\ call'[c].intent = call[c].intent /\ Others(c)
<1>1. CallOK
  BY Knows
<1> DEFINE Goal == \/ \E i \in Checkouts : StartCheckout(c, i) /\ call'[c].intent = i /\ Others(c)
                   \/ call'[c].pc \notin Pending /\ Others(c)
                   \/ PendingRead(c) /\ call'[c].intent = call[c].intent /\ Others(c)
<1>2. \A pc : MoveTo(c, pc) /\ pc \notin Pending => Goal
  BY <1>1, MoveKeeps
<1>3. Finish(c) => Goal
  BY <1>1, FinishKeeps DEF Pending
<1>4. Done(c) \/ Settled(c) => Goal
  BY <1>1, DoneKeeps DEF Pending
<1>5. \A pc, i, no, job : Enter(c, pc, i, no, job) /\ pc \notin Pending => Goal
  BY <1>1, EnterKeeps
<1>6. ASSUME NEW i \in Checkouts, StartCheckout(c, i)
      PROVE  Goal
  BY <1>1, <1>6, EnterKeeps DEF StartCheckout
<1>7. PendingRead(c) => Goal
  BY <1>1, FinishKeeps, MoveKeeps DEF PendingRead, Pending
<1> HIDE DEF Goal
<1>8. (\E i \in Intents : ConfirmPayment(c, i)) \/ RetryPayment(c) \/ SweepRead(c) => Goal
  BY <1>2, <1>5 DEF ConfirmPayment, RetryPayment, SweepRead, Pending
<1>9. ASSUME TakeJob(c)
      PROVE  Goal
  <2>1. ChargeAuctionWinner(c) => Goal
    BY <1>5 DEF ChargeAuctionWinner, Pending
  <2>2. ASSUME NEW i \in Intents, NEW type, HandleSucceeded(c, type, i)
        PROVE  Goal
    BY <1>5, <2>2 DEF HandleSucceeded, Pending
  <2>3. ASSUME NEW i \in Intents,
               RecordFailure(c, i) \/ HandleCanceled(c, i) \/ HandleSessionExpired(c, i)
        PROVE  Goal
    BY <1>5, <2>3 DEF RecordFailure, HandleCanceled, HandleSessionExpired, Pending
  <2>4. ASSUME NEW i \in Intents, HandleRefunded(c, i)
        PROVE  Goal
    <3> DEFINE pc == IF Names(i) /\ i \notin posted THEN "refundPost" ELSE "ack"
    <3>1. pc \notin Pending /\ Enter(c, pc, i, 0, <<"charge.refunded", i>>)
      BY <2>4 DEF HandleRefunded, Pending
    <3> HIDE DEF pc
    <3>2. QED BY <1>5, <3>1
  <2>5. QED BY <1>9, <2>1, <2>2, <2>3, <2>4 DEF TakeJob
<1>10. WinnerCharge(c) \/ RecordAttempt(c) \/ SettleFails(c) => Goal
  BY <1>2, <1>4, <1>5 DEF WinnerCharge, RecordAttempt, SettleFails, Pending
<1>11. RetryCharge(c) => Goal
  <2>1. ASSUME NEW answer \in Answers
        PROVE  AfterRetry[answer] \notin Pending
    BY <2>1 DEF AfterRetry, Answers, Pending
  <2>2. stripe[call[c].intent].state # "none" /\ RetryCharge(c)
          => stripe[call[c].intent].answer \in Answers
    BY Knows, HasIntent, IntentKinds DEF RetryCharge, CallShape, Retrying, Shaped, IntentShape
  <2>3. QED BY <1>2, <2>1, <2>2 DEF RetryCharge, Pending
<1>12. \/ Acknowledge(c) \/ PendingWrite(c) \/ SettleRead(c) \/ SettleClaim(c)
       \/ SettleCreate(c) \/ Quarantine(c) \/ PostRefund(c) \/ OpenRecovery(c) \/ RetryMark(c)
       \/ RetryEnds(c) \/ Expire(c) \/ Crash(c)
       => Goal
  BY <1>2, <1>3, <1>4
  DEF Acknowledge, PendingWrite, SettleRead, SettleClaim, SettleCreate, Quarantine,
      PostRefund, OpenRecovery, RetryMark, RetryEnds, Expire, Crash, Pending
<1>13. QED BY <1>6, <1>7, <1>8, <1>9, <1>10, <1>11, <1>12 DEF Request, Continue, Goal

LEMMA PendingStep ==
  ASSUME Shaped, PendingShape, [Next]_vars
  PROVE  PendingShape'
<1>1. \A c \in Callers : call[c].pc \in Pending => call[c].intent \in Checkouts
  BY Knows, HasIntent
<1>2. CASE UNCHANGED call /\ ~ \E c \in Callers : PendingWrite(c)
  BY <1>1, <1>2, PendingStays DEF PendingShape
<1>3. ASSUME NEW c \in Callers, NEW i \in Checkouts, StartCheckout(c, i), call'[c].intent = i,
             Others(c)
      PROVE  PendingShape'
  <2>1. stripe[i].state = "none" /\ stripe'[i].state = "created"
    BY <1>3, Knows, StripeHasStores, IntentKinds DEF StartCheckout, IntentStates
  <2>2. \A d \in Callers : call[d].pc \in Pending => call[d].intent # i
    BY <2>1 DEF PendingShape
  <2>3. \A d \in Callers : ~ PendingWrite(d)
    <3>1. call[c].pc = "idle" /\ call'[c].pc = "pendingRead"
      BY <1>3, Knows, EnterKeeps DEF StartCheckout, Free
    <3>2. SUFFICES ASSUME NEW d \in Callers, PendingWrite(d)
                   PROVE  FALSE
      OBVIOUS
    <3>3. call'[d].pc = "idle" /\ call[d].pc = "pendingWrite"
      BY <3>2, Knows, FinishKeeps DEF PendingWrite
    <3>4. QED BY <1>3, <3>1, <3>3 DEF Others
  <2>4. \A d \in Callers \ {c} : call[d].pc \in Pending =>
          stripe'[call[d].intent].state \in {"created", "canceled"}
    BY <1>1, <2>3, PendingStays DEF PendingShape
  <2>5. QED BY <1>3, <2>1, <2>2, <2>4 DEF PendingShape, Others
<1>4. ASSUME NEW c \in Callers, call'[c].pc \notin Pending, Others(c),
             \A d \in Callers : PendingWrite(d) => d = c
      PROVE  PendingShape'
  <2>1. \A d \in Callers \ {c} : call[d].pc \in Pending =>
          stripe'[call[d].intent].state \in {"created", "canceled"}
    <3>1. SUFFICES ASSUME NEW d \in Callers \ {c}, call[d].pc \in Pending
                   PROVE  stripe'[call[d].intent].state \in {"created", "canceled"}
      OBVIOUS
    <3>2. call[d].intent \in Checkouts /\ stripe[call[d].intent].state \in {"created", "canceled"}
      BY <1>1, <3>1 DEF PendingShape
    <3>3. \A e \in Callers : PendingWrite(e) => call[e].intent # call[d].intent
      BY <1>4, <3>1 DEF PendingShape, PendingWrite, Pending
    <3>4. QED BY <3>2, <3>3, PendingStays
  <2>2. QED BY <1>4, <2>1 DEF PendingShape, Others
<1>5. ASSUME NEW c \in Callers, PendingRead(c), call'[c].intent = call[c].intent, Others(c)
      PROVE  PendingShape'
  <2>1. \A d \in Callers : call[d].pc \in Pending =>
          stripe'[call[d].intent].state \in {"created", "canceled"}
    BY <1>5 DEF PendingShape, PendingRead
  <2>2. call[c].pc \in Pending
    BY <1>5 DEF PendingRead, Pending
  <2>3. QED BY <1>5, <2>1, <2>2 DEF PendingShape, Others
<1>6. ASSUME NEW c \in Callers, Request(c) \/ TakeJob(c) \/ Continue(c) \/ Crash(c),
             call'[c].pc \notin Pending, Others(c)
      PROVE  PendingShape'
  <2>1. \A d \in Callers : PendingWrite(d) => call[d].pc = "pendingWrite" /\ call'[d].pc = "idle"
    BY Knows, FinishKeeps DEF PendingWrite
  <2>2. QED BY <1>4, <1>6, <2>1 DEF Others
<1>7. CASE Environment
  <2>1. UNCHANGED call
    BY <1>7
    DEF Environment, BuyerPays, CardDeclined, CheckoutAbandoned, DashboardRefund, AuctionCloses,
        RecoveryWindowPasses
  <2>2. \A c \in Callers : ~ PendingWrite(c)
    BY <2>1, Knows, FinishKeeps DEF PendingWrite
  <2>3. QED BY <1>2, <2>1, <2>2
<1>8. CASE UNCHANGED vars
  BY <1>8 DEF PendingShape
<1>9. QED BY <1>3, <1>5, <1>6, <1>7, <1>8, PendingMoves DEF Next
-------------------------------------------------------------------------------
(***************************************************************************)
(* Where nothing takes the money back.                                     *)
(***************************************************************************)
LEMMA CheckoutsFinite == IsFiniteSet(Checkouts)
<1>1. IsFiniteSet({"elements"}) /\ IsFiniteSet({"elements"} \cup {"session"})
  BY FS_Singleton, FS_AddElement
<1>2. {"elements"} \cup {"session"} = {"elements", "session"}
  OBVIOUS
<1>3. IsFiniteSet(1..MaxCheckouts)
  BY CheckoutsAssumption, FS_Interval
<1>4. QED BY <1>1, <1>2, <1>3, FS_Product DEF Checkouts

\* What is undisturbed has been undisturbed.
LEMMA UndisturbedBefore ==
  ASSUME Grows, Undisturbed'
  PROVE  Undisturbed
<1>1. Started \subseteq Started'
  BY IntentKinds DEF Started, Grows
<1>2. IsFiniteSet(Started') /\ IsFiniteSet(Started)
  BY CheckoutsFinite, FS_Subset DEF Started
<1>3. Cardinality(Started) \in Nat /\ Cardinality(Started') \in Nat
  BY <1>2, FS_CardinalityType
<1>4. Cardinality(Started) <= Cardinality(Started')
  BY <1>1, <1>2, FS_Subset
<1>5. Cardinality(Started') <= 1
  BY DEF Undisturbed
<1>6. Cardinality(Started) <= 1
  BY <1>3, <1>4, <1>5
<1>7. QED BY <1>1, <1>6 DEF Undisturbed, Grows

LEMMA OneStarted ==
  ASSUME Undisturbed, NEW i \in Started, NEW j \in Started
  PROVE  i = j
<1> SUFFICES ASSUME i # j
             PROVE  FALSE
  OBVIOUS
<1>1. IsFiniteSet(Started)
  BY CheckoutsFinite, FS_Subset DEF Started
<1>2. Cardinality({i}) = 1 /\ IsFiniteSet({i})
  BY FS_Singleton
<1>3. Cardinality({i} \cup {j}) = 2
  BY <1>2, FS_AddElement
<1>4. Cardinality({i} \cup {j}) <= Cardinality(Started)
  BY <1>1, FS_Subset
<1>5. Cardinality(Started) \in Nat
  BY <1>1, FS_CardinalityType
<1>6. QED BY <1>3, <1>4, <1>5 DEF Undisturbed

\* No refund, no retry, no failure is about.
LEMMA Calm ==
  ASSUME Shaped, Undisturbed, NEW c \in Callers
  PROVE  /\ call[c].pc \notin Retrying \cup {"quarantine", "refundPost"}
         /\ call[c].no > 0 => call[c].job = ChargeWinner
         /\ ~ RetryPayment(c)
         /\ \A i \in Intents : ~ RecordFailure(c, i)
<1>1. "declines" \notin scenario /\ "refunds" \notin scenario /\ "retry" \notin scenario
  BY DEF Undisturbed
<1>2. CallShape(c) /\ queue \subseteq sent
  BY Knows
<1>3. \A i \in Intents : refunded[i] = "none" /\ <<"payment_intent.payment_failed", i>> \notin sent
  BY <1>1 DEF Shaped, IntentShape, EventShape
<1>4. call[c].pc \notin Retrying \cup {"quarantine", "refundPost"}
  BY <1>1, <1>2, <1>3, JobKinds DEF CallShape
<1>5. QED BY <1>1, <1>2, <1>3, <1>4 DEF CallShape, RetryPayment, RecordFailure, Take

\* A checkout never writes its row over a paid one: the intent that was
\* captured would be a second checkout, or an auction's beside one.
LEMMA PendingNotPaid ==
  ASSUME IInv, Undisturbed, NEW c \in Callers, call[c].pc \in Pending
  PROVE  pay.status # "PAID"
<1> SUFFICES ASSUME pay.status = "PAID"
             PROVE  FALSE
  OBVIOUS
<1> DEFINE i == call[c].intent
<1>1. i \in Checkouts /\ stripe[i].state \in {"created", "canceled"}
  BY Knows, HasIntent DEF IInv, PendingShape
<1>2. i \in Started
  BY <1>1 DEF Started
<1>3. PICK j \in Intents : stripe[j].state = "succeeded"
  BY DEF IInv, Captured
<1>4. j \notin Checkouts
  BY <1>1, <1>2, <1>3, OneStarted DEF Started
<1>5. IntentShape(j) /\ j[1] \in {"winner", "retry"}
  BY <1>4, IntentKinds DEF IInv, Shaped
<1>6. QED BY <1>2, <1>3, <1>5 DEF IntentShape, Undisturbed

\* The steps on the row and its attempts that are left.
CallBooks(c) ==
  /\ SettleClaim(c) \/ SettleCreate(c)
  /\ pay.status # "PAID" /\ pay'.status = "PAID" /\ pay'.count = pay.count
  /\ Book(call[c].intent)

LEMMA CalmRow ==
  ASSUME IInv, Undisturbed, [Next]_vars
  PROVE  \/ Same /\ UNCHANGED <<attempts, books>>
         \/ \E c \in Callers : CallBooks(c) \/ RecordAttempt(c) \/ OpenRecovery(c)
<1>1. pay \in Payments /\ Shaped
  BY DEF IInv, Shaped, TypeOK
<1>2. \A i \in Intents \cup {NoIntent} :
        Naming(i) \in Payments /\ Naming(i).count = pay.count
  BY <1>1, RowTyped
<1>3. ASSUME NEW c \in Callers, PendingWrite(c)
      PROVE  Same /\ UNCHANGED <<attempts, books>>
  <2> DEFINE i == IF call[c].intent[1] = "session" THEN NoIntent ELSE call[c].intent
  <2>1. i \in Intents \cup {NoIntent} /\ pay' = [Naming(i) EXCEPT !.status = "PENDING"]
    BY <1>1, <1>3, Knows DEF PendingWrite, Calls
  <2>2. pay.status # "PAID"
    BY <1>3, PendingNotPaid DEF PendingWrite, Pending
  <2> HIDE DEF i
  <2>3. QED BY <1>2, <1>3, <2>1, <2>2 DEF Same, PendingWrite, Payments
<1>4. ASSUME NEW c \in Callers, SettleClaim(c) \/ SettleCreate(c)
      PROVE  CallBooks(c) \/ (Same /\ UNCHANGED <<attempts, books>>)
  <2> DEFINE row == Naming(call[c].intent)
  <2>1. row \in Payments /\ row.count = pay.count
    BY <1>1, <1>2, <1>4, Knows, HasIntent DEF SettleClaim, SettleCreate
  <2>2. \/ /\ pay' = pay
           /\ UNCHANGED <<attempts, books>>
        \/ /\ pay.status # "PAID" /\ Book(call[c].intent)
           /\ \/ pay' = [row EXCEPT !.status = "PAID", !.recovery = "RECOVERED"]
              \/ pay' = [row EXCEPT !.status = "PAID"]
    BY <1>4 DEF SettleClaim, SettleCreate
  <2> HIDE DEF row
  <2>3. \/ pay' = [row EXCEPT !.status = "PAID", !.recovery = "RECOVERED"]
        \/ pay' = [row EXCEPT !.status = "PAID"]
        => pay'.status = "PAID" /\ pay'.count = pay.count
    BY <2>1 DEF Payments
  <2>4. QED BY <1>4, <2>2, <2>3 DEF CallBooks, Same
<1>5. ASSUME NEW c \in Callers
      PROVE  /\ ~ Quarantine(c) /\ ~ PostRefund(c) /\ ~ RetryMark(c) /\ ~ RetryEnds(c)
             /\ \A i \in Intents : ~ RecordFailure(c, i)
  BY <1>1, <1>5, Calm DEF Quarantine, PostRefund, RetryMark, RetryEnds, Retrying
<1>6. QED BY <1>1, <1>3, <1>4, <1>5, RowStep, BooksKept

\* Where the caller with the winner's number can be after a step.
Numbering == Charging \cup {"settleRead"}

LEMMA WinnerMoves ==
  ASSUME Shaped, Undisturbed, NEW c \in Callers, Request(c) \/ TakeJob(c) \/ Continue(c) \/ Crash(c)
  PROVE  /\ Others(c)
         /\ \/ call'[c].pc \notin Numbering \/ call'[c].no = 0
            \/ /\ ChargeAuctionWinner(c)
               /\ call'[c].no = pay.count + 1 /\ call'[c].pc # "recordAttempt"
            \/ /\ call[c].pc \in Numbering /\ call'[c].no = call[c].no
               /\ ~ OpenRecovery(c)
               /\ call'[c].pc = "recordAttempt" =>
                    stripe[<<"winner", call[c].no>>].state = "none"
<1>1. CallOK /\ CallShape(c) /\ call[c].no \in 0..MaxAttempts + 1 /\ StripeOK
  BY Knows
<1>2. call[c].pc \notin Retrying \cup {"quarantine", "refundPost"} /\ ~ RetryPayment(c)
  BY Calm
<1> DEFINE Rests == (call'[c].pc \notin Numbering \/ call'[c].no = 0) /\ Others(c)
           Takes == /\ ChargeAuctionWinner(c) /\ Others(c)
                    /\ call'[c].no = pay.count + 1 /\ call'[c].pc # "recordAttempt"
           Goes  == /\ call[c].pc \in Numbering /\ call'[c].no = call[c].no /\ Others(c)
                    /\ ~ OpenRecovery(c)
                    /\ call'[c].pc = "recordAttempt" =>
                         stripe[<<"winner", call[c].no>>].state = "none"
<1>3. \A pc : MoveTo(c, pc) /\ pc \notin Numbering => Rests
  BY <1>1, MoveKeeps
<1>4. Finish(c) => Rests
  BY <1>1, FinishKeeps
<1>5. Done(c) \/ Settled(c) => Rests
  BY <1>1, DoneKeeps DEF Numbering, Charging
<1>6. \A pc, i, job : Enter(c, pc, i, 0, job) => Rests
  BY <1>1, EnterKeeps
<1> HIDE DEF Rests
<1>7. Request(c) => Rests
  BY <1>2, <1>3, <1>6 DEF Request, StartCheckout, ConfirmPayment, SweepRead, Numbering, Charging
<1>8. ASSUME ChargeAuctionWinner(c)
      PROVE  Rests \/ Takes
  <2>1. CASE Enter(c, "ack", NoIntent, 0, ChargeWinner)
    BY <1>6, <2>1
  <2>2. CASE \/ Enter(c, "winnerCharge", <<"winner", pay.count + 1>>, pay.count + 1, ChargeWinner)
             \/ Enter(c, "recover", NoIntent, pay.count + 1, ChargeWinner)
    BY <1>1, <1>8, <2>2, EnterKeeps
  <2>3. QED BY <1>8, <2>1, <2>2 DEF ChargeAuctionWinner
<1>9. ASSUME NEW i \in Intents, NEW type, HandleSucceeded(c, type, i)
      PROVE  Rests
  BY <1>6, <1>9 DEF HandleSucceeded
<1>10. ASSUME NEW i \in Intents, \/ RecordFailure(c, i) \/ HandleCanceled(c, i)
                                 \/ HandleSessionExpired(c, i) \/ HandleRefunded(c, i)
       PROVE  Rests
  BY <1>6, <1>10 DEF RecordFailure, HandleCanceled, HandleSessionExpired, HandleRefunded
<1>11. ASSUME WinnerCharge(c)
       PROVE  Goes
  <2>1. call[c].pc = "winnerCharge" /\ call[c].intent = <<"winner", call[c].no>>
    BY <1>1, <1>11 DEF WinnerCharge, CallShape
  <2>2. call[c].pc \in Numbering /\ ~ OpenRecovery(c)
    BY <2>1 DEF Numbering, Charging, OpenRecovery
  <2>3. ASSUME NEW answer \in Answers, StripeCharges(call[c].intent, answer)
        PROVE  stripe[<<"winner", call[c].no>>].state = "none"
    BY <2>1, <2>3 DEF StripeCharges
  <2>4. \/ \E pc : MoveTo(c, pc)
        \/ Enter(c, "recover", NoIntent, call[c].no, ChargeWinner)
    BY <1>11 DEF WinnerCharge
  <2>5. call'[c].no = call[c].no /\ Others(c)
    BY <1>1, <2>4, MoveKeeps, EnterKeeps
  <2>6. \/ \E answer \in Answers : StripeCharges(call[c].intent, answer)
        \/ Enter(c, "recover", NoIntent, call[c].no, ChargeWinner)
    BY <1>11 DEF WinnerCharge
  <2>7. call'[c].pc = "recordAttempt" => stripe[<<"winner", call[c].no>>].state = "none"
    BY <1>1, <2>3, <2>6, EnterKeeps
  <2>8. QED BY <2>2, <2>5, <2>7
<1>12. ASSUME RecordAttempt(c)
       PROVE  Rests \/ Goes
  <2>1. call[c].pc \in Numbering /\ ~ OpenRecovery(c)
    BY <1>12 DEF Numbering, Charging, RecordAttempt, OpenRecovery
  <2>2. ASSUME NEW pc, MoveTo(c, pc), pc # "recordAttempt"
        PROVE  Goes
    BY <1>1, <2>1, <2>2, MoveKeeps
  <2>3. ASSUME Enter(c, "recover", NoIntent, call[c].no, ChargeWinner)
        PROVE  Goes
    BY <1>1, <2>1, <2>3, EnterKeeps
  <2> HIDE DEF Goes
  <2>4. QED BY <1>5, <1>12, <2>2, <2>3 DEF RecordAttempt
<1>13. ASSUME SettleFails(c)
       PROVE  Rests \/ Goes
  <2>1. call[c].pc \in Numbering /\ ~ OpenRecovery(c)
    BY <1>13 DEF Numbering, SettleFails, OpenRecovery
  <2>2. CASE Enter(c, "recover", NoIntent, call[c].no, ChargeWinner)
    BY <1>1, <2>1, <2>2, EnterKeeps
  <2>3. CASE MoveTo(c, "retryFailed")
    BY <1>3, <2>3 DEF Numbering, Charging
  <2>4. QED BY <1>13, <2>2, <2>3 DEF SettleFails
<1>14. \/ Acknowledge(c) \/ PendingRead(c) \/ PendingWrite(c) \/ SettleRead(c) \/ SettleClaim(c)
       \/ SettleCreate(c) \/ OpenRecovery(c) \/ Expire(c) \/ Crash(c)
       => Rests
  BY <1>2, <1>3, <1>4, <1>5
  DEF Acknowledge, PendingRead, PendingWrite, SettleRead, SettleClaim, SettleCreate,
      OpenRecovery, Expire, Crash, Numbering, Charging
<1>15. ~ Quarantine(c) /\ ~ PostRefund(c) /\ ~ RetryMark(c) /\ ~ RetryCharge(c) /\ ~ RetryEnds(c)
  BY <1>2 DEF Quarantine, PostRefund, RetryMark, RetryCharge, RetryEnds, Retrying
<1> HIDE DEF Takes, Goes
<1>16. Rests \/ Takes \/ Goes
  BY <1>7, <1>8, <1>9, <1>10, <1>11, <1>12, <1>13, <1>14, <1>15 DEF TakeJob, Continue
<1>17. QED BY <1>16 DEF Rests, Takes, Goes

\* An attempt that can be added has the next number, and the payment is not
\* paid: a paid one has the next number taken.
LEMMA NextNumber ==
  ASSUME IInv, Undisturbed, NEW c \in Callers, call[c].pc \in {"recordAttempt", "recover"},
         NEW key, Fresh(call[c].no, key)
  PROVE  pay.status # "PAID" /\ Numbers = 1..pay.count
<1>1. call[c].no = pay.count + 1
  BY Knows DEF IInv, WinnerShape, CallShape, Charging
<1>2. call[c].no \notin Numbers
  BY DEF Fresh, Numbers
<1>3. PICK m \in Nat : Numbers = 1..m /\ pay.count <= m /\ (pay.status = "PAID" => pay.count < m)
  BY DEF IInv, NumberShape
<1>4. pay.count \in Nat
  BY Knows, AttemptsAssumption DEF IInv
<1>5. m = pay.count
  BY <1>1, <1>2, <1>3, <1>4
<1>6. QED BY <1>3, <1>4, <1>5

\* What a winner's charge adds.
CallAdds(c) ==
  LET no == call[c].no IN
  /\ call[c].job = ChargeWinner /\ no = pay.count + 1
  /\ pay.status # "PAID" /\ Numbers = 1..pay.count
  /\ attempts' = attempts \cup {<<no, <<"attempt", no>>>>}
  /\ \/ RecordAttempt(c) /\ pay'.count = pay.count /\ stripe[<<"winner", no>>].state # "none"
     \/ OpenRecovery(c) /\ pay'.count = no /\ pay'.status # "PAID"

LEMMA AddsOrNot ==
  ASSUME IInv, Undisturbed, NEW c \in Callers, RecordAttempt(c) \/ OpenRecovery(c)
  PROVE  UNCHANGED <<pay, attempts, books>> \/ (CallAdds(c) /\ UNCHANGED books)
<1>1. /\ pay \in Payments /\ CallShape(c) /\ call[c].pc \in {"recordAttempt", "recover"}
      /\ call[c].no \in 0..MaxAttempts + 1
      /\ call[c].intent \in Intents \cup {NoIntent}
  BY Knows DEF IInv, Shaped, TypeOK, RecordAttempt, OpenRecovery, Calls
<1>2. call[c].job = ChargeWinner /\ call[c].no = pay.count + 1
  BY <1>1 DEF IInv, WinnerShape, CallShape, Charging
<1>3. \A i \in Intents \cup {NoIntent} :
        Naming(i) \in Payments /\ Naming(i).count = pay.count
  BY <1>1, RowTyped
<1>4. UNCHANGED books
  BY DEF RecordAttempt, OpenRecovery
<1> DEFINE no == call[c].no
           key == <<"attempt", no>>
<1>5. CASE RecordAttempt(c) /\ ~ UNCHANGED <<pay, attempts>>
  <2>1. call[c].pc = "recordAttempt" /\ call[c].intent = <<"winner", no>>
    BY <1>1, <1>5 DEF RecordAttempt, CallShape
  <2>2. <<no, key>> \notin attempts
    BY <2>1 DEF IInv, WinnerShape, Recorded
  <2>3. Fresh(no, key)
    BY <1>5, <2>2 DEF RecordAttempt
  <2>4. pay.status # "PAID" /\ Numbers = 1..pay.count
    BY <2>1, <2>3, NextNumber
  <2> DEFINE status == CASE stripe[call[c].intent].answer = "succeeded" -> "PAID"
                         [] stripe[call[c].intent].answer = "requires_action" -> "REQUIRES_ACTION"
                         [] OTHER -> "PENDING"
  <2>5. pay' = [Naming(call[c].intent) EXCEPT !.status = status]
    BY <1>5 DEF RecordAttempt
  <2> HIDE DEF status
  <2>6. pay'.count = pay.count
    BY <1>1, <1>3, <2>5 DEF Payments
  <2>7. stripe[<<"winner", no>>].state # "none"
    BY <1>1, <2>1 DEF CallShape
  <2>8. attempts' = attempts \cup {<<no, key>>}
    BY <1>5 DEF RecordAttempt
  <2>9. QED BY <1>2, <1>4, <1>5, <2>4, <2>6, <2>7, <2>8 DEF CallAdds
<1>6. CASE OpenRecovery(c) /\ ~ UNCHANGED <<pay, attempts>>
  <2>1. Fresh(no, key) /\ attempts' = attempts \cup {<<no, key>>}
    BY <1>6 DEF OpenRecovery
  <2>2. pay.status # "PAID" /\ Numbers = 1..pay.count
    BY <1>1, <2>1, NextNumber
  <2> DEFINE row == IF call[c].intent = NoIntent THEN pay ELSE Naming(call[c].intent)
  <2>3. row \in Payments
    BY <1>1, <1>3
  <2>4. pay' = [row EXCEPT !.status = "FAILED", !.recovery = "REQUIRED", !.count = no,
                           !.window = "open"]
    BY <1>6 DEF OpenRecovery
  <2> HIDE DEF row
  <2>5. pay'.count = no /\ pay'.status # "PAID"
    BY <2>3, <2>4 DEF Payments
  <2>6. QED BY <1>2, <1>4, <1>6, <2>1, <2>2, <2>5 DEF CallAdds
<1>7. QED BY <1>4, <1>5, <1>6

LEMMA NumberAdded ==
  ASSUME NEW n, NEW key, attempts' = attempts \cup {<<n, key>>}
  PROVE  Numbers' = Numbers \cup {n}
<1>1. <<n, key>> \in attempts' /\ <<n, key>>[1] = n
  OBVIOUS
<1>2. ASSUME NEW k \in Numbers'
      PROVE  k \in Numbers \cup {n}
  <2>1. PICK a \in attempts' : k = a[1]
    BY <1>2 DEF Numbers
  <2>2. a \in attempts \/ a = <<n, key>>
    BY <2>1
  <2>3. QED BY <1>1, <2>1, <2>2 DEF Numbers
<1>3. ASSUME NEW k \in Numbers \cup {n}
      PROVE  k \in Numbers'
  <2>1. CASE k = n
    BY <1>1, <2>1 DEF Numbers
  <2>2. CASE k \in Numbers
    BY <2>2 DEF Numbers
  <2>3. QED BY <1>3, <2>1, <2>2
<1>4. QED BY <1>2, <1>3

LEMMA NumberStep ==
  ASSUME IInv, Undisturbed, [Next]_vars
  PROVE  NumberShape'
<1>1. pay.count \in Nat
  BY Knows, AttemptsAssumption, PayStep DEF IInv, Shaped, TypeOK, Payments
<1>2. PICK m \in Nat : Numbers = 1..m /\ pay.count <= m /\ (pay.status = "PAID" => pay.count < m)
  BY DEF IInv, NumberShape
<1>3. CASE Same /\ UNCHANGED attempts
  BY <1>2, <1>3 DEF Same, NumberShape, Numbers
<1>4. ASSUME NEW c \in Callers, CallBooks(c)
      PROVE  NumberShape'
  <2>1. call[c].intent \in Intents /\ ~ \E a \in attempts : a[2] = <<"settle", call[c].intent>>
    <3>1. call[c].intent \in Intents
      BY <1>4, Knows, HasIntent DEF IInv, CallBooks, SettleClaim, SettleCreate
    <3>2. QED BY <1>4, <3>1 DEF IInv, BookShape, CallBooks
  <2> DEFINE top == Max({0} \cup Numbers)
  <2>2. /\ top \in {0} \cup Numbers /\ \A n \in Numbers : n <= top
        /\ attempts' = attempts \cup {<<1 + top, <<"settle", call[c].intent>>>>}
    BY <1>4, <2>1, GreatestNumber, SettleAttemptAdds DEF IInv, Books, CallBooks, Book
  <2> HIDE DEF top
  <2>3. top = m
    BY <1>2, <2>2
  <2>4. Numbers' = Numbers \cup {1 + top}
    BY <2>2, NumberAdded
  <2>5. Numbers' = 1..m + 1 /\ pay'.count < m + 1
    BY <1>1, <1>2, <1>4, <2>3, <2>4 DEF CallBooks
  <2>6. m + 1 \in Nat /\ pay'.count <= m + 1
    BY <1>1, <1>4, <2>5 DEF CallBooks
  <2>7. QED BY <2>5, <2>6 DEF NumberShape
<1>5. ASSUME NEW c \in Callers, CallAdds(c)
      PROVE  NumberShape'
  <2>1. Numbers' = Numbers \cup {pay.count + 1}
    BY <1>1, <1>5, NumberAdded DEF CallAdds
  <2>2. Numbers' = 1..pay.count + 1
    BY <1>1, <1>5, <2>1 DEF CallAdds
  <2>3. /\ pay'.count <= pay.count + 1
        /\ pay'.status = "PAID" => pay'.count < pay.count + 1
    BY <1>1, <1>5 DEF CallAdds
  <2>4. pay.count + 1 \in Nat
    BY <1>1
  <2>5. QED BY <2>2, <2>3, <2>4 DEF NumberShape
<1>6. QED BY <1>3, <1>4, <1>5, CalmRow, AddsOrNot DEF Same

LEMMA BookStep ==
  ASSUME IInv, Undisturbed, [Next]_vars
  PROVE  BookShape' /\ \A i \in Intents : charges'[i] <= 1
<1>1. BookShape /\ \A i \in Intents : charges[i] <= 1
  BY DEF IInv, BookedOnce
<1>2. charges \in [Intents -> 0..2]
  BY DEF IInv, Books
<1>3. CASE Same /\ UNCHANGED <<attempts, books>>
  BY <1>1, <1>3 DEF Same, BookShape
<1>4. ASSUME NEW c \in Callers, CallBooks(c)
      PROVE  BookShape' /\ \A i \in Intents : charges'[i] <= 1
  <2>1. \A i \in Intents : charges[i] = 0
    BY <1>1, <1>2, <1>4 DEF CallBooks, BookShape
  <2>2. call[c].intent \in Intents
    BY <1>4, Knows, HasIntent DEF IInv, CallBooks, SettleClaim, SettleCreate
  <2>3. charges' = [charges EXCEPT ![call[c].intent] = 1]
    BY <1>4, <2>1, <2>2 DEF CallBooks, Book
  <2>4. \A i \in Intents : charges'[i] <= 1
    BY <1>2, <2>1, <2>3
  <2>5. QED BY <1>4, <2>4 DEF CallBooks, BookShape
<1>5. ASSUME NEW c \in Callers, CallAdds(c), UNCHANGED books
      PROVE  BookShape' /\ \A i \in Intents : charges'[i] <= 1
  <2>1. \A i \in Intents : ~ charges[i] > 0
    BY <1>1, <1>5 DEF CallAdds, BookShape
  <2>2. \A a \in attempts' : a[2][1] # "settle"
    BY <1>1, <1>5 DEF CallAdds, BookShape
  <2>3. QED BY <1>1, <1>5, <2>1, <2>2 DEF BookShape
<1>6. QED BY <1>3, <1>4, <1>5, CalmRow, AddsOrNot DEF Same

LEMMA RecordedStep ==
  ASSUME IInv, Undisturbed, [Next]_vars, NEW n, Recorded(n)'
  PROVE  Recorded(n) \/ \E c \in Callers : CallAdds(c) /\ n = call[c].no
<1>1. CASE UNCHANGED attempts
  BY <1>1 DEF Recorded
<1>2. ASSUME NEW c \in Callers, CallBooks(c)
      PROVE  Recorded(n)
  <2>1. call[c].intent \in Intents
    BY <1>2, Knows, HasIntent DEF IInv, CallBooks, SettleClaim, SettleCreate
  <2>2. \A a \in attempts' \ attempts : a[2][1] = "settle"
    BY <1>2, <2>1, SettleAttemptAdds DEF IInv, Books, CallBooks, Book
  <2>3. QED BY <2>2 DEF Recorded
<1>3. ASSUME NEW c \in Callers, CallAdds(c)
      PROVE  Recorded(n) \/ n = call[c].no
  BY <1>3 DEF Recorded, CallAdds
<1>4. QED BY <1>1, <1>2, <1>3, CalmRow, AddsOrNot

\* The count only grows; unless a winner's charge adds its attempt, it stays.
LEMMA CountStep ==
  ASSUME IInv, Undisturbed, [Next]_vars
  PROVE  /\ pay'.count >= pay.count
         /\ pay'.count = pay.count \/ \E c \in Callers : CallAdds(c)
<1>1. pay.count \in Nat
  BY Knows, AttemptsAssumption DEF IInv, Shaped, TypeOK, Payments
<1>2. \A c \in Callers : CallAdds(c) => pay'.count >= pay.count
  BY <1>1 DEF CallAdds
<1>3. \A c \in Callers : CallBooks(c) => pay'.count = pay.count
  BY DEF CallBooks
<1>4. \/ pay'.count = pay.count
      \/ \E c \in Callers : CallAdds(c)
  BY <1>3, CalmRow, AddsOrNot DEF Same
<1>5. QED BY <1>1, <1>2, <1>4

LEMMA WinnerStep ==
  ASSUME IInv, Undisturbed, Grows, Shaped', [Next]_vars
  PROVE  WinnerShape'
<1>1. pay.count \in Nat /\ WinnerShape /\ OneWinner /\ Shaped
  BY Knows, AttemptsAssumption DEF IInv, Shaped, TypeOK, Payments
<1>2. \A c \in Callers : CallShape(c) /\ CallShape(c)' /\ call[c].no \in 0..MaxAttempts + 1
  BY <1>1, Knows DEF Shaped
<1>3. pay'.count \in Nat
  BY AttemptsAssumption DEF Shaped, TypeOK, Payments
<1>4. ASSUME NEW n \in 1..MaxAttempts + 1, Recorded(n)'
      PROVE  n <= pay'.count \/ stripe'[<<"winner", n>>].state # "none"
  <2>1. <<"winner", n>> \in Intents
    BY Numbered
  <2>2. CASE Recorded(n)
    <3>1. n <= pay.count \/ stripe[<<"winner", n>>].state # "none"
      BY <1>1, <2>2 DEF WinnerShape
    <3>2. pay.count <= pay'.count
      BY <1>1, <1>3, CountStep
    <3>3. QED BY <1>1, <1>3, <2>1, <3>1, <3>2 DEF Grows
  <2>3. ASSUME NEW c \in Callers, CallAdds(c), n = call[c].no
        PROVE  n <= pay'.count \/ stripe'[<<"winner", n>>].state # "none"
    BY <1>3, <2>1, <2>3 DEF CallAdds, Grows
  <2>4. QED BY <1>4, <2>2, <2>3, RecordedStep
<1> DEFINE Fine(d) == /\ call'[d].pc \in Numbering /\ call'[d].no > 0 =>
                           call'[d].no = pay'.count + 1
                      /\ call'[d].pc = "recordAttempt" =>
                           <<call'[d].no, <<"attempt", call'[d].no>>>> \notin attempts'
<1>5. ASSUME NEW c \in Callers, CallAdds(c)
      PROVE  \A d \in Callers : Fine(d)
  <2>1. RecordAttempt(c) \/ OpenRecovery(c)
    BY <1>5 DEF CallAdds
  <2>2. /\ Others(c)
        /\ \/ call'[c].pc \notin Numbering \/ call'[c].no = 0
           \/ /\ RecordAttempt(c) /\ call'[c].no = call[c].no /\ call'[c].pc # "recordAttempt"
    BY <1>1, <1>5, <2>1, WinnerMoves
    DEF Continue, CallAdds, ChargeAuctionWinner, Take, Free, RecordAttempt, OpenRecovery
  <2>3. ASSUME NEW d \in Callers \ {c}
        PROVE  Fine(d)
    <3>1. call[d].job # ChargeWinner
      BY <1>1, <1>5, <2>3 DEF OneWinner, CallAdds
    <3>2. ~ call[d].no > 0 /\ call[d].pc # "recordAttempt"
      BY <1>1, <1>2, <3>1, Calm DEF CallShape, Charging
    <3>3. QED BY <2>2, <3>2 DEF Others
  <2>4. Fine(c)
    <3>1. CASE call'[c].pc \notin Numbering \/ call'[c].no = 0
      BY <1>2, <3>1 DEF CallShape, Charging, Numbering
    <3>2. CASE RecordAttempt(c) /\ call'[c].no = call[c].no /\ call'[c].pc # "recordAttempt"
      <4>1. ~ OpenRecovery(c)
        BY <3>2 DEF RecordAttempt, OpenRecovery
      <4>2. QED BY <1>5, <3>2, <4>1 DEF CallAdds
    <3>3. QED BY <2>2, <3>1, <3>2
  <2>5. QED BY <2>3, <2>4
<1>6. ASSUME ~ \E c \in Callers : CallAdds(c)
      PROVE  \A d \in Callers : Fine(d)
  <2>1. pay'.count = pay.count /\ \A n : Recorded(n)' => Recorded(n)
    BY <1>6, CountStep, RecordedStep
  <2>2. ASSUME NEW d \in Callers, call'[d] = call[d]
        PROVE  Fine(d)
    BY <1>1, <2>1, <2>2 DEF WinnerShape, Numbering, Recorded
  <2>3. ASSUME NEW c \in Callers, Request(c) \/ TakeJob(c) \/ Continue(c) \/ Crash(c)
        PROVE  \A d \in Callers : Fine(d)
    <3>1. Others(c)
      BY <1>1, <2>3, WinnerMoves
    <3>2. CASE call'[c].pc \notin Numbering \/ call'[c].no = 0
      <4>1. call'[c].pc # "recordAttempt"
        BY <1>2, <3>2 DEF CallShape, Charging, Numbering
      <4>2. Fine(c)
        BY <3>2, <4>1
      <4>3. QED BY <2>2, <3>1, <4>2 DEF Others
    <3>3. CASE call'[c].no = pay.count + 1 /\ call'[c].pc # "recordAttempt"
      BY <2>1, <2>2, <3>1, <3>3 DEF Others
    <3>4. CASE /\ call[c].pc \in Numbering /\ call'[c].no = call[c].no
               /\ call'[c].pc = "recordAttempt" => stripe[<<"winner", call[c].no>>].state = "none"
      <4>1. call'[c].no > 0 => call'[c].no = pay'.count + 1
        BY <1>1, <2>1, <3>4 DEF WinnerShape, Numbering
      <4>2. ASSUME call'[c].pc = "recordAttempt"
            PROVE  <<call'[c].no, <<"attempt", call'[c].no>>>> \notin attempts'
        <5>1. call[c].no > 0
          BY <1>2, <3>4, <4>2 DEF CallShape, Charging
        <5>2. call[c].no \in 1..MaxAttempts + 1
          BY <1>2, <5>1, AttemptsAssumption
        <5>3. ~ call[c].no <= pay.count
          BY <1>1, <2>1, <3>4, <4>1, <5>1
        <5>4. ~ Recorded(call[c].no)
          BY <1>1, <3>4, <4>2, <5>2, <5>3 DEF WinnerShape
        <5>5. QED BY <2>1, <3>4, <5>4 DEF Recorded
      <4>3. Fine(c)
        BY <4>1, <4>2
      <4>4. QED BY <2>2, <3>1, <4>3 DEF Others
    <3>5. QED BY <1>1, <2>3, <3>2, <3>3, <3>4, WinnerMoves
  <2>4. Environment \/ UNCHANGED vars => UNCHANGED call
    BY DEF Environment, BuyerPays, CardDeclined, CheckoutAbandoned, DashboardRefund,
           AuctionCloses, RecoveryWindowPasses
  <2> HIDE DEF Fine
  <2>5. QED BY <2>2, <2>3, <2>4 DEF Next
<1>7. \A d \in Callers : Fine(d)
  BY <1>5, <1>6
<1>8. QED BY <1>4, <1>7 DEF WinnerShape, Numbering, Recorded
-------------------------------------------------------------------------------
(***************************************************************************)
(* The theorems.                                                           *)
(***************************************************************************)
LEMMA IInvInit == Init => IInv
<1> SUFFICES ASSUME Init
             PROVE  IInv
  OBVIOUS
<1>1. 0 \in 0..MaxAttempts + 1
  BY AttemptsAssumption
<1>2. TypeOK
  <2>1. pay \in Payments
    BY <1>1 DEF Init, NoPayment, Payments
  <2>2. call \in [Callers -> Calls]
    BY IdleTyped DEF Init
  <2>3. QED BY <2>1, <2>2 DEF Init, TypeOK, IntentStates
<1>3. \A i \in Intents : IntentShape(i) /\ EventShape(i)
  BY DEF Init, IntentShape, EventShape
<1>4. SentShape
  BY DEF Init, SentShape
<1>5. \A c \in Callers : CallShape(c)
  BY DEF Init, CallShape, Idle, Call, Pending, Charging, Retrying, RetryEndings
<1>6. Books
  BY DEF Init, Books, Counted
<1>7. pay.status # "PAID"
  BY DEF Init, NoPayment
<1>8. OneWinner /\ PendingShape
  BY JobKinds DEF Init, OneWinner, PendingShape, Idle, Call, Pending
<1>9. NumberShape
  <2>1. Numbers = 1..0
    BY DEF Init, Numbers
  <2>2. 0 \in Nat /\ pay.count <= 0
    BY DEF Init, NoPayment
  <2>3. QED BY <1>7, <2>1, <2>2 DEF NumberShape
<1>10. WinnerShape
  BY DEF Init, WinnerShape, Recorded, Idle, Call, Charging
<1>11. BookShape /\ BookedOnce
  BY DEF Init, BookShape, BookedOnce
<1>12. QED BY <1>2, <1>3, <1>4, <1>5, <1>6, <1>7, <1>8, <1>9, <1>10, <1>11 DEF IInv, Shaped

LEMMA IInvNext == IInv /\ [Next]_vars => IInv'
<1> SUFFICES ASSUME IInv, [Next]_vars
             PROVE  IInv'
  OBVIOUS
<1>1. Shaped' /\ Books' /\ Grows
  BY ShapedStep DEF IInv
<1>2. pay'.status = "PAID" => Captured'
  BY <1>1, CapturedStep DEF IInv
<1>3. OneWinner' /\ PendingShape'
  BY OneWinnerStep, PendingStep DEF IInv
<1>4. ASSUME Undisturbed'
      PROVE  NumberShape' /\ WinnerShape' /\ BookShape' /\ BookedOnce'
  <2>1. Undisturbed
    BY <1>1, <1>4, UndisturbedBefore
  <2>2. QED BY <1>1, <2>1, NumberStep, WinnerStep, BookStep DEF BookedOnce
<1>5. QED BY <1>1, <1>2, <1>3, <1>4 DEF IInv

\* The inductive invariant holds: whatever is announced has happened, a call's
\* record fits its step, the numbers of an undisturbed payment have no gap.
THEOREM Invariance == Spec => []IInv
  BY IInvInit, IInvNext, PTL DEF Spec

\* Every variable keeps its type, for any number of callers, checkouts and
\* recovery attempts.
THEOREM TypeCorrectness == Spec => []TypeOK
<1>1. IInv => TypeOK
  BY DEF IInv, Shaped
<1>2. QED BY <1>1, Invariance, PTL

\* settlePaidIntent, recordAttempt and the refund write PAID only over money
\* Stripe has captured.
THEOREM CapturedWhenPaid == Spec => []PaidMeansCaptured
<1>1. IInv => PaidMeansCaptured
  BY DEF IInv, PaidMeansCaptured, Captured
<1>2. QED BY <1>1, Invariance, PTL

\* Only an intent that reconciles is booked, and only a booking creates the
\* seller's settlement, in any environment.
THEOREM ReconciledWhenBooked == Spec => []BookedMeansReconciled
<1>1. IInv => BookedMeansReconciled
  BY DEF IInv, Shaped, Books, IntentShape, BookedMeansReconciled
<1>2. QED BY <1>1, Invariance, PTL

\* The claim of settlePaidIntent books an intent once, however many events,
\* confirmations and redeliveries race for it.
THEOREM SingleBooking == Spec => []BookedOnce
<1>1. IInv => BookedOnce
  BY DEF IInv, BookedOnce
<1>2. QED BY <1>1, Invariance, PTL

\* No late checkout, recovery, expiry or repetition takes a paid payment back:
\* a second charge of the winner finds its attempt's number taken.
THEOREM PaidForGood == Spec => PaidStaysPaid
<1>1. ASSUME IInv, [Next]_vars, Undisturbed', pay.status = "PAID"
      PROVE  pay'.status = "PAID"
  <2>1. Undisturbed
    BY <1>1, ShapedStep, UndisturbedBefore DEF IInv
  <2>2. \A c \in Callers : ~ CallAdds(c) /\ ~ CallBooks(c)
    BY <1>1 DEF CallAdds, CallBooks
  <2>3. QED BY <1>1, <2>1, <2>2, CalmRow, AddsOrNot DEF Same
<1>2. IInv /\ [Next]_vars => [Undisturbed' /\ pay.status = "PAID" => pay'.status = "PAID"]_vars
  BY <1>1
<1>3. QED BY <1>2, Invariance, PTL DEF Spec, PaidStaysPaid
===============================================================================
