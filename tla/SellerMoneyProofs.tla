-------------------------- MODULE SellerMoneyProofs --------------------------
(***************************************************************************)
(* For any number of callers, settlements and refunds and any amounts:     *)
(* rows and Stripe keep their types, and a payout through Stripe has       *)
(* reached the bank.  While one execution follows another, ledger, rows,   *)
(* recoveries and Stripe agree.                                            *)
(***************************************************************************)
EXTENDS SellerMoney, WellFoundedInduction, FiniteSetTheorems, SequenceTheorems, TLAPS

USE DEF ledger, refundRows

-------------------------------------------------------------------------------
(***************************************************************************)
(* Induction without a predicate: a set that holds what follows from its   *)
(* smaller members holds everything.                                       *)
(***************************************************************************)
LEMMA NatSetInduction ==
  ASSUME NEW S, 0 \in S, \A n \in Nat : n \in S => n + 1 \in S
  PROVE  Nat \subseteq S
<1>1. SUFFICES ASSUME Nat \ S # {} PROVE FALSE
  OBVIOUS
<1>2. PICK n \in Nat \ S : \A m \in Nat \ S : ~ (<<m, n>> \in OpToRel(<, Nat))
  <2>1. IsWellFoundedOn(OpToRel(<, Nat), Nat)
    BY NatLessThanWellFounded
  <2>2. QED BY <1>1, <2>1, WFMin
<1>3. \A m \in Nat \ S : ~ (m < n)
  BY <1>2 DEF OpToRel
<1>4. QED BY <1>3

LEMMA FiniteSetInduction ==
  ASSUME NEW S, IsFiniteSet(S), NEW F,
         \A T \in SUBSET S : (\A U \in SUBSET T : U # T => U \in F) => T \in F
  PROVE  SUBSET S \subseteq F
<1>1. SUFFICES ASSUME ~ (SUBSET S \subseteq F) PROVE FALSE
  OBVIOUS
<1> DEFINE Bad == (SUBSET S) \ F
<1>2. IsWellFoundedOn(StrictSubsetOrdering(S), SUBSET S)
  BY FS_StrictSubsetOrderingWellFounded, FS_FiniteSubsetsOfFinite
<1>3. PICK T \in Bad : \A U \in Bad : ~ (<<U, T>> \in StrictSubsetOrdering(S))
  <2>1. Bad \subseteq SUBSET S /\ Bad # {}
    BY <1>1
  <2> HIDE DEF Bad
  <2>2. QED BY <1>2, <2>1, WFMin
<1>4. \A U \in SUBSET T : U # T => U \in F
  BY <1>3 DEF StrictSubsetOrdering
<1>5. QED BY <1>3, <1>4

-------------------------------------------------------------------------------
(***************************************************************************)
(* Sums.  SumFunctionOnSet takes the elements in an order of its own; the  *)
(* recursive function behind it exists, and the order does not matter.     *)
(***************************************************************************)
Steps(f, g, S) ==
  [s \in SUBSET S |-> IF s = {} THEN 0
                      ELSE f[CHOOSE x \in s : TRUE] + g[s \ {CHOOSE x \in s : TRUE}]]
Totals(f, S) == CHOOSE g : g = Steps(f, g, S)

LEMMA SumIsTotal ==
  ASSUME NEW f, NEW S
  PROVE  SumFunctionOnSet(f, S) = Totals(f, S)[S]
BY DEF SumFunctionOnSet, FoldFunctionOnSet, MapThenFoldSet, Totals, Steps

Any(s) == CHOOSE x \in s : TRUE
Fixed(f, g, S) == g = Steps(f, g, S)

LEMMA FixedAt ==
  ASSUME NEW f, NEW S, NEW g, Fixed(f, g, S), NEW s \in SUBSET S
  PROVE  g[s] = IF s = {} THEN 0 ELSE f[Any(s)] + g[s \ {Any(s)}]
BY DEF Fixed, Steps, Any

LEMMA FixedUnique ==
  ASSUME NEW f, NEW S, NEW T, IsFiniteSet(T), T \subseteq S,
         NEW g, NEW h, Fixed(f, g, S), Fixed(f, h, T)
  PROVE  g[T] = h[T]
<1> DEFINE F == {s \in SUBSET T : g[s] = h[s]}
<1>1. ASSUME NEW s \in SUBSET T, \A u \in SUBSET s : u # s => u \in F
      PROVE  s \in F
  <2>1. CASE s = {}
    BY <2>1, FixedAt
  <2>2. CASE s # {}
    <3>1. Any(s) \in s
      BY <2>2 DEF Any
    <3>2. g[s \ {Any(s)}] = h[s \ {Any(s)}]
      BY <1>1, <3>1
    <3>3. QED BY <2>2, <3>2, FixedAt
  <2>3. QED BY <2>1, <2>2
<1>2. SUBSET T \subseteq F
  <2> HIDE DEF F
  <2>1. QED BY <1>1, FiniteSetInduction
<1>3. QED BY <1>2

LEMMA FixedExists ==
  ASSUME NEW f, NEW S, IsFiniteSet(S)
  PROVE  \A T \in SUBSET S : Fixed(f, Totals(f, T), T)
<1> DEFINE F == {T \in SUBSET S : Fixed(f, Totals(f, T), T)}
<1>1. ASSUME NEW T \in SUBSET S, \A U \in SUBSET T : U # T => U \in F
      PROVE  T \in F
  <2> DEFINE g == [s \in SUBSET T |->
                     IF s = {} THEN 0
                     ELSE f[Any(s)] + Totals(f, s \ {Any(s)})[s \ {Any(s)}]]
  <2>1. ASSUME NEW s \in SUBSET T, s # {}
        PROVE  g[s \ {Any(s)}] = Totals(f, s \ {Any(s)})[s \ {Any(s)}]
    <3> DEFINE v == s \ {Any(s)}
               w == v \ {Any(v)}
    <3>1. Any(s) \in s
      BY <2>1 DEF Any
    <3>2. v \in SUBSET T /\ v # T /\ w \in SUBSET v /\ w # T
      BY <3>1
    <3>3. Fixed(f, Totals(f, v), v) /\ Fixed(f, Totals(f, w), w)
      BY <1>1, <3>2
    <3>4. IsFiniteSet(w)
      BY <3>2, FS_Subset
    <3>5. Totals(f, v)[w] = Totals(f, w)[w]
      <4> HIDE DEF v, w
      <4>1. QED BY <3>2, <3>3, <3>4, FixedUnique
    <3>6. Totals(f, v)[v] = IF v = {} THEN 0 ELSE f[Any(v)] + Totals(f, v)[w]
      <4>1. w = v \ {Any(v)}
        OBVIOUS
      <4> HIDE DEF v, w
      <4>2. QED BY <3>3, <4>1, FixedAt
    <3>7. g[v] = IF v = {} THEN 0 ELSE f[Any(v)] + Totals(f, w)[w]
      BY <3>2
    <3>8. QED BY <3>5, <3>6, <3>7
  <2>2. Fixed(f, g, T)
    <3>1. g = [s \in SUBSET T |-> IF s = {} THEN 0 ELSE f[Any(s)] + g[s \ {Any(s)}]]
      BY <2>1
    <3> HIDE DEF g
    <3>2. QED BY <3>1 DEF Fixed, Steps, Any
  <2>3. \E h : h = Steps(f, h, T)
    <3> HIDE DEF g
    <3>1. QED BY <2>2 DEF Fixed
  <2>4. Fixed(f, Totals(f, T), T)
    BY <2>3 DEF Fixed, Totals
  <2>5. QED BY <2>4
<1>2. SUBSET S \subseteq F
  <2> HIDE DEF F
  <2>1. QED BY <1>1, FiniteSetInduction
<1>3. QED BY <1>2

\* A sum takes one element, and then the rest.
LEMMA SumUnfolds ==
  ASSUME NEW f, NEW S, IsFiniteSet(S)
  PROVE  SumFunctionOnSet(f, S) =
           IF S = {} THEN 0 ELSE f[Any(S)] + SumFunctionOnSet(f, S \ {Any(S)})
<1>1. Fixed(f, Totals(f, S), S)
  BY FixedExists
<1>2. Totals(f, S)[S] = IF S = {} THEN 0 ELSE f[Any(S)] + Totals(f, S)[S \ {Any(S)}]
  BY <1>1, FixedAt
<1>3. Totals(f, S)[S \ {Any(S)}] = Totals(f, S \ {Any(S)})[S \ {Any(S)}]
  BY <1>1, FixedExists, FixedUnique, FS_Subset
<1>4. QED BY <1>2, <1>3, SumIsTotal

LEMMA SumTakes ==
  ASSUME NEW f, NEW S, IsFiniteSet(S), \A x \in S : f[x] \in Int
  PROVE  \A T \in SUBSET S :
           /\ SumFunctionOnSet(f, T) \in Int
           /\ \A x \in T : SumFunctionOnSet(f, T) = f[x] + SumFunctionOnSet(f, T \ {x})
<1> DEFINE Sum(T) == SumFunctionOnSet(f, T)
           F == {T \in SUBSET S : Sum(T) \in Int /\ \A x \in T : Sum(T) = f[x] + Sum(T \ {x})}
<1>1. ASSUME NEW T \in SUBSET S, \A U \in SUBSET T : U # T => U \in F
      PROVE  T \in F
  <2>1. IsFiniteSet(T)
    BY FS_Subset
  <2>2. CASE T = {}
    <3>1. SumFunctionOnSet(f, T) = 0
      BY <2>1, <2>2, SumUnfolds
    <3>2. QED BY <2>2, <3>1
  <2>3. CASE T # {}
    <3> DEFINE y == Any(T)
    <3>1. y \in T
      BY <2>3 DEF Any
    <3>2. Sum(T) = f[y] + Sum(T \ {y})
      BY <2>1, <2>3, SumUnfolds
    <3>3. \A x \in T : Sum(T \ {x}) \in Int
      BY <1>1
    <3> HIDE DEF y
    <3>4. Sum(T) \in Int
      BY <3>1, <3>2, <3>3
    <3>5. ASSUME NEW x \in T, x # y
          PROVE  Sum(T) = f[x] + Sum(T \ {x})
      <4>1. T \ {x} \in F /\ T \ {y} \in F
        BY <1>1, <3>1
      <4>2. Sum(T \ {y}) = f[x] + Sum((T \ {y}) \ {x})
        BY <3>5, <4>1
      <4>3. Sum(T \ {x}) = f[y] + Sum((T \ {x}) \ {y})
        BY <3>1, <3>5, <4>1
      <4>4. (T \ {y}) \ {x} = (T \ {x}) \ {y}
        OBVIOUS
      <4>5. (T \ {y}) \ {x} \in F
        BY <1>1, <3>1, <3>5
      <4>6. PICK rest \in Int : rest = Sum((T \ {y}) \ {x})
        BY <4>5
      <4>7. f[x] \in Int /\ f[y] \in Int
        BY <3>1
      <4>8. Sum(T \ {y}) = f[x] + rest /\ Sum(T \ {x}) = f[y] + rest
        BY <4>2, <4>3, <4>4, <4>6
      <4>9. f[y] + (f[x] + rest) = f[x] + (f[y] + rest)
        BY <4>7
      <4> HIDE DEF Sum
      <4>10. QED BY <3>2, <4>8, <4>9
    <3>6. QED BY <3>2, <3>4, <3>5
  <2>4. QED BY <2>2, <2>3
<1>2. SUBSET S \subseteq F
  <2> HIDE DEF F
  <2>1. QED BY <1>1, FiniteSetInduction
<1>3. QED BY <1>2

LEMMA SumOfNothing ==
  ASSUME NEW f
  PROVE  SumFunctionOnSet(f, {}) = 0
BY SumUnfolds, FS_EmptySet

LEMMA SumIsInt ==
  ASSUME NEW f, NEW S, IsFiniteSet(S), \A x \in S : f[x] \in Int
  PROVE  SumFunctionOnSet(f, S) \in Int
BY SumTakes

LEMMA SumOfSame ==
  ASSUME NEW f, NEW g, NEW S, IsFiniteSet(S),
         \A x \in S : f[x] \in Int /\ g[x] = f[x]
  PROVE  SumFunctionOnSet(f, S) = SumFunctionOnSet(g, S)
<1> DEFINE F == {T \in SUBSET S : SumFunctionOnSet(f, T) = SumFunctionOnSet(g, T)}
<1>1. ASSUME NEW T \in SUBSET S, \A U \in SUBSET T : U # T => U \in F
      PROVE  T \in F
  <2>1. CASE T = {}
    BY <2>1, SumOfNothing
  <2>2. CASE T # {}
    <3>1. PICK x \in T : TRUE
      BY <2>2
    <3>2. SumFunctionOnSet(f, T \ {x}) = SumFunctionOnSet(g, T \ {x})
      BY <1>1, <3>1
    <3>3. /\ SumFunctionOnSet(f, T) = f[x] + SumFunctionOnSet(f, T \ {x})
          /\ SumFunctionOnSet(g, T) = g[x] + SumFunctionOnSet(g, T \ {x})
      BY <3>1, SumTakes
    <3>4. g[x] = f[x]
      BY <3>1
    <3>5. SumFunctionOnSet(f, T) = SumFunctionOnSet(g, T)
      BY <3>2, <3>3, <3>4
    <3>6. QED BY <3>5
  <2>3. QED BY <2>1, <2>2
<1>2. SUBSET S \subseteq F
  <2> HIDE DEF F
  <2>1. QED BY <1>1, FiniteSetInduction
<1>3. QED BY <1>2

LEMMA SumIsNat ==
  ASSUME NEW f, NEW S, IsFiniteSet(S), \A x \in S : f[x] \in Nat
  PROVE  SumFunctionOnSet(f, S) \in Nat
<1> DEFINE F == {T \in SUBSET S : SumFunctionOnSet(f, T) \in Nat}
<1>1. ASSUME NEW T \in SUBSET S, \A U \in SUBSET T : U # T => U \in F
      PROVE  T \in F
  <2>1. CASE T = {}
    BY <2>1, SumOfNothing
  <2>2. CASE T # {}
    <3>1. PICK x \in T : TRUE
      BY <2>2
    <3>2. SumFunctionOnSet(f, T \ {x}) \in Nat
      BY <1>1, <3>1
    <3>3. SumFunctionOnSet(f, T) = f[x] + SumFunctionOnSet(f, T \ {x})
      BY <3>1, SumTakes
    <3>4. f[x] \in Nat
      BY <3>1
    <3>5. SumFunctionOnSet(f, T) \in Nat
      BY <3>2, <3>3, <3>4
    <3>6. QED BY <3>5
  <2>3. QED BY <2>1, <2>2
<1>2. SUBSET S \subseteq F
  <2> HIDE DEF F
  <2>1. QED BY <1>1, FiniteSetInduction
<1>3. QED BY <1>2

\* The sum of a function and of a change to it.
LEMMA SumOfSum ==
  ASSUME NEW f, NEW g, NEW h, NEW S, IsFiniteSet(S),
         \A x \in S : f[x] \in Int /\ g[x] \in Int /\ h[x] = f[x] + g[x]
  PROVE  SumFunctionOnSet(h, S) = SumFunctionOnSet(f, S) + SumFunctionOnSet(g, S)
<1> DEFINE F == {T \in SUBSET S : SumFunctionOnSet(h, T)
                                    = SumFunctionOnSet(f, T) + SumFunctionOnSet(g, T)}
<1>1. ASSUME NEW T \in SUBSET S, \A U \in SUBSET T : U # T => U \in F
      PROVE  T \in F
  <2>1. CASE T = {}
    BY <2>1, SumOfNothing
  <2>2. CASE T # {}
    <3>1. PICK x \in T : TRUE
      BY <2>2
    <3>2. PICK a \in Int, b \in Int :
            a = SumFunctionOnSet(f, T \ {x}) /\ b = SumFunctionOnSet(g, T \ {x})
      BY SumTakes
    <3>3. SumFunctionOnSet(h, T \ {x}) = a + b
      BY <1>1, <3>1, <3>2
    <3>4. \A y \in S : h[y] \in Int
      OBVIOUS
    <3>5. /\ SumFunctionOnSet(f, T) = f[x] + a
          /\ SumFunctionOnSet(g, T) = g[x] + b
          /\ SumFunctionOnSet(h, T) = h[x] + (a + b)
      BY <3>1, <3>2, <3>3, <3>4, SumTakes
    <3>6. f[x] \in Int /\ g[x] \in Int /\ h[x] = f[x] + g[x]
      BY <3>1
    <3>7. SumFunctionOnSet(h, T) = SumFunctionOnSet(f, T) + SumFunctionOnSet(g, T)
      BY <3>5, <3>6
    <3>8. QED BY <3>7
  <2>3. QED BY <2>1, <2>2
<1>2. SUBSET S \subseteq F
  <2> HIDE DEF F
  <2>1. QED BY <1>1, FiniteSetInduction
<1>3. QED BY <1>2

\* One more element adds its value.
LEMMA SumWith ==
  ASSUME NEW f, NEW S, NEW x, x \notin S, IsFiniteSet(S),
         f[x] \in Int, \A y \in S : f[y] \in Int
  PROVE  SumFunctionOnSet(f, S \cup {x}) = SumFunctionOnSet(f, S) + f[x]
<1>1. IsFiniteSet(S \cup {x}) /\ (S \cup {x}) \ {x} = S
  BY FS_AddElement
<1>2. SumFunctionOnSet(f, S \cup {x}) = f[x] + SumFunctionOnSet(f, S)
  BY <1>1, SumTakes
<1>3. SumFunctionOnSet(f, S) \in Int
  BY SumIsInt
<1>4. QED BY <1>2, <1>3
-------------------------------------------------------------------------------
(***************************************************************************)
(* Amounts.                                                                *)
(***************************************************************************)
\* The platform's share of a price is no more than the price.
LEMMA FeeOfPrice == SellerFee(Price) \in Int /\ Price - SellerFee(Price) \in Nat
<1>1. PICK m \in Int : m = Price * FeePercent
  BY PriceAssumption, FeeAssumption
<1>2. 0 <= m /\ m <= 100 * Price
  <2>1. \A p \in Nat, f \in 0..100 : 0 <= p * f /\ p * f <= 100 * p
    OBVIOUS
  <2>2. QED BY <1>1, <2>1, PriceAssumption, FeeAssumption
<1>3. 2 * Price * FeePercent = 2 * m
  <2>1. \A p, f \in Int : 2 * p * f = 2 * (p * f)
    OBVIOUS
  <2>2. QED BY <1>1, <2>1, PriceAssumption, FeeAssumption
<1>4. SellerFee(Price) = (2 * m + 100) \div 200
  BY <1>3 DEF SellerFee, Percent
<1>5. (2 * m + 100) \div 200 \in Int /\ (2 * m + 100) \div 200 <= Price
  BY <1>1, <1>2, PriceAssumption
<1>6. QED BY <1>4, <1>5, PriceAssumption

LEMMA NetIsNat ==
  ASSUME NEW r \in Int
  PROVE  NetAfterRefund(r) \in Nat
<1>1. \A n, p \in Int : Percent(n, p) \in Int
  BY DEF Percent
<1>2. \A n, part \in Int : Share(n, part, Total) \in Int
  <2>1. ASSUME NEW n \in Int, NEW part \in Int
        PROVE  Share(n, part, Total) \in Int
    <3>1. PICK m \in Int : m = 2 * n * part + Total
      BY PriceAssumption
    <3>2. CASE Total = 0
      BY <3>2 DEF Share
    <3>3. CASE Total > 0
      <4>1. m \div (2 * Total) \in Int
        <5>1. PICK d \in Int : d = 2 * Total /\ d > 0
          BY <3>3, PriceAssumption
        <5>2. m \div d \in Int
          BY <5>1
        <5>3. QED BY <5>1, <5>2
      <4>2. QED BY <3>1, <3>3, <4>1 DEF Share
    <3>4. QED BY <3>2, <3>3, PriceAssumption
  <2>2. QED BY <2>1
<1>3. Smaller(r, Total) \in Int
  BY PriceAssumption DEF Smaller
<1>4. PICK sale \in Int : sale = AtLeast0(Price - Share(Price, Smaller(r, Total), Total))
  <2>1. PICK k \in Int : k = Share(Price, Smaller(r, Total), Total)
    BY <1>2, <1>3, PriceAssumption
  <2>2. AtLeast0(Price - k) \in Int
    BY PriceAssumption DEF AtLeast0
  <2>3. QED BY <2>1, <2>2
<1>5. SellerFee(sale) \in Int
  BY <1>1, FeeAssumption DEF SellerFee
<1>6. NetAfterRefund(r) = AtLeast0(sale - SellerFee(sale))
  BY <1>4 DEF NetAfterRefund
<1>7. QED BY <1>5, <1>6 DEF AtLeast0
-------------------------------------------------------------------------------
(***************************************************************************)
(* The invariant for any number of callers.                                *)
(***************************************************************************)
Statuses == {"none", "REFUNDED", "CANCELLED"} \cup Paid \cup Outstanding
Methods == {"none", "STRIPE_CONNECT", "MANUAL", "RECOVERY_OFFSET", "TRADEAUCT_OWNED"}
PayoutStatuses == {"none", "PENDING", "TRANSFERRED", "FAILED", "PAID_OUT", "REVERSED",
                   "PARTIALLY_REVERSED"}
Places == {"none", "balance", "bank", "bounced"}

Asking == {"ask", "link"}
Taking == {"reverse", "reversed"}
Transferring == {"row", "send", "sent", "failed", "giveUp"}
Attributing == {"payout", "paid"}
Others == {"idle", "refund", "event", "apply", "writeOff", "reduce", "lose", "recover", "open",
           "claim", "withhold", "manualRow", "manual"}

SettlementRows == [status : Statuses, net : Int, method : Methods]
PayoutRows == [provider : {"none", "STRIPE_CONNECT", "MANUAL"}, status : PayoutStatuses,
               amount : Int, sent : BOOLEAN, reversed : Int, bank : BOOLEAN]
RecoveryRows == [s : Settlements, amount : Int, recovered : Int]
RefundRows == [status : {"none", "PROCESSING", "SUCCEEDED", "FAILED"}, amount : Int,
               linked : BOOLEAN]
Reversals == [s : Settlements, already : Int, amount : Int]
StripeStates == [sent : [Settlements -> Int], reversals : SUBSET Reversals,
                 where : [Settlements -> Places], refunds : [Refunds -> Int],
                 lost : SUBSET Settlements, guessed : BOOLEAN]
Events == [kind : {"refund", "transfer", "payout"}, s : Settlements, ids : SUBSET Refunds,
           full : BOOLEAN, amount : Int]
Calls == [pc : Others \cup Asking \cup Taking \cup Transferring \cup Attributing,
          s : Settlements \cup {"none"}, amount : Int, full : BOOLEAN, net : Int,
          offset : Int, id : Refunds \cup {NoRefund}, todo : SUBSET (Refunds \cup Settlements),
          event : Events \cup {NoEvent}]

RowsOK ==
  /\ settlement \in [Settlements -> SettlementRows]
  /\ payout \in [Settlements -> PayoutRows]
  /\ recoveries \in Seq(RecoveryRows)
  /\ payable \in [Settlements -> Int]
  /\ recoverable \in Int

StripeOK ==
  /\ stripe \in StripeStates
  /\ IsFiniteSet(stripe.reversals)
  /\ events \subseteq Events
  /\ refund \in [Refunds -> RefundRows]
  /\ mirrored \subseteq Refunds

\* Who is busy is busy with a settlement.
CallsOK ==
  /\ call \in [Callers -> Calls]
  /\ \A c \in Callers : call[c].pc # "idle" => call[c].s \in Settlements

\* A refund that is being asked for is one caller's, and its row has not taken
\* Stripe's id; a row that has agrees with Stripe.
AskShape(c) ==
  /\ call[c].pc \in {"refund"} \cup Asking => call[c].amount > 0
  /\ call[c].pc \in Asking => /\ call[c].id \in Refunds
                              /\ refund[call[c].id].status # "none"
                              /\ refund[call[c].id].amount = call[c].amount
                              /\ ~ refund[call[c].id].linked
  /\ call[c].pc = "link" => stripe.refunds[call[c].id] = call[c].amount

AskInv ==
  /\ \A c \in Callers : AskShape(c)
  /\ \A c, d \in Callers :
       call[c].pc \in Asking /\ call[d].pc \in Asking /\ call[c].id = call[d].id => c = d
  /\ \A i \in Refunds :
       refund[i].linked => refund[i].status # "none" /\ refund[i].amount = stripe.refunds[i]

\* What is refunded, cancelled or disputed was sold.
KnownInv ==
  /\ \A c \in Callers :
       call[c].pc \notin {"idle"} \cup Attributing => Status(call[c].s) # "none"
  /\ \A e \in events : e.kind = "refund" => Status(e.s) # "none"

\* A transfer in flight is one caller's; the row says what Stripe was asked for,
\* and nothing has been sent for a settlement that is not in flight or paid.
PayoutShape(s) ==
  /\ 0 <= payout[s].reversed /\ payout[s].reversed <= payout[s].amount
  /\ payout[s].sent => /\ payout[s].amount = stripe.sent[s]
                       /\ payout[s].provider = "STRIPE_CONNECT"
                       /\ Status(s) \in Paid
  /\ ~ payout[s].sent => payout[s].reversed = 0
  /\ 0 <= stripe.sent[s]
  /\ stripe.sent[s] > 0 => Status(s) \in Paid \cup {"TRANSFER_PENDING"}

PayShape(c) ==
  LET x == call[c]  s == call[c].s IN
  /\ x.pc \in {"claim"} \cup Transferring => x.amount > 0
  /\ x.pc \in Transferring => Status(s) = "TRANSFER_PENDING" /\ ~ payout[s].sent
  /\ x.pc \in Transferring \ {"sent"} => stripe.sent[s] = 0
  /\ x.pc \in {"send", "sent"} =>
       payout[s].amount = x.amount /\ payout[s].provider = "STRIPE_CONNECT"
  /\ x.pc = "sent" => stripe.sent[s] = x.amount
  /\ x.pc \in {"manualRow", "manual"} => x.net >= 0

PayInv ==
  /\ \A s \in Settlements : PayoutShape(s)
  /\ \A c \in Callers : PayShape(c)
  /\ \A c, d \in Callers :
       call[c].pc \in Transferring /\ call[d].pc \in Transferring /\ call[c].s = call[d].s => c = d

\* Money is taken back from a seller who was paid, and no more than went out.
TakeShape(c) ==
  LET x == call[c]  s == call[c].s IN
  /\ x.pc \in {"recover", "open"} \cup Taking => Status(s) \in Paid
  /\ x.pc \in {"open"} \cup Taking => x.amount > 0
  /\ x.pc \in Taking => payout[s].sent /\ x.net >= 0 /\ x.net + x.amount <= payout[s].amount

TakeInv ==
  /\ \A c \in Callers : TakeShape(c)
  /\ \A e \in events : e.kind = "transfer" => 0 <= e.amount /\ e.amount <= stripe.sent[e.s]
  /\ \A r \in stripe.reversals : r.amount > 0

\* What is attributed to a payout of the bank has reached it, or was guessed.
Reached(s) == stripe.where[s] \in {"bank", "bounced"}
BankShape(c) ==
  /\ call[c].pc \in Attributing => /\ call[c].todo \subseteq Settlements
                                   /\ stripe.guessed \/ \A s \in call[c].todo : Reached(s)
  /\ call[c].pc = "paid" => call[c].s \in call[c].todo

BankInv ==
  /\ \A c \in Callers : BankShape(c)
  /\ \A e \in events : e.kind = "payout" /\ e.full => Reached(e.s)
  /\ \A s \in Settlements : Reached(s) => stripe.sent[s] > 0
  /\ PaidOutReachedBank

NetInv == \A s \in Settlements : settlement[s].net >= 0
RecoveryShape(r) == 0 <= r.recovered /\ r.recovered <= r.amount
RecoveryInv == \A k \in DOMAIN recoveries : RecoveryShape(recoveries[k])

Typed == RowsOK /\ StripeOK /\ CallsOK

MInv ==
  /\ Typed
  /\ AskInv /\ KnownInv /\ PayInv /\ TakeInv /\ BankInv
  /\ NetInv /\ RecoveryInv
-------------------------------------------------------------------------------
(***************************************************************************)
(* The call record.                                                        *)
(***************************************************************************)
PCs == Others \cup Asking \cup Taking \cup Transferring \cup Attributing

\* Only caller c's record changes.
Only(c) == \A d \in Callers \ {c} : call'[d] = call[d]

LEMMA IdleTyped == Idle \in Calls /\ Idle.pc = "idle" /\ Idle.event = NoEvent
BY DEF Idle, Calls, Others

LEMMA Stored ==
  ASSUME CallsOK, NEW c \in Callers, NEW r \in Calls, r.pc # "idle" => r.s \in Settlements,
         call' = [call EXCEPT ![c] = r]
  PROVE  CallsOK' /\ Only(c) /\ call'[c] = r
BY DEF CallsOK, Only

LEMMA Finished ==
  ASSUME CallsOK, NEW c \in Callers, Finish(c)
  PROVE  CallsOK' /\ Only(c) /\ call'[c] = Idle
BY IdleTyped, Stored DEF Finish

LEMMA Started ==
  ASSUME CallsOK, NEW c \in Callers, NEW r \in Calls, r.s \in Settlements, Start(c, r)
  PROVE  CallsOK' /\ Only(c) /\ call'[c] = r /\ call[c].pc = "idle"
BY Stored DEF Start

LEMMA Moved ==
  ASSUME CallsOK, NEW c \in Callers, NEW pc \in PCs, call[c].pc # "idle", MoveTo(c, pc)
  PROVE  CallsOK' /\ Only(c) /\ call'[c] = [call[c] EXCEPT !.pc = pc]
<1> DEFINE r == [call[c] EXCEPT !.pc = pc]
<1>1. r \in Calls /\ r.s \in Settlements
  BY DEF CallsOK, Calls, PCs
<1>2. call' = [call EXCEPT ![c] = r]
  BY DEF MoveTo
<1> HIDE DEF r
<1>3. CallsOK' /\ Only(c) /\ call'[c] = r
  BY <1>1, <1>2, Stored
<1>4. QED BY <1>3 DEF r

\* After a settlement is told of a refund, its event goes on or the call ends.
LEMMA ToldMoves ==
  ASSUME CallsOK, NEW c \in Callers, call[c].pc # "idle", Told(c)
  PROVE  /\ CallsOK' /\ Only(c)
         /\ call'[c] = Idle \/ call'[c] = [call[c] EXCEPT !.pc = "event"]
<1>1. "event" \in PCs
  BY DEF PCs, Others
<1>2. QED BY <1>1, Finished, Moved DEF Told
-------------------------------------------------------------------------------
(***************************************************************************)
(* The sums of the model are integers.                                     *)
(***************************************************************************)
LEMMA RefundsFinite ==
  ASSUME NEW s
  PROVE  IsFiniteSet(RefundsOf(s)) /\ RefundsOf(s) \subseteq Refunds
<1>1. IsFiniteSet(Settlements) /\ IsFiniteSet(1..MaxRefunds)
  BY SettlementsAssumption, LimitsAssumption, FS_Interval
<1>2. IsFiniteSet(Refunds)
  BY <1>1, FS_Product DEF Refunds
<1>3. QED BY <1>2, FS_Subset DEF RefundsOf

LEMMA RefundedInt ==
  ASSUME StripeOK, NEW s
  PROVE  RefundedAt(s) \in Int
<1>1. \A i \in RefundsOf(s) : stripe.refunds[i] \in Int
  BY RefundsFinite DEF StripeOK, StripeStates
<1>2. QED BY <1>1, RefundsFinite, SumIsInt DEF RefundedAt

LEMMA AlreadyInt ==
  ASSUME StripeOK, NEW s
  PROVE  AlreadyRefunded(s) \in Int
<1> DEFINE kept == {i \in RefundsOf(s) : refund[i].status \in {"PROCESSING", "SUCCEEDED"}}
           amounts == [i \in kept |-> refund[i].amount]
<1>1. IsFiniteSet(kept) /\ kept \subseteq Refunds
  BY RefundsFinite, FS_Subset
<1>2. SumFunction(amounts) \in Int
  <2>1. \A i \in kept : amounts[i] \in Int
    BY <1>1 DEF StripeOK, RefundRows
  <2>2. DOMAIN amounts = kept
    OBVIOUS
  <2> HIDE DEF amounts, kept
  <2>3. QED BY <1>1, <2>1, <2>2, SumIsInt DEF SumFunction, SumFunctionOnSet, FoldFunction
<1>3. SumFunctionOnSet(stripe.refunds, RefundsOf(s) \cap mirrored) \in Int
  <2>1. IsFiniteSet(RefundsOf(s) \cap mirrored)
    BY RefundsFinite, FS_Subset
  <2>2. \A i \in RefundsOf(s) \cap mirrored : stripe.refunds[i] \in Int
    BY RefundsFinite DEF StripeOK, StripeStates
  <2>3. QED BY <2>1, <2>2, SumIsInt
<1>4. QED BY <1>2, <1>3 DEF AlreadyRefunded

LEMMA ReversedNat ==
  ASSUME StripeOK, \A r \in stripe.reversals : r.amount > 0, NEW s
  PROVE  ReversedAt(s) \in Nat
<1> DEFINE R == {q \in stripe.reversals : q.s = s}
           amounts == [r \in R |-> r.amount]
<1>1. IsFiniteSet(R)
  BY FS_Subset DEF StripeOK
<1>2. \A r \in R : amounts[r] \in Nat
  BY DEF StripeOK, StripeStates, Reversals
<1>3. DOMAIN amounts = R
  OBVIOUS
<1>4. SumFunction(amounts) \in Nat
  <2> HIDE DEF amounts, R
  <2>1. QED BY <1>1, <1>2, <1>3, SumIsNat DEF SumFunction, SumFunctionOnSet, FoldFunction
<1>5. QED BY <1>4 DEF ReversedAt
LEMMA SumOfAll ==
  ASSUME NEW f
  PROVE  SumFunction(f) = SumFunctionOnSet(f, DOMAIN f)
BY DEF SumFunction, SumFunctionOnSet, FoldFunction

\* What the open recoveries ask for, one by one.
Owes == [k \in DOMAIN recoveries |-> Owed(recoveries[k])]

LEMMA OwesInt ==
  ASSUME RowsOK
  PROVE  /\ DOMAIN recoveries = 1..Len(recoveries) /\ Len(recoveries) \in Nat
         /\ DOMAIN Owes = 1..Len(recoveries)
         /\ \A k \in 1..Len(recoveries) :
              /\ Owes[k] \in Int
              /\ Owes[k] = recoveries[k].amount - recoveries[k].recovered
              /\ recoveries[k].amount \in Int /\ recoveries[k].recovered \in Int
<1>1. Len(recoveries) \in Nat /\ DOMAIN recoveries = 1..Len(recoveries)
  BY LenProperties DEF RowsOK
<1>2. \A k \in 1..Len(recoveries) : recoveries[k] \in RecoveryRows
  BY ElementOfSeq DEF RowsOK
<1>3. \A k \in 1..Len(recoveries) : recoveries[k].amount \in Int /\ recoveries[k].recovered \in Int
  BY <1>2 DEF RecoveryRows
<1>4. DOMAIN Owes = 1..Len(recoveries)
  BY <1>1 DEF Owes
<1>5. \A k \in 1..Len(recoveries) : Owes[k] = recoveries[k].amount - recoveries[k].recovered
  BY <1>1 DEF Owes, Owed
<1>6. QED BY <1>1, <1>3, <1>4, <1>5

LEMMA EarlierFinite ==
  ASSUME RowsOK, NEW k \in 1..Len(recoveries) + 1
  PROVE  IsFiniteSet(1..k-1) /\ 1..k-1 \subseteq 1..Len(recoveries)
<1>1. k \in Int /\ k <= Len(recoveries) + 1 /\ Len(recoveries) \in Nat
  BY OwesInt
<1>2. IsFiniteSet(1..k-1)
  BY <1>1, FS_Interval
<1>3. 1..k-1 \subseteq 1..Len(recoveries)
  BY <1>1
<1>4. QED BY <1>2, <1>3

LEMMA DebtIsSum == Debt = SumFunctionOnSet(Owes, DOMAIN recoveries)
BY SumOfAll DEF Debt, Owes

LEMMA DebtInt ==
  ASSUME RowsOK
  PROVE  Debt \in Int
<1>1. IsFiniteSet(1..Len(recoveries))
  BY OwesInt, FS_Interval
<1>2. QED BY <1>1, OwesInt, DebtIsSum, SumIsInt

\* What an amount n can credit to the k-th recovery.
Before(k) == SumFunctionOnSet(Owes, 1..k-1)
Credit(k, n) == Smaller(Owed(recoveries[k]), AtLeast0(n - Before(k)))

LEMMA BeforeInt ==
  ASSUME RowsOK, NEW k \in 1..Len(recoveries) + 1
  PROVE  Before(k) \in Int
<1>1. \A j \in 1..k-1 : Owes[j] \in Int
  BY EarlierFinite, OwesInt
<1>2. QED BY <1>1, EarlierFinite, SumIsInt DEF Before

LEMMA CreditedIs ==
  ASSUME RowsOK, NEW n \in Int
  PROVE  Credited(n) = [k \in DOMAIN recoveries |->
                          [recoveries[k] EXCEPT !.recovered = @ + Credit(k, n)]]
<1>1. ASSUME NEW k \in DOMAIN recoveries
      PROVE  SumFunction([j \in 1..k-1 |-> Owed(recoveries[j])]) = Before(k)
  <2> DEFINE f == [j \in 1..k-1 |-> Owed(recoveries[j])]
  <2>1. IsFiniteSet(1..k-1) /\ 1..k-1 \subseteq 1..Len(recoveries)
    <3>1. k \in 1..Len(recoveries) + 1
      BY OwesInt
    <3>2. QED BY <3>1, EarlierFinite
  <2>2. \A j \in 1..k-1 : f[j] \in Int /\ Owes[j] = f[j]
    BY <2>1, OwesInt DEF Owed
  <2>3. DOMAIN f = 1..k-1
    OBVIOUS
  <2> HIDE DEF f
  <2>4. SumFunctionOnSet(f, 1..k-1) = SumFunctionOnSet(Owes, 1..k-1)
    BY <2>1, <2>2, SumOfSame
  <2>5. SumFunction(f) = SumFunctionOnSet(Owes, 1..k-1)
    BY <2>3, <2>4, SumOfAll
  <2>6. QED BY <2>5 DEF Before, f
<1>2. QED BY <1>1 DEF Credited, Credit

\* A credit is no more than what is owed, and not less than nothing.
LEMMA CreditBounds ==
  ASSUME RowsOK, RecoveryInv, NEW n \in Int, NEW k \in 1..Len(recoveries)
  PROVE  Credit(k, n) \in Int /\ 0 <= Credit(k, n) /\ Credit(k, n) <= Owes[k]
<1>1. PICK b \in Int : b = Before(k)
  <2>1. k \in 1..Len(recoveries) + 1
    BY OwesInt
  <2>2. QED BY <2>1, BeforeInt
<1>2. PICK o \in Int : o = Owes[k] /\ o = Owed(recoveries[k]) /\ o >= 0
  BY OwesInt DEF Owed, RecoveryInv, RecoveryShape
<1>3. QED BY <1>1, <1>2 DEF Credit, Smaller, AtLeast0

LEMMA CreditedRows ==
  ASSUME RowsOK, RecoveryInv, NEW n \in Int
  PROVE  /\ Credited(n) \in Seq(RecoveryRows)
         /\ DOMAIN Credited(n) = DOMAIN recoveries
         /\ \A k \in DOMAIN recoveries :
              /\ Credited(n)[k].s = recoveries[k].s
              /\ Credited(n)[k].amount = recoveries[k].amount
              /\ Credited(n)[k].recovered = recoveries[k].recovered + Credit(k, n)
              /\ RecoveryShape(Credited(n)[k])
<1> DEFINE new == [k \in 1..Len(recoveries) |->
                     [recoveries[k] EXCEPT !.recovered = @ + Credit(k, n)]]
<1>1. Credited(n) = new
  BY CreditedIs, OwesInt
<1>2. ASSUME NEW k \in 1..Len(recoveries)
      PROVE  /\ new[k] \in RecoveryRows
             /\ new[k].s = recoveries[k].s
             /\ new[k].amount = recoveries[k].amount
             /\ new[k].recovered = recoveries[k].recovered + Credit(k, n)
             /\ RecoveryShape(new[k])
  <2>1. PICK a \in Int : a = Credit(k, n) /\ 0 <= a /\ a <= Owes[k]
    BY CreditBounds
  <2>2. recoveries[k] \in RecoveryRows
    BY OwesInt DEF RowsOK
  <2>3. new[k] = [recoveries[k] EXCEPT !.recovered = @ + a]
    BY <2>1
  <2>4. /\ new[k] \in RecoveryRows
        /\ new[k].s = recoveries[k].s
        /\ new[k].amount = recoveries[k].amount
        /\ new[k].recovered = recoveries[k].recovered + a
    BY <2>2, <2>3 DEF RecoveryRows
  <2>5. RecoveryShape(new[k])
    BY <2>1, <2>4, OwesInt DEF RecoveryInv, RecoveryShape
  <2>6. QED BY <2>1, <2>4, <2>5
<1>3. new \in Seq(RecoveryRows)
  <2>1. new \in [1..Len(recoveries) -> RecoveryRows]
    BY <1>2
  <2>2. Len(recoveries) \in Nat
    BY OwesInt
  <2> HIDE DEF new
  <2>3. QED BY <2>1, <2>2, SeqDef
<1> HIDE DEF new
<1>4. QED BY <1>1, <1>2, <1>3, OwesInt DEF new
-------------------------------------------------------------------------------
(***************************************************************************)
(* What the writes of a step store.                                        *)
(***************************************************************************)
LEMMA BecomesStores ==
  ASSUME RowsOK, NEW s \in Settlements, NEW st \in Statuses, NEW n \in Int, NEW m \in Methods,
         Becomes(s, st, n, m)
  PROVE  /\ settlement' \in [Settlements -> SettlementRows]
         /\ settlement'[s] = [status |-> st, net |-> n, method |-> m]
         /\ \A t \in Settlements \ {s} : settlement'[t] = settlement[t]
BY DEF RowsOK, SettlementRows, Becomes

LEMMA DebitStores ==
  ASSUME RowsOK, NEW s \in Settlements, NEW n \in Int, Debit(s, n)
  PROVE  /\ payable' \in [Settlements -> Int]
         /\ payable'[s] = payable[s] - n
         /\ \A t \in Settlements \ {s} : payable'[t] = payable[t]
BY DEF RowsOK, Debit

\* The net of s is changed, and the ledger by as much.
Adjusted(s) ==
  \E net \in Nat :
    /\ settlement' \in [Settlements -> SettlementRows]
    /\ settlement'[s] = [status |-> Status(s), net |-> net, method |-> settlement[s].method]
    /\ \A t \in Settlements \ {s} : settlement'[t] = settlement[t]
    /\ payable' \in [Settlements -> Int]
    /\ payable'[s] = payable[s] + (net - settlement[s].net)
    /\ \A t \in Settlements \ {s} : payable'[t] = payable[t]

LEMMA AdjustStores ==
  ASSUME RowsOK, NEW s \in Settlements, NEW n \in Int, AdjustBy(s, n)
  PROVE  Adjusted(s)
<1>1. settlement[s] \in SettlementRows /\ payable[s] \in Int
  BY DEF RowsOK
<1>2. PICK net \in Nat : net = AtLeast0(settlement[s].net + n)
  BY <1>1 DEF AtLeast0, SettlementRows
<1>3. /\ settlement' = [settlement EXCEPT ![s].net = net]
      /\ payable' = [payable EXCEPT ![s] = @ + (net - settlement[s].net)]
  BY <1>2 DEF AdjustBy
<1>4. net - settlement[s].net \in Int
  BY <1>1, <1>2 DEF SettlementRows
<1>5. /\ payable' \in [Settlements -> Int]
      /\ payable'[s] = payable[s] + (net - settlement[s].net)
      /\ \A t \in Settlements \ {s} : payable'[t] = payable[t]
  BY <1>1, <1>3, <1>4 DEF RowsOK
<1>6. /\ settlement' \in [Settlements -> SettlementRows]
      /\ settlement'[s] = [status |-> Status(s), net |-> net, method |-> settlement[s].method]
      /\ \A t \in Settlements \ {s} : settlement'[t] = settlement[t]
  <2>1. [settlement[s] EXCEPT !.net = net]
          = [status |-> Status(s), net |-> net, method |-> settlement[s].method]
    BY <1>1 DEF SettlementRows, Status
  <2>2. [status |-> Status(s), net |-> net, method |-> settlement[s].method] \in SettlementRows
    BY <1>1 DEF SettlementRows, Status
  <2>3. QED BY <1>3, <2>1, <2>2 DEF RowsOK
<1>7. QED BY <1>5, <1>6 DEF Adjusted

\* The settlement is closed as refunded, and n posted, or nothing happens.
WrittenOff(s, n) ==
  /\ Status(s) \in {"PENDING", "ON_HOLD", "ELIGIBLE"}
  /\ settlement'[s] = [status |-> "REFUNDED", net |-> 0, method |-> settlement[s].method]
  /\ \A t \in Settlements \ {s} : settlement'[t] = settlement[t]
  /\ payable'[s] = payable[s] - n
  /\ \A t \in Settlements \ {s} : payable'[t] = payable[t]

LEMMA WriteOffStores ==
  ASSUME RowsOK, NEW s \in Settlements, NEW n \in Int, NEW from,
         IF MayBecome(s, from, "REFUNDED")
         THEN Becomes(s, "REFUNDED", 0, settlement[s].method) /\ Debit(s, n)
         ELSE UNCHANGED <<settlement, payable>>
  PROVE  /\ settlement' \in [Settlements -> SettlementRows] /\ payable' \in [Settlements -> Int]
         /\ \/ WrittenOff(s, n)
            \/ UNCHANGED <<settlement, payable>> /\ ~ MayBecome(s, from, "REFUNDED")
<1>1. settlement[s] \in SettlementRows
  BY DEF RowsOK
<1>2. "REFUNDED" \in Statuses /\ settlement[s].method \in Methods
  BY <1>1 DEF Statuses, SettlementRows
<1>3. CASE /\ MayBecome(s, from, "REFUNDED")
           /\ Becomes(s, "REFUNDED", 0, settlement[s].method) /\ Debit(s, n)
  <2>1. Status(s) \in {"PENDING", "ON_HOLD", "ELIGIBLE"}
    BY <1>3 DEF MayBecome
  <2>2. /\ settlement' \in [Settlements -> SettlementRows]
        /\ settlement'[s] = [status |-> "REFUNDED", net |-> 0, method |-> settlement[s].method]
        /\ \A t \in Settlements \ {s} : settlement'[t] = settlement[t]
    BY <1>2, <1>3, BecomesStores
  <2>3. /\ payable' \in [Settlements -> Int]
        /\ payable'[s] = payable[s] - n
        /\ \A t \in Settlements \ {s} : payable'[t] = payable[t]
    BY <1>3, DebitStores
  <2>4. QED BY <2>1, <2>2, <2>3 DEF WrittenOff
<1>4. CASE ~ MayBecome(s, from, "REFUNDED") /\ UNCHANGED <<settlement, payable>>
  BY <1>4 DEF RowsOK
<1>5. QED BY <1>3, <1>4

\* Stripe gives money back and tells.
LEMMA GiveBackStores ==
  ASSUME StripeOK, NEW s \in Settlements, NEW i \in Refunds, NEW n \in Int,
         GiveBack(s, i, n)
  PROVE  \E e \in Events :
           /\ e.kind = "refund" /\ e.s = s
           /\ events' = events \cup {e} /\ events' \subseteq Events
           /\ stripe' \in StripeStates
           /\ stripe' = [stripe EXCEPT !.refunds[i] = n]
           /\ stripe'.refunds = [stripe.refunds EXCEPT ![i] = n]
           /\ \A f \in {"sent", "reversals", "where", "lost", "guessed"} : stripe'[f] = stripe[f]
<1> DEFINE ids == {i} \cup {j \in RefundsOf(s) : stripe.refunds[j] > 0}
           e == Event("refund", s, ids, RefundedAt(s) + n >= Total, 0)
<1>1. ids \subseteq Refunds
  BY RefundsFinite
<1>2. e \in Events /\ e.kind = "refund" /\ e.s = s
  BY <1>1 DEF Event, Events
<1>3. events' = events \cup {e} /\ stripe' = [stripe EXCEPT !.refunds[i] = n]
  BY DEF GiveBack
<1>4. stripe \in StripeStates /\ events \subseteq Events
  BY DEF StripeOK
<1>5. /\ stripe' \in StripeStates
      /\ stripe'.refunds = [stripe.refunds EXCEPT ![i] = n]
      /\ \A f \in {"sent", "reversals", "where", "lost", "guessed"} : stripe'[f] = stripe[f]
  BY <1>3, <1>4 DEF StripeStates
<1> HIDE DEF e
<1>6. QED BY <1>2, <1>3, <1>4, <1>5
-------------------------------------------------------------------------------
(***************************************************************************)
(* Every step keeps the types.                                             *)
(***************************************************************************)
\* The steps of one caller that write no row and tell Stripe nothing.
Rows == <<settlement, payout, recoveries, payable, recoverable>>
World == <<stripe, events, refund, mirrored>>

LEMMA SalesTyped ==
  ASSUME Typed, Sales
  PROVE  Typed'
<1> SUFFICES ASSUME NEW s \in Settlements, Book(s) \/ Advance(s) \/ Cancel(s)
             PROVE  Typed'
  BY DEF Sales
<1> USE DEF Typed
<1>1. settlement[s] \in SettlementRows
  BY DEF RowsOK
<1>2. UNCHANGED <<payout, recoveries, recoverable, stripe, events, refund, mirrored, call>>
  BY DEF Book, Advance, Cancel
<1>3. StripeOK' /\ CallsOK'
  BY <1>2 DEF StripeOK, CallsOK, Status
<1>4. settlement' \in [Settlements -> SettlementRows]
  <2>1. /\ "PENDING" \in Statuses /\ "ON_HOLD" \in Statuses /\ "ELIGIBLE" \in Statuses
        /\ "PAID_OUT" \in Statuses /\ "CANCELLED" \in Statuses
        /\ "none" \in Methods /\ "TRADEAUCT_OWNED" \in Methods
    BY DEF Statuses, Methods, Paid, Outstanding
  <2>2. settlement[s].net \in Int /\ settlement[s].method \in Methods
    BY <1>1 DEF SettlementRows
  <2>3. PICK st \in Statuses, n \in Int, m \in Methods : Becomes(s, st, n, m)
    <3>1. CASE Book(s)
      <4>1. Becomes(s, "PENDING", Price - SellerFee(Price), "none")
            \/ Becomes(s, "PAID_OUT", 0, "TRADEAUCT_OWNED")
        BY <3>1 DEF Book
      <4>2. Price - SellerFee(Price) \in Int
        BY FeeOfPrice
      <4>3. QED BY <2>1, <4>1, <4>2
    <3>2. CASE Advance(s)
      BY <2>1, <2>2, <3>2 DEF Advance
    <3>3. CASE Cancel(s)
      BY <2>1, <2>2, <3>3 DEF Cancel
    <3>4. QED BY <3>1, <3>2, <3>3
  <2>4. QED BY <2>3, BecomesStores
<1>5. payable' \in [Settlements -> Int]
  <2>1. payable \in [Settlements -> Int] /\ Price - SellerFee(Price) \in Int
    BY FeeOfPrice DEF RowsOK
  <2>2. payable' = [payable EXCEPT ![s] = Price - SellerFee(Price)] \/ UNCHANGED payable
    BY DEF Book, Advance, Cancel
  <2>3. QED BY <2>1, <2>2
<1>6. RowsOK'
  BY <1>2, <1>4, <1>5 DEF RowsOK
<1>7. QED BY <1>3, <1>6

LEMMA StripeTyped ==
  ASSUME Typed, Stripe
  PROVE  Typed'
<1> USE DEF Typed
<1>1. UNCHANGED <<settlement, recoveries, refundRows, ledger, call>>
  BY DEF Stripe, DashboardRefund, BankPays, BankReturns, TransferEvent, PayoutBounced
<1>2. CallsOK'
  BY <1>1 DEF CallsOK
<1>3. stripe' \in StripeStates /\ events' \subseteq Events /\ stripe'.reversals = stripe.reversals
  <2>1. ASSUME NEW i \in Refunds, NEW n \in Parts \cup {Total - RefundedAt(i[1])}, DashboardRefund(i, n)
        PROVE  stripe' \in StripeStates /\ events' \subseteq Events
                 /\ stripe'.reversals = stripe.reversals
    <3>1. i[1] \in Settlements /\ GiveBack(i[1], i, n)
      BY <2>1 DEF DashboardRefund, Refunds
    <3>2. n \in Int
      BY RefundedInt, PartsAssumption, PriceAssumption
    <3>3. QED BY <3>1, <3>2, GiveBackStores
  <2>2. ASSUME NEW s \in Settlements, BankPays(s) \/ BankReturns(s)
        PROVE  stripe' \in StripeStates /\ events' \subseteq Events
                 /\ stripe'.reversals = stripe.reversals
    <3>1. \A full \in BOOLEAN : Event("payout", s, {}, full, 0) \in Events
      BY DEF Event, Events
    <3>2. events' \subseteq Events
      BY <2>2, <3>1 DEF BankPays, BankReturns, StripeOK
    <3>3. stripe' = [stripe EXCEPT !.where[s] = "bank"] \/ stripe' = [stripe EXCEPT !.where[s] = "bounced"]
      BY <2>2 DEF BankPays, BankReturns
    <3>4. stripe' \in StripeStates /\ stripe'.reversals = stripe.reversals
      BY <3>3 DEF StripeOK, StripeStates, Places
    <3>5. QED BY <3>2, <3>4
  <2>3. ASSUME NEW e \in events, TransferEvent(e) \/ PayoutBounced(e)
        PROVE  stripe' \in StripeStates /\ events' \subseteq Events
                 /\ stripe'.reversals = stripe.reversals
    BY <2>3 DEF TransferEvent, PayoutBounced, StripeOK
  <2>4. QED BY <2>1, <2>2, <2>3 DEF Stripe
<1>4. payout' \in [Settlements -> PayoutRows]
  <2>1. ASSUME NEW e \in events, TransferEvent(e)
        PROVE  payout' \in [Settlements -> PayoutRows]
    <3>1. e.s \in Settlements /\ e.amount \in Int
      BY DEF StripeOK, Events
    <3>2. payout[e.s] \in PayoutRows
      BY <3>1 DEF RowsOK
    <3>3. [payout[e.s] EXCEPT !.reversed = e.amount, !.status = IF e.full THEN "REVERSED" ELSE @]
            \in PayoutRows
      BY <3>1, <3>2 DEF PayoutRows, PayoutStatuses
    <3>4. QED BY <2>1, <3>1, <3>3 DEF TransferEvent, RowsOK
  <2>2. ASSUME NEW e \in events, PayoutBounced(e)
        PROVE  payout' \in [Settlements -> PayoutRows]
    <3>1. e.s \in Settlements
      BY DEF StripeOK, Events
    <3>2. payout[e.s] \in PayoutRows
      BY <3>1 DEF RowsOK
    <3>3. [payout[e.s] EXCEPT !.status = "TRANSFERRED"] \in PayoutRows
      BY <3>2 DEF PayoutRows, PayoutStatuses
    <3>4. QED BY <2>2, <3>1, <3>3 DEF PayoutBounced, RowsOK
  <2>3. CASE UNCHANGED payout
    BY <2>3 DEF RowsOK
  <2>4. QED BY <2>1, <2>2, <2>3 DEF Stripe, DashboardRefund, BankPays, BankReturns
<1>5. RowsOK'
  BY <1>1, <1>4 DEF RowsOK, ledger
<1>6. StripeOK'
  BY <1>1, <1>3 DEF StripeOK, refundRows
<1>7. QED BY <1>2, <1>5, <1>6

LEMMA RowsKept ==
  ASSUME RowsOK, UNCHANGED Rows
  PROVE  RowsOK'
BY DEF RowsOK, Rows

LEMMA WorldKept ==
  ASSUME StripeOK, UNCHANGED World
  PROVE  StripeOK'
BY DEF StripeOK, World

LEMMA RefundReadTyped ==
  ASSUME Typed, NEW c \in Callers, NEW s \in Settlements,
         NEW n \in Parts \cup {Total - AlreadyRefunded(s)}, RefundRead(c, s, n)
  PROVE  /\ Typed' /\ Only(c) /\ UNCHANGED <<Rows, World>>
         /\ call'[c].pc = "refund" /\ call'[c].s = s /\ call'[c].amount = n
         /\ n \in Int /\ n > 0
<1>1. AlreadyRefunded(s) \in Int
  BY AlreadyInt DEF Typed
<1>2. n \in Int /\ n > 0
  BY <1>1, PartsAssumption, PriceAssumption DEF RefundRead
<1> DEFINE new == [Idle EXCEPT !.pc = "refund", !.s = s, !.amount = n,
                              !.full = (n = Total - AlreadyRefunded(s))]
<1>3. Start(c, new)
  BY Zenon DEF RefundRead
<1>4. new \in Calls /\ new.pc = "refund" /\ new.s = s /\ new.amount = n
  <2>1. "refund" \in Others
    BY DEF Others
  <2>2. QED BY <1>2, <2>1, IdleTyped DEF Calls
<1> HIDE DEF new
<1>5. CallsOK' /\ Only(c) /\ call'[c] = new
  BY <1>3, <1>4, Started DEF Typed
<1>6. UNCHANGED <<Rows, World>>
  BY DEF RefundRead, Rows, World
<1>7. QED BY <1>2, <1>4, <1>5, <1>6, RowsKept, WorldKept DEF Typed

LEMMA RefundInsertTyped ==
  ASSUME Typed, NEW c \in Callers, RefundInsert(c)
  PROVE  /\ Typed' /\ Only(c) /\ UNCHANGED <<Rows, stripe, events, mirrored>>
         /\ call[c].pc = "refund"
         /\ \E i \in Refunds :
              /\ FirstUnused(call[c].s, i)
              /\ refund'[i] = [status |-> "PROCESSING", amount |-> call[c].amount, linked |-> FALSE]
              /\ \A j \in Refunds \ {i} : refund'[j] = refund[j]
              /\ call'[c].pc = "ask" /\ call'[c].id = i
              /\ call'[c].s = call[c].s /\ call'[c].amount = call[c].amount
<1>1. PICK i \in Refunds :
        /\ FirstUnused(call[c].s, i)
        /\ refund' = [refund EXCEPT ![i] =
                        [status |-> "PROCESSING", amount |-> call[c].amount, linked |-> FALSE]]
        /\ call' = [call EXCEPT ![c] = [call[c] EXCEPT !.pc = "ask", !.id = i]]
  BY DEF RefundInsert
<1>2. call[c] \in Calls /\ call[c].s \in Settlements /\ call[c].pc = "refund"
  BY DEF RefundInsert, Typed, CallsOK
<1> DEFINE new == [call[c] EXCEPT !.pc = "ask", !.id = i]
           row == [status |-> "PROCESSING", amount |-> call[c].amount, linked |-> FALSE]
<1>3. new \in Calls /\ new.pc = "ask" /\ new.id = i /\ new.s = call[c].s /\ new.amount = call[c].amount
  <2>1. "ask" \in Asking
    BY DEF Asking
  <2>2. QED BY <1>2, <2>1 DEF Calls
<1>4. CallsOK' /\ Only(c) /\ call'[c] = new
  <2> HIDE DEF new
  <2>1. call' = [call EXCEPT ![c] = new]
    BY <1>1 DEF new
  <2>2. QED BY <1>2, <1>3, <2>1, Stored DEF Typed
<1>5. row \in RefundRows
  BY <1>2 DEF RefundRows, Calls
<1>6. /\ refund' \in [Refunds -> RefundRows] /\ refund'[i] = row
      /\ \A j \in Refunds \ {i} : refund'[j] = refund[j]
  <2> HIDE DEF row
  <2>1. refund' = [refund EXCEPT ![i] = row] /\ refund \in [Refunds -> RefundRows]
    BY <1>1 DEF Typed, StripeOK, row
  <2>2. QED BY <1>5, <2>1
<1>7. UNCHANGED <<Rows, stripe, events, mirrored>>
  BY DEF RefundInsert, Rows
<1>8. StripeOK'
  BY <1>6, <1>7 DEF StripeOK, Typed
<1> HIDE DEF new, row
<1>9. QED BY <1>1, <1>2, <1>3, <1>4, <1>6, <1>7, <1>8, RowsKept DEF Typed, row

\* Stripe gave caller c's refund back, and said so.
GivenBack(c) ==
  \E e \in Events :
    /\ e.kind = "refund" /\ e.s = call[c].s
    /\ events' = events \cup {e}
    /\ stripe'.refunds = [stripe.refunds EXCEPT ![call[c].id] = call[c].amount]
    /\ \A f \in {"sent", "reversals", "where", "lost", "guessed"} : stripe'[f] = stripe[f]

LEMMA RefundAskTyped ==
  ASSUME Typed, AskInv, NEW c \in Callers, RefundAsk(c)
  PROVE  /\ Typed' /\ Only(c) /\ UNCHANGED <<Rows, mirrored>>
         /\ call[c].pc = "ask" /\ call[c].id \in Refunds
         /\ GivenBack(c) \/ UNCHANGED <<stripe, events>>
         /\ \/ /\ GivenBack(c) /\ UNCHANGED refund
               /\ call'[c] = [call[c] EXCEPT !.pc = "link"]
            \/ /\ refund' = [refund EXCEPT ![call[c].id].status = "FAILED"]
               /\ call'[c] = Idle
<1> DEFINE i == call[c].id
           s == call[c].s
           n == call[c].amount
<1>1. call[c].pc = "ask" /\ i \in Refunds /\ s \in Settlements /\ n \in Int
  BY DEF RefundAsk, Typed, CallsOK, Calls, AskInv, AskShape, Asking
<1>2. UNCHANGED <<Rows, mirrored>>
  BY DEF RefundAsk, Rows
<1>3. ASSUME GiveBack(s, i, n)
      PROVE  GivenBack(c) /\ stripe' \in StripeStates /\ events' \subseteq Events
             /\ stripe'.reversals = stripe.reversals
  <2> HIDE DEF i, s, n
  <2>1. PICK e \in Events :
           /\ e.kind = "refund" /\ e.s = s
           /\ events' = events \cup {e} /\ events' \subseteq Events
           /\ stripe' \in StripeStates
           /\ stripe'.refunds = [stripe.refunds EXCEPT ![i] = n]
           /\ \A f \in {"sent", "reversals", "where", "lost", "guessed"} : stripe'[f] = stripe[f]
    BY <1>1, <1>3, GiveBackStores DEF Typed
  <2>2. stripe'["reversals"] = stripe["reversals"]
    BY <2>1
  <2>3. QED BY <2>1, <2>2, Zenon DEF GivenBack, i, s, n
<1>4. CASE GiveBack(s, i, n) /\ MoveTo(c, "link") /\ UNCHANGED refund
  <2>1. CallsOK' /\ Only(c) /\ call'[c] = [call[c] EXCEPT !.pc = "link"]
    <3>1. "link" \in PCs
      BY DEF PCs, Asking
    <3>2. QED BY <1>1, <1>4, <3>1, Moved DEF Typed
  <2>2. StripeOK'
    BY <1>2, <1>3, <1>4 DEF StripeOK, Typed
  <2>3. QED BY <1>1, <1>2, <1>3, <1>4, <2>1, <2>2, RowsKept DEF Typed
<1>5. CASE /\ UNCHANGED <<stripe, events>> \/ GiveBack(s, i, n)
           /\ refund' = [refund EXCEPT ![i].status = "FAILED"]
           /\ Finish(c)
  <2>1. CallsOK' /\ Only(c) /\ call'[c] = Idle
    BY <1>5, Finished DEF Typed
  <2>2. refund' \in [Refunds -> RefundRows]
    BY <1>1, <1>5 DEF Typed, StripeOK, RefundRows
  <2>3. StripeOK'
    BY <1>2, <1>3, <1>5, <2>2 DEF StripeOK, Typed
  <2>4. QED BY <1>1, <1>2, <1>3, <1>5, <2>1, <2>3, RowsKept DEF Typed
<1>6. QED BY <1>4, <1>5 DEF RefundAsk

LEMMA RefundLinkTyped ==
  ASSUME Typed, AskInv, NEW c \in Callers, RefundLink(c)
  PROVE  /\ Typed' /\ Only(c) /\ UNCHANGED <<Rows, stripe, events, mirrored>>
         /\ call[c].pc = "link" /\ call[c].id \in Refunds
         /\ \/ call'[c] = Idle /\ UNCHANGED refund
            \/ /\ call'[c] = [call[c] EXCEPT !.pc = "apply"]
               /\ refund' = [refund EXCEPT ![call[c].id].status = "SUCCEEDED",
                                           ![call[c].id].linked = TRUE]
<1> DEFINE i == call[c].id
<1>1. call[c].pc = "link" /\ i \in Refunds
  BY DEF RefundLink, AskInv, AskShape, Asking
<1>2. UNCHANGED <<Rows, stripe, events, mirrored>>
  BY DEF RefundLink, Rows
<1>3. CASE i \in mirrored
  <2>1. Finish(c) /\ UNCHANGED refund
    BY <1>3 DEF RefundLink
  <2>2. CallsOK' /\ Only(c) /\ call'[c] = Idle
    BY <2>1, Finished DEF Typed
  <2>3. QED BY <1>1, <1>2, <2>1, <2>2, RowsKept, WorldKept DEF Typed, World
<1>4. CASE i \notin mirrored
  <2>1. /\ refund' = [refund EXCEPT ![i].status = "SUCCEEDED", ![i].linked = TRUE]
        /\ MoveTo(c, "apply")
    BY <1>4 DEF RefundLink
  <2>2. "apply" \in PCs
    BY DEF PCs, Others
  <2>3. CallsOK' /\ Only(c) /\ call'[c] = [call[c] EXCEPT !.pc = "apply"]
    BY <1>1, <2>1, <2>2, Moved DEF Typed
  <2>4. refund' \in [Refunds -> RefundRows]
    BY <1>1, <2>1 DEF Typed, StripeOK, RefundRows
  <2>5. StripeOK'
    BY <1>2, <2>4 DEF StripeOK, Typed
  <2>6. QED BY <1>1, <1>2, <2>1, <2>3, <2>5, RowsKept DEF Typed
<1>5. QED BY <1>3, <1>4

LEMMA RefundEventTyped ==
  ASSUME Typed, NEW c \in Callers, NEW e \in events, RefundEvent(c, e)
  PROVE  /\ Typed' /\ Only(c) /\ UNCHANGED <<Rows, World>>
         /\ call[c].pc = "idle" /\ e.kind = "refund"
         /\ call'[c].pc = "event" /\ call'[c].s = e.s
<1>1. e \in Events
  BY DEF Typed, StripeOK
<1> DEFINE new == [Idle EXCEPT !.pc = "event", !.s = e.s, !.full = e.full, !.todo = e.ids,
                              !.event = e]
<1>2. Start(c, new) /\ e.kind = "refund"
  BY Zenon DEF RefundEvent
<1>3. new \in Calls /\ new.pc = "event" /\ new.s = e.s
  <2>1. "event" \in Others
    BY DEF Others
  <2>2. e.s \in Settlements /\ e.full \in BOOLEAN /\ e.ids \subseteq Refunds
    BY <1>1 DEF Events
  <2>3. QED BY <1>1, <2>1, <2>2, IdleTyped DEF Calls
<1>4. e.s \in Settlements
  BY <1>1 DEF Events
<1>5. UNCHANGED <<Rows, World>>
  BY DEF RefundEvent, Rows, World
<1> HIDE DEF new
<1>6. CallsOK' /\ Only(c) /\ call'[c] = new /\ call[c].pc = "idle"
  BY <1>2, <1>3, <1>4, Started DEF Typed
<1>7. QED BY <1>2, <1>3, <1>5, <1>6, RowsKept, WorldKept DEF Typed

\* A row stays as it is, or is linked and has succeeded.
RowsOfRefundsKept ==
  \A j \in Refunds :
    \/ refund'[j] = refund[j]
    \/ refund[j].linked /\ refund'[j] = [refund[j] EXCEPT !.status = "SUCCEEDED"]

LEMMA RefundPostTyped ==
  ASSUME Typed, NEW c \in Callers, NEW i \in Refunds, RefundPost(c, i)
  PROVE  /\ Typed' /\ Only(c) /\ UNCHANGED <<Rows, stripe, events>>
         /\ call[c].pc = "event"
         /\ call'[c].pc \in {"event", "apply"} /\ call'[c].s = call[c].s
         /\ RowsOfRefundsKept
<1>1. call[c] \in Calls /\ call[c].s \in Settlements /\ call[c].pc = "event"
  BY DEF RefundPost, Typed, CallsOK
<1>2. UNCHANGED <<Rows, stripe, events>>
  BY DEF RefundPost, Rows
<1>3. "apply" \in Others /\ stripe.refunds[i] \in Int
  BY DEF Others, Typed, StripeOK, StripeStates
<1>4. PICK new : /\ call' = [call EXCEPT ![c] = new]
                 /\ \/ new = [call[c] EXCEPT !.todo = @ \ {i}]
                    \/ new = [call[c] EXCEPT !.todo = @ \ {i}, !.pc = "apply", !.id = i,
                                             !.amount = stripe.refunds[i]]
  <2>1. \/ call' = [call EXCEPT ![c] = [call[c] EXCEPT !.todo = @ \ {i}]]
        \/ call' = [call EXCEPT ![c] = [call[c] EXCEPT !.todo = @ \ {i}, !.pc = "apply",
                                                       !.id = i, !.amount = stripe.refunds[i]]]
    BY DEF RefundPost
  <2>2. QED BY <2>1, Zenon
<1>5. new \in Calls /\ new.pc \in {"event", "apply"} /\ new.s = call[c].s
  <2>1. (call[c].todo \ {i}) \in SUBSET (Refunds \cup Settlements)
    BY <1>1 DEF Calls
  <2>2. CASE new = [call[c] EXCEPT !.todo = @ \ {i}]
    BY <1>1, <2>1, <2>2 DEF Calls
  <2>3. CASE new = [call[c] EXCEPT !.todo = @ \ {i}, !.pc = "apply", !.id = i,
                                   !.amount = stripe.refunds[i]]
    <3>1. PICK todo \in SUBSET (Refunds \cup Settlements) : todo = call[c].todo \ {i}
      BY <2>1
    <3>2. PICK n \in Int : n = stripe.refunds[i]
      BY <1>3
    <3>3. new = [call[c] EXCEPT !.todo = todo, !.pc = "apply", !.id = i, !.amount = n]
      BY <2>3, <3>1, <3>2
    <3>4. QED BY <1>1, <1>3, <3>3 DEF Calls
  <2>4. QED BY <1>4, <2>2, <2>3
<1>6. CallsOK' /\ Only(c) /\ call'[c] = new
  BY <1>1, <1>4, <1>5, Stored DEF Typed
<1>7. refund' \in [Refunds -> RefundRows] /\ RowsOfRefundsKept
  <2>1. \/ refund' = [refund EXCEPT ![i].status = "SUCCEEDED"] /\ refund[i].linked
        \/ UNCHANGED refund
    BY DEF RefundPost
  <2>2. refund \in [Refunds -> RefundRows]
    BY DEF Typed, StripeOK
  <2>3. CASE UNCHANGED refund
    BY <2>2, <2>3 DEF RowsOfRefundsKept
  <2>4. CASE refund' = [refund EXCEPT ![i].status = "SUCCEEDED"] /\ refund[i].linked
    <3>1. [refund[i] EXCEPT !.status = "SUCCEEDED"] \in RefundRows
      BY <2>2 DEF RefundRows
    <3>2. refund' \in [Refunds -> RefundRows]
      BY <2>2, <2>4, <3>1
    <3>3. refund'[i] = [refund[i] EXCEPT !.status = "SUCCEEDED"]
          /\ \A j \in Refunds \ {i} : refund'[j] = refund[j]
      BY <2>2, <2>4
    <3>4. QED BY <2>4, <3>2, <3>3 DEF RowsOfRefundsKept
  <2>5. QED BY <2>1, <2>3, <2>4
<1>8. mirrored' \subseteq Refunds
  BY DEF RefundPost, Typed, StripeOK
<1>9. StripeOK'
  BY <1>2, <1>7, <1>8 DEF StripeOK, Typed
<1>10. QED BY <1>1, <1>2, <1>5, <1>6, <1>7, <1>9, RowsKept DEF Typed

LEMMA RefundEventDoneTyped ==
  ASSUME Typed, NEW c \in Callers, RefundEventDone(c)
  PROVE  /\ Typed' /\ Only(c) /\ UNCHANGED <<Rows, stripe, refund, mirrored>>
         /\ call'[c] = Idle /\ events' \subseteq events
<1>1. UNCHANGED <<Rows, stripe, refund, mirrored>> /\ events' \subseteq events
  BY DEF RefundEventDone, Rows
<1>2. CallsOK' /\ Only(c) /\ call'[c] = Idle
  BY Finished DEF RefundEventDone, Typed
<1>3. StripeOK'
  BY <1>1 DEF StripeOK, Typed
<1>4. QED BY <1>1, <1>2, <1>3, RowsKept DEF Typed

\* The call ends, or its refund event goes on with the next refund.
ToldOf(c) == call'[c] = Idle \/ call'[c] = [call[c] EXCEPT !.pc = "event"]

LEMMA ApplyReadTyped ==
  ASSUME Typed, NEW c \in Callers, ApplyRead(c)
  PROVE  /\ Typed' /\ Only(c) /\ UNCHANGED <<Rows, World>>
         /\ call[c].pc = "apply"
         /\ \/ ToldOf(c)
            \/ Status(call[c].s) \in Paid /\ call'[c] = [call[c] EXCEPT !.pc = "recover"]
            \/ /\ Status(call[c].s) \notin Paid
               /\ call'[c] = [call[c] EXCEPT !.pc = "writeOff", !.net = settlement[call[c].s].net]
            \/ \E n \in Int : call'[c] = [call[c] EXCEPT !.pc = "reduce", !.net = n]
<1> DEFINE s == call[c].s
           change == NetAfterRefund(call[c].amount) - settlement[s].net
<1>1. call[c] \in Calls /\ s \in Settlements /\ call[c].pc = "apply"
  BY DEF ApplyRead, Typed, CallsOK
<1>2. UNCHANGED <<Rows, World>>
  BY DEF ApplyRead, Rows, World
<1>3. settlement[s].net \in Int
  BY <1>1 DEF Typed, RowsOK, SettlementRows
<1>4. change \in Int
  <2>1. call[c].amount \in Int
    BY <1>1 DEF Calls
  <2>2. QED BY <1>3, <2>1, NetIsNat
<1> HIDE DEF change
<1>5. "recover" \in Others /\ "writeOff" \in Others /\ "reduce" \in Others
  BY DEF Others
<1>6. CASE Status(s) \in Paid /\ MoveTo(c, "recover")
  <2>1. CallsOK' /\ Only(c) /\ call'[c] = [call[c] EXCEPT !.pc = "recover"]
    BY <1>1, <1>5, <1>6, Moved DEF Typed, PCs
  <2>2. QED BY <1>1, <1>2, <1>6, <2>1, RowsKept, WorldKept DEF Typed
<1>7. CASE Told(c)
  BY <1>1, <1>2, <1>7, ToldMoves, RowsKept, WorldKept DEF Typed, ToldOf
<1>8. CASE /\ Status(s) \notin Paid
           /\ call' = [call EXCEPT ![c].pc = "writeOff", ![c].net = settlement[s].net]
  <2> DEFINE new == [call[c] EXCEPT !.pc = "writeOff", !.net = settlement[s].net]
  <2>1. new \in Calls /\ new.s = s
    BY <1>1, <1>3, <1>5 DEF Calls
  <2>2. call' = [call EXCEPT ![c] = new]
    BY <1>8
  <2> HIDE DEF new
  <2>3. CallsOK' /\ Only(c) /\ call'[c] = new
    BY <1>1, <2>1, <2>2, Stored DEF Typed
  <2>4. QED BY <1>1, <1>2, <1>8, <2>3, RowsKept, WorldKept DEF Typed, new
<1>9. CASE call' = [call EXCEPT ![c].pc = "reduce", ![c].net = change]
  <2> DEFINE new == [call[c] EXCEPT !.pc = "reduce", !.net = change]
  <2>1. new \in Calls /\ new.s = s
    BY <1>1, <1>4, <1>5 DEF Calls
  <2>2. call' = [call EXCEPT ![c] = new]
    BY <1>9
  <2> HIDE DEF new
  <2>3. CallsOK' /\ Only(c) /\ call'[c] = new
    BY <1>1, <2>1, <2>2, Stored DEF Typed
  <2>4. QED BY <1>1, <1>2, <1>4, <2>3, RowsKept, WorldKept DEF Typed, new
<1>10. QED BY <1>6, <1>7, <1>8, <1>9 DEF ApplyRead, change

LEMMA WriteOffTyped ==
  ASSUME Typed, NEW c \in Callers, WriteOff(c)
  PROVE  /\ Typed' /\ Only(c) /\ ToldOf(c)
         /\ UNCHANGED <<payout, recoveries, recoverable, World>>
         /\ call[c].pc = "writeOff" /\ call[c].net \in Int
         /\ WrittenOff(call[c].s, call[c].net) \/ UNCHANGED <<settlement, payable>>
<1>1. call[c] \in Calls /\ call[c].s \in Settlements /\ call[c].pc = "writeOff"
  BY DEF WriteOff, Typed, CallsOK
<1>2. call[c].net \in Int
  BY <1>1 DEF Calls
<1>3. UNCHANGED <<payout, recoveries, recoverable, World>>
  BY DEF WriteOff, World
<1>4. /\ settlement' \in [Settlements -> SettlementRows] /\ payable' \in [Settlements -> Int]
      /\ WrittenOff(call[c].s, call[c].net) \/ UNCHANGED <<settlement, payable>>
  BY <1>1, <1>2, WriteOffStores DEF WriteOff, Typed
<1>5. CallsOK' /\ Only(c) /\ ToldOf(c)
  BY <1>1, ToldMoves DEF WriteOff, Typed, ToldOf
<1>6. RowsOK'
  BY <1>3, <1>4 DEF RowsOK, Typed
<1>7. QED BY <1>1, <1>2, <1>3, <1>4, <1>5, <1>6, WorldKept DEF Typed

LEMMA LoseTyped ==
  ASSUME Typed, NEW c \in Callers, Lose(c)
  PROVE  /\ Typed' /\ Only(c) /\ call'[c] = Idle
         /\ UNCHANGED <<payout, recoveries, recoverable, World>>
         /\ call[c].pc = "lose" /\ call[c].net \in Int
         /\ WrittenOff(call[c].s, call[c].net) \/ UNCHANGED <<settlement, payable>>
<1>1. call[c] \in Calls /\ call[c].s \in Settlements /\ call[c].pc = "lose"
  BY DEF Lose, Typed, CallsOK
<1>2. call[c].net \in Int
  BY <1>1 DEF Calls
<1>3. UNCHANGED <<payout, recoveries, recoverable, World>>
  BY DEF Lose, World
<1>4. /\ settlement' \in [Settlements -> SettlementRows] /\ payable' \in [Settlements -> Int]
      /\ WrittenOff(call[c].s, call[c].net) \/ UNCHANGED <<settlement, payable>>
  BY <1>1, <1>2, WriteOffStores DEF Lose, Typed
<1>5. CallsOK' /\ Only(c) /\ call'[c] = Idle
  BY Finished DEF Lose, Typed
<1>6. RowsOK'
  BY <1>3, <1>4 DEF RowsOK, Typed
<1>7. QED BY <1>1, <1>2, <1>3, <1>4, <1>5, <1>6, WorldKept DEF Typed

LEMMA ReduceTyped ==
  ASSUME Typed, NEW c \in Callers, Reduce(c)
  PROVE  /\ Typed' /\ Only(c) /\ ToldOf(c)
         /\ UNCHANGED <<payout, recoveries, recoverable, World>>
         /\ call[c].pc = "reduce"
         /\ \/ Adjusted(call[c].s) /\ Adjustable(call[c].s)
            \/ UNCHANGED <<settlement, payable>>
<1>1. call[c] \in Calls /\ call[c].s \in Settlements /\ call[c].pc = "reduce"
  BY DEF Reduce, Typed, CallsOK
<1>2. call[c].net \in Int
  BY <1>1 DEF Calls
<1>3. UNCHANGED <<payout, recoveries, recoverable, World>>
  BY DEF Reduce, World
<1>4. CASE Adjustable(call[c].s) /\ AdjustBy(call[c].s, call[c].net) /\ Told(c)
  <2>1. Adjusted(call[c].s)
    BY <1>1, <1>2, <1>4, AdjustStores DEF Typed
  <2>2. settlement' \in [Settlements -> SettlementRows] /\ payable' \in [Settlements -> Int]
    BY <2>1 DEF Adjusted
  <2>3. CallsOK' /\ Only(c) /\ ToldOf(c)
    BY <1>1, <1>4, ToldMoves DEF Typed, ToldOf
  <2>4. RowsOK'
    BY <1>3, <2>2 DEF RowsOK, Typed
  <2>5. QED BY <1>1, <1>3, <1>4, <2>1, <2>3, <2>4, WorldKept DEF Typed
<1>5. CASE UNCHANGED <<settlement, payable>> /\ Finish(c)
  <2>1. CallsOK' /\ Only(c) /\ ToldOf(c)
    BY <1>5, Finished DEF Typed, ToldOf
  <2>2. UNCHANGED Rows
    BY <1>3, <1>5 DEF Rows
  <2>3. QED BY <1>1, <1>3, <1>5, <2>1, <2>2, RowsKept, WorldKept DEF Typed
<1>6. QED BY <1>4, <1>5 DEF Reduce

LEMMA AdjustTyped ==
  ASSUME Typed, NEW c \in Callers, NEW s \in Settlements, NEW n \in Changes, Adjust(c, s, n)
  PROVE  /\ Typed' /\ UNCHANGED <<payout, recoveries, recoverable, World, call>>
         /\ Adjusted(s) /\ Adjustable(s)
         /\ call[c].pc = "idle"
<1>1. UNCHANGED <<payout, recoveries, recoverable, World, call>>
  BY DEF Adjust, World
<1>2. Adjusted(s)
  <2>1. n \in Int
    BY ChangesAssumption
  <2>2. QED BY <2>1, AdjustStores DEF Adjust, Typed
<1>3. settlement' \in [Settlements -> SettlementRows] /\ payable' \in [Settlements -> Int]
  BY <1>2 DEF Adjusted
<1>4. RowsOK' /\ CallsOK'
  BY <1>1, <1>3 DEF RowsOK, CallsOK, Typed
<1>5. Adjustable(s) /\ call[c].pc = "idle"
  BY DEF Adjust
<1>6. QED BY <1>1, <1>2, <1>4, <1>5, WorldKept DEF Typed

LEMMA DisputeLostTyped ==
  ASSUME Typed, NEW c \in Callers, NEW s \in Settlements, DisputeLost(c, s)
  PROVE  /\ Typed' /\ Only(c) /\ UNCHANGED <<Rows, events, refund, mirrored>>
         /\ Status(s) # "none" /\ call[c].pc = "idle"
         /\ \A f \in {"sent", "reversals", "where", "refunds", "guessed"} : stripe'[f] = stripe[f]
         /\ call'[c].s = s /\ call'[c].net = settlement[s].net
         /\ \/ Status(s) \in Paid /\ call'[c].pc = "recover"
            \/ Status(s) \notin Paid /\ call'[c].pc = "lose"
<1> DEFINE new == [Idle EXCEPT !.pc = IF Status(s) \in Paid THEN "recover" ELSE "lose", !.s = s,
                              !.amount = Total - RefundedAt(s), !.net = settlement[s].net]
<1>1. Start(c, new) /\ Status(s) # "none"
  BY Zenon DEF DisputeLost
<1>2. settlement[s].net \in Int /\ Total - RefundedAt(s) \in Int
  BY RefundedInt, PriceAssumption DEF Typed, RowsOK, SettlementRows
<1>3. /\ new \in Calls /\ new.s = s /\ new.net = settlement[s].net
      /\ \/ Status(s) \in Paid /\ new.pc = "recover"
         \/ Status(s) \notin Paid /\ new.pc = "lose"
  <2>1. "recover" \in Others /\ "lose" \in Others
    BY DEF Others
  <2>2. QED BY <1>2, <2>1, IdleTyped DEF Calls
<1> HIDE DEF new
<1>4. CallsOK' /\ Only(c) /\ call'[c] = new /\ call[c].pc = "idle"
  BY <1>1, <1>3, Started DEF Typed
<1>5. UNCHANGED <<Rows, events, refund, mirrored>>
  BY DEF DisputeLost, Rows
<1>6. /\ stripe' \in StripeStates
      /\ \A f \in {"sent", "reversals", "where", "refunds", "guessed"} : stripe'[f] = stripe[f]
  BY DEF DisputeLost, Typed, StripeOK, StripeStates
<1>7. stripe'.reversals = stripe.reversals
  BY <1>6
<1>8. StripeOK'
  BY <1>5, <1>6, <1>7 DEF StripeOK, Typed
<1>9. QED BY <1>1, <1>3, <1>4, <1>5, <1>6, <1>8, RowsKept DEF Typed

LEMMA RecoverableInt ==
  ASSUME RowsOK, NEW s \in Settlements
  PROVE  Recoverable(s) \in Int
<1>1. settlement[s].net \in Int
  BY DEF RowsOK, SettlementRows
<1>2. payout[s].amount \in Int /\ payout[s].reversed \in Int
  BY DEF RowsOK, PayoutRows
<1>3. QED BY <1>1, <1>2 DEF Recoverable

LEMMA RecoverTyped ==
  ASSUME Typed, NEW c \in Callers, Recover(c)
  PROVE  /\ Typed' /\ Only(c) /\ UNCHANGED <<Rows, World>>
         /\ call[c].pc = "recover"
         /\ \/ ToldOf(c)
            \/ \E n \in Int :
                 /\ 0 < n /\ n <= Recoverable(call[c].s)
                 /\ call'[c].s = call[c].s /\ call'[c].amount = n
                 /\ call'[c].net = payout[call[c].s].reversed
                 /\ \/ payout[call[c].s].sent /\ call'[c].pc = "reverse"
                    \/ ~ payout[call[c].s].sent /\ call'[c].pc = "open"
<1> DEFINE s == call[c].s
<1>1. call[c] \in Calls /\ s \in Settlements /\ call[c].pc = "recover"
  BY DEF Recover, Typed, CallsOK
<1>2. UNCHANGED <<Rows, World>>
  BY DEF Recover, Rows, World
<1>3. PICK n \in Int : n = Smaller(call[c].amount, Recoverable(s)) /\ n <= Recoverable(s)
  <2>1. call[c].amount \in Int /\ Recoverable(s) \in Int
    BY <1>1, RecoverableInt DEF Calls, Typed
  <2>2. QED BY <2>1 DEF Smaller
<1>4. CASE n <= 0 /\ Told(c)
  BY <1>1, <1>2, <1>4, ToldMoves, RowsKept, WorldKept DEF Typed, ToldOf
<1>5. CASE /\ n > 0
           /\ call' = [call EXCEPT ![c].amount = n, ![c].net = payout[s].reversed,
                        ![c].pc = IF payout[s].sent THEN "reverse" ELSE "open"]
  <2> DEFINE pc == IF payout[s].sent THEN "reverse" ELSE "open"
             new == [call[c] EXCEPT !.amount = n, !.net = payout[s].reversed, !.pc = pc]
  <2>1. /\ pc \in PCs
        /\ \/ payout[s].sent /\ pc = "reverse"
           \/ ~ payout[s].sent /\ pc = "open"
    <3>1. "reverse" \in PCs /\ "open" \in PCs
      BY DEF PCs, Taking, Others
    <3>2. QED BY <3>1, Zenon
  <2>2. payout[s].reversed \in Int
    BY <1>1 DEF Typed, RowsOK, PayoutRows
  <2>3. call' = [call EXCEPT ![c] = new]
    BY <1>5
  <2> HIDE DEF pc, s
  <2>4. new \in Calls /\ new.s = call[c].s /\ new.amount = n /\ new.net = payout[s].reversed
        /\ new.pc = pc
    BY <1>1, <2>1, <2>2 DEF Calls, PCs
  <2> HIDE DEF new
  <2>5. CallsOK' /\ Only(c) /\ call'[c] = new
    BY <1>1, <2>3, <2>4, Stored DEF Typed, s
  <2>6. Typed' /\ Only(c) /\ UNCHANGED <<Rows, World>>
    BY <1>2, <2>5, RowsKept, WorldKept DEF Typed
  <2>7. QED BY <1>1, <1>3, <1>5, <2>1, <2>4, <2>5, <2>6 DEF s
<1>6. QED
  <2>1. IF n <= 0 THEN Told(c)
        ELSE call' = [call EXCEPT ![c].amount = n, ![c].net = payout[s].reversed,
                        ![c].pc = IF payout[s].sent THEN "reverse" ELSE "open"]
    BY <1>3 DEF Recover
  <2>2. QED BY <1>4, <1>5, <2>1

\* Stripe takes money of caller c's reversal back, and says so.
TakenBack(c) ==
  \E key \in Reversals : \E e \in Events :
    /\ key.s = call[c].s /\ key.amount = call[c].amount
    /\ e.kind = "transfer" /\ e.s = key.s /\ e.amount = ReversedAt(key.s) + key.amount
    /\ e.amount <= stripe.sent[key.s] /\ stripe.where[key.s] \in {"balance", "bounced"}
    /\ events' = events \cup {e}
    /\ stripe'.reversals = stripe.reversals \cup {key}
    /\ \A f \in {"sent", "refunds", "where", "lost", "guessed"} : stripe'[f] = stripe[f]

LEMMA ReverseTyped ==
  ASSUME Typed, \A r \in stripe.reversals : r.amount > 0, NEW c \in Callers, Reverse(c)
  PROVE  /\ Typed' /\ Only(c) /\ UNCHANGED <<Rows, refund, mirrored>>
         /\ call[c].pc = "reverse"
         /\ TakenBack(c) \/ UNCHANGED <<stripe, events>>
         /\ \/ call'[c] = Idle
            \/ call'[c] = [call[c] EXCEPT !.pc = "reversed"]
            \/ call'[c] = [call[c] EXCEPT !.pc = "open"]
<1> DEFINE s == call[c].s
           key == [s |-> s, already |-> call[c].net, amount |-> call[c].amount]
           left == stripe.sent[s] - ReversedAt(s)
           e == Event("transfer", s, {}, key.amount = left, ReversedAt(s) + key.amount)
<1>1. call[c] \in Calls /\ s \in Settlements /\ call[c].pc = "reverse"
  BY DEF Reverse, Typed, CallsOK
<1>2. UNCHANGED <<Rows, refund, mirrored>>
  BY DEF Reverse, Rows
<1>3. key \in Reversals /\ key.s = s /\ key.amount = call[c].amount /\ key.amount \in Int
  BY <1>1 DEF Calls, Reversals
<1>4. stripe \in StripeStates /\ events \subseteq Events /\ stripe.sent[s] \in Int
  BY <1>1 DEF Typed, StripeOK, StripeStates
<1>5. PICK r \in Nat : r = ReversedAt(s)
  BY ReversedNat DEF Typed
<1>6. CASE /\ stripe.where[s] \in {"balance", "bounced"} /\ key.amount <= left
           /\ stripe' = [stripe EXCEPT !.reversals = @ \cup {key}]
           /\ events' = events \cup {e}
           /\ MoveTo(c, "reversed")
  <2>1. e \in Events /\ e.kind = "transfer" /\ e.s = s /\ e.amount = r + key.amount
    <3>1. (key.amount = left) \in BOOLEAN
      OBVIOUS
    <3>2. \A full \in BOOLEAN : \A n \in Int :
            /\ Event("transfer", s, {}, full, n) \in Events
            /\ Event("transfer", s, {}, full, n).kind = "transfer"
            /\ Event("transfer", s, {}, full, n).s = s
            /\ Event("transfer", s, {}, full, n).amount = n
      BY <1>1 DEF Event, Events
    <3>3. r + key.amount \in Int
      BY <1>3, <1>5
    <3> HIDE DEF key, left
    <3>4. QED BY <1>5, <3>1, <3>2, <3>3, Zenon
  <2>2. e.amount <= stripe.sent[s]
    <3>1. key.amount <= stripe.sent[s] - r
      BY <1>5, <1>6
    <3> HIDE DEF key, left, e
    <3>2. QED BY <1>3, <1>4, <1>5, <2>1, <3>1
  <2>3. /\ stripe' \in StripeStates
        /\ stripe'.reversals = stripe.reversals \cup {key}
        /\ \A f \in {"sent", "refunds", "where", "lost", "guessed"} : stripe'[f] = stripe[f]
    <3> HIDE DEF key
    <3>1. QED BY <1>3, <1>4, <1>6 DEF StripeStates
  <2> HIDE DEF key, left, e
  <2>4. IsFiniteSet(stripe'.reversals)
    BY <2>3, FS_AddElement DEF Typed, StripeOK
  <2>5. StripeOK'
    BY <1>2, <1>4, <1>6, <2>1, <2>3, <2>4 DEF StripeOK, Typed
  <2>6. CallsOK' /\ Only(c) /\ call'[c] = [call[c] EXCEPT !.pc = "reversed"]
    <3>1. "reversed" \in PCs
      BY DEF PCs, Taking
    <3>2. QED BY <1>1, <1>6, <3>1, Moved DEF Typed
  <2>7. TakenBack(c)
    <3>1. e.amount = ReversedAt(key.s) + key.amount /\ e.s = key.s /\ key.s = call[c].s
      BY <1>3, <1>5, <2>1
    <3>2. stripe.where[key.s] \in {"balance", "bounced"} /\ e.amount <= stripe.sent[key.s]
      BY <1>3, <1>6, <2>2
    <3>3. events' = events \cup {e} /\ e.kind = "transfer" /\ e \in Events
      BY <1>6, <2>1
    <3>4. QED BY <1>3, <2>3, <3>1, <3>2, <3>3 DEF TakenBack
  <2>8. RowsOK'
    BY <1>2, RowsKept DEF Typed
  <2>9. QED BY <1>1, <1>2, <2>5, <2>6, <2>7, <2>8 DEF Typed
<1>7. CASE /\ UNCHANGED <<stripe, events>>
           /\ MoveTo(c, "reversed") \/ MoveTo(c, "open") \/ Finish(c)
  <2>1. "reversed" \in PCs /\ "open" \in PCs
    BY DEF PCs, Taking, Others
  <2>2. /\ CallsOK' /\ Only(c)
        /\ \/ call'[c] = Idle
           \/ call'[c] = [call[c] EXCEPT !.pc = "reversed"]
           \/ call'[c] = [call[c] EXCEPT !.pc = "open"]
    BY <1>1, <1>7, <2>1, Moved, Finished DEF Typed
  <2>3. UNCHANGED World
    BY <1>2, <1>7 DEF World
  <2>4. QED BY <1>1, <1>2, <1>7, <2>2, <2>3, RowsKept, WorldKept DEF Typed
<1>8. QED
  <2>1. \/ MoveTo(c, "reversed") /\ UNCHANGED <<stripe, events>>
        \/ Finish(c) /\ UNCHANGED <<stripe, events>>
        \/ MoveTo(c, "open") /\ UNCHANGED <<stripe, events>>
        \/ /\ stripe.where[s] \in {"balance", "bounced"} /\ key.amount <= left
           /\ stripe' = [stripe EXCEPT !.reversals = @ \cup {key}]
           /\ events' = events \cup {e}
           /\ MoveTo(c, "reversed")
    BY Zenon DEF Reverse
  <2> HIDE DEF s, key, left, e
  <2>2. QED BY <1>6, <1>7, <2>1

LEMMA ReversedTyped ==
  ASSUME Typed, NEW c \in Callers, Reversed(c)
  PROVE  /\ Typed' /\ Only(c) /\ ToldOf(c)
         /\ UNCHANGED <<settlement, recoveries, payable, recoverable, World>>
         /\ call[c].pc = "reversed" /\ call[c].s \in Settlements
         /\ \E st \in PayoutStatuses :
              payout' = [payout EXCEPT ![call[c].s].reversed = call[c].net + call[c].amount,
                                       ![call[c].s].status = st]
<1> DEFINE s == call[c].s
           n == call[c].net + call[c].amount
<1>1. call[c] \in Calls /\ s \in Settlements /\ call[c].pc = "reversed"
  BY DEF Reversed, Typed, CallsOK
<1>2. n \in Int
  BY <1>1 DEF Calls
<1>3. UNCHANGED <<settlement, recoveries, payable, recoverable, World>>
  BY DEF Reversed, World
<1>4. PICK st \in PayoutStatuses :
        payout' = [payout EXCEPT ![s].reversed = n, ![s].status = st]
  BY DEF Reversed, PayoutStatuses
<1>5. payout' \in [Settlements -> PayoutRows]
  <2> HIDE DEF n, s
  <2>1. payout \in [Settlements -> PayoutRows]
    BY DEF Typed, RowsOK
  <2>2. [payout[s] EXCEPT !.reversed = n, !.status = st] \in PayoutRows
    BY <1>1, <1>2, <2>1 DEF PayoutRows
  <2>3. QED BY <1>1, <1>4, <2>1, <2>2
<1>6. CallsOK' /\ Only(c) /\ ToldOf(c)
  BY <1>1, ToldMoves DEF Reversed, Typed, ToldOf
<1>7. RowsOK'
  BY <1>3, <1>5 DEF RowsOK, Typed
<1>8. QED BY <1>1, <1>3, <1>4, <1>6, <1>7, WorldKept DEF Typed

LEMMA OpenRecoveryTyped ==
  ASSUME Typed, NEW c \in Callers, OpenRecovery(c)
  PROVE  /\ Typed' /\ Only(c) /\ ToldOf(c)
         /\ UNCHANGED <<settlement, payout, payable, World>>
         /\ call[c].pc = "open" /\ call[c].amount \in Int
         /\ recoverable' = recoverable + call[c].amount
         /\ \E r \in RecoveryRows : /\ recoveries' = Append(recoveries, r)
                                    /\ r.amount = call[c].amount /\ r.recovered = 0
<1> DEFINE r == [s |-> call[c].s, amount |-> call[c].amount, recovered |-> 0]
<1>1. call[c] \in Calls /\ call[c].s \in Settlements /\ call[c].pc = "open"
  BY DEF OpenRecovery, Typed, CallsOK
<1>2. call[c].amount \in Int /\ r \in RecoveryRows /\ r.amount = call[c].amount /\ r.recovered = 0
  BY <1>1 DEF Calls, RecoveryRows
<1>3. UNCHANGED <<settlement, payout, payable, World>>
  BY DEF OpenRecovery, World
<1>4. recoveries' = Append(recoveries, r) /\ recoverable' = recoverable + call[c].amount
  BY DEF OpenRecovery
<1> HIDE DEF r
<1>5. recoveries' \in Seq(RecoveryRows)
  BY <1>2, <1>4, AppendProperties DEF Typed, RowsOK
<1>6. CallsOK' /\ Only(c) /\ ToldOf(c)
  BY <1>1, ToldMoves DEF OpenRecovery, Typed, ToldOf
<1>7. RowsOK'
  BY <1>2, <1>3, <1>4, <1>5 DEF RowsOK, Typed
<1>8. QED BY <1>1, <1>2, <1>3, <1>4, <1>6, <1>7, WorldKept DEF Typed

\* The settlement goes to another status by a method, with the net it has.
MovesTo(s, st, m) ==
  /\ settlement'[s] = [status |-> st, net |-> settlement[s].net, method |-> m]
  /\ \A t \in Settlements \ {s} : settlement'[t] = settlement[t]

LEMMA MoveToStatus ==
  ASSUME RowsOK, NEW s \in Settlements, NEW st \in Statuses, NEW m \in Methods,
         Becomes(s, st, settlement[s].net, m)
  PROVE  settlement' \in [Settlements -> SettlementRows] /\ MovesTo(s, st, m)
<1>1. settlement[s].net \in Int
  BY DEF RowsOK, SettlementRows
<1>2. QED BY <1>1, BecomesStores DEF MovesTo

LEMMA TransferReadTyped ==
  ASSUME Typed, NEW c \in Callers, NEW s \in Settlements, TransferRead(c, s)
  PROVE  /\ Typed' /\ Only(c) /\ UNCHANGED <<Rows, World>>
         /\ call[c].pc = "idle" /\ Status(s) = "ELIGIBLE" /\ call'[c].s = s
         /\ \E net, offset \in Int :
              /\ net = settlement[s].net /\ offset = Offset(net)
              /\ call'[c].net = net /\ call'[c].offset = offset /\ call'[c].amount = net - offset
              /\ \/ net - offset <= 0 /\ call'[c].pc = "withhold"
                 \/ net - offset > 0 /\ call'[c].pc = "claim"
<1>1. PICK net \in Int : net = settlement[s].net
  BY DEF Typed, RowsOK, SettlementRows
<1>2. PICK offset \in Int : offset = Offset(net)
  BY DebtInt DEF Offset, Smaller, Typed
<1> DEFINE pc == IF net - offset <= 0 THEN "withhold" ELSE "claim"
           new == [Idle EXCEPT !.pc = pc, !.s = s, !.net = net, !.offset = offset,
                               !.amount = net - offset]
<1>3. Start(c, new) /\ Status(s) = "ELIGIBLE"
  BY <1>1, <1>2 DEF TransferRead
<1>4. /\ pc \in PCs
      /\ \/ net - offset <= 0 /\ pc = "withhold"
         \/ net - offset > 0 /\ pc = "claim"
  BY DEF PCs, Others
<1> HIDE DEF pc
<1>5. /\ new \in Calls /\ new.s = s /\ new.net = net /\ new.offset = offset
      /\ new.amount = net - offset /\ new.pc = pc
  <2>1. PICK rest \in Int : rest = net - offset
    OBVIOUS
  <2>2. new = [Idle EXCEPT !.pc = pc, !.s = s, !.net = net, !.offset = offset, !.amount = rest]
    BY <2>1
  <2> HIDE DEF new
  <2>3. QED BY <1>4, <2>1, <2>2, IdleTyped DEF Calls, PCs
<1> HIDE DEF new
<1>6. CallsOK' /\ Only(c) /\ call'[c] = new /\ call[c].pc = "idle"
  BY <1>3, <1>5, Started DEF Typed
<1>7. UNCHANGED <<Rows, World>>
  BY DEF TransferRead, Rows, World
<1>8. Typed'
  BY <1>6, <1>7, RowsKept, WorldKept DEF Typed
<1>9. QED BY <1>1, <1>2, <1>3, <1>4, <1>5, <1>6, <1>7, <1>8

LEMMA WithholdTyped ==
  ASSUME Typed, RecoveryInv, NEW c \in Callers, Withhold(c)
  PROVE  /\ Typed' /\ RecoveryInv' /\ Only(c) /\ UNCHANGED <<payout, World>>
         /\ call[c].pc = "withhold" /\ call'[c] = Idle /\ call[c].net \in Int
         /\ recoveries' = Credited(call[c].net)
         /\ \/ /\ Status(call[c].s) = "ELIGIBLE"
               /\ MovesTo(call[c].s, "PAID_OUT", "RECOVERY_OFFSET")
               /\ payable'[call[c].s] = payable[call[c].s] - call[c].net
               /\ \A t \in Settlements \ {call[c].s} : payable'[t] = payable[t]
               /\ recoverable' = recoverable - call[c].net
            \/ Status(call[c].s) # "ELIGIBLE" /\ UNCHANGED <<settlement, payable, recoverable>>
<1> DEFINE s == call[c].s
           n == call[c].net
<1>1. call[c] \in Calls /\ s \in Settlements /\ call[c].pc = "withhold"
  BY DEF Withhold, Typed, CallsOK
<1>2. n \in Int
  BY <1>1 DEF Calls
<1>3. UNCHANGED <<payout, World>> /\ recoveries' = Credited(n)
  BY DEF Withhold, World
<1>4. recoveries' \in Seq(RecoveryRows) /\ RecoveryInv'
  BY <1>2, <1>3, CreditedRows DEF RecoveryInv, Typed
<1>5. CallsOK' /\ Only(c) /\ call'[c] = Idle
  BY Finished DEF Withhold, Typed
<1>6. CASE /\ Status(s) = "ELIGIBLE"
           /\ Becomes(s, "PAID_OUT", settlement[s].net, "RECOVERY_OFFSET")
           /\ Debit(s, n) /\ recoverable' = recoverable - n
  <2>1. "PAID_OUT" \in Statuses /\ "RECOVERY_OFFSET" \in Methods
    BY DEF Statuses, Paid, Methods
  <2>2. settlement' \in [Settlements -> SettlementRows] /\ MovesTo(s, "PAID_OUT", "RECOVERY_OFFSET")
    BY <1>1, <1>6, <2>1, MoveToStatus DEF Typed
  <2>3. /\ payable' \in [Settlements -> Int] /\ payable'[s] = payable[s] - n
        /\ \A t \in Settlements \ {s} : payable'[t] = payable[t]
    BY <1>1, <1>2, <1>6, DebitStores DEF Typed
  <2>4. RowsOK'
    BY <1>2, <1>3, <1>4, <1>6, <2>2, <2>3 DEF RowsOK, Typed
  <2>5. QED BY <1>1, <1>2, <1>3, <1>4, <1>5, <1>6, <2>2, <2>3, <2>4, WorldKept DEF Typed
<1>7. CASE Status(s) # "ELIGIBLE" /\ UNCHANGED <<settlement, payable, recoverable>>
  <2>1. RowsOK'
    BY <1>3, <1>4, <1>7 DEF RowsOK, Typed
  <2>2. QED BY <1>1, <1>2, <1>3, <1>4, <1>5, <1>7, <2>1, WorldKept DEF Typed
<1>8. QED BY <1>6, <1>7 DEF Withhold, MayBecome

LEMMA ClaimTyped ==
  ASSUME Typed, NEW c \in Callers, Claim(c)
  PROVE  /\ Typed' /\ Only(c) /\ UNCHANGED <<payout, recoveries, payable, recoverable, World>>
         /\ call[c].pc = "claim"
         /\ \/ /\ Status(call[c].s) = "ELIGIBLE"
               /\ MovesTo(call[c].s, "TRANSFER_PENDING", "STRIPE_CONNECT")
               /\ call'[c] = [call[c] EXCEPT !.pc = "row"]
            \/ Status(call[c].s) # "ELIGIBLE" /\ UNCHANGED settlement /\ call'[c] = Idle
<1> DEFINE s == call[c].s
<1>1. call[c] \in Calls /\ s \in Settlements /\ call[c].pc = "claim"
  BY DEF Claim, Typed, CallsOK
<1>2. UNCHANGED <<payout, recoveries, payable, recoverable, World>>
  BY DEF Claim, World
<1>3. CASE /\ Status(s) = "ELIGIBLE"
           /\ Becomes(s, "TRANSFER_PENDING", settlement[s].net, "STRIPE_CONNECT")
           /\ MoveTo(c, "row")
  <2>1. "TRANSFER_PENDING" \in Statuses /\ "STRIPE_CONNECT" \in Methods /\ "row" \in PCs
    BY DEF Statuses, Outstanding, Methods, PCs, Transferring
  <2>2. /\ settlement' \in [Settlements -> SettlementRows]
        /\ MovesTo(s, "TRANSFER_PENDING", "STRIPE_CONNECT")
    BY <1>1, <1>3, <2>1, MoveToStatus DEF Typed
  <2>3. CallsOK' /\ Only(c) /\ call'[c] = [call[c] EXCEPT !.pc = "row"]
    BY <1>1, <1>3, <2>1, Moved DEF Typed
  <2>4. RowsOK'
    BY <1>2, <2>2 DEF RowsOK, Typed
  <2>5. QED BY <1>1, <1>2, <1>3, <2>2, <2>3, <2>4, WorldKept DEF Typed
<1>4. CASE Status(s) # "ELIGIBLE" /\ Finish(c) /\ UNCHANGED settlement
  <2>1. CallsOK' /\ Only(c) /\ call'[c] = Idle
    BY <1>4, Finished DEF Typed
  <2>2. RowsOK'
    BY <1>2, <1>4 DEF RowsOK, Typed
  <2>3. QED BY <1>1, <1>2, <1>4, <2>1, <2>2, WorldKept DEF Typed
<1>5. QED BY <1>3, <1>4 DEF Claim, MayBecome

LEMMA TransferRowTyped ==
  ASSUME Typed, NEW c \in Callers, TransferRow(c)
  PROVE  /\ Typed' /\ Only(c)
         /\ UNCHANGED <<settlement, recoveries, payable, recoverable, World>>
         /\ call[c].pc = "row"
         /\ \/ UNCHANGED payout /\ call'[c] = Idle
            \/ /\ call'[c] = [call[c] EXCEPT !.pc = "send"]
               /\ payout' = [payout EXCEPT ![call[c].s].provider = "STRIPE_CONNECT",
                                           ![call[c].s].status = "PENDING",
                                           ![call[c].s].amount = call[c].amount]
<1> DEFINE s == call[c].s
           n == call[c].amount
<1>1. call[c] \in Calls /\ s \in Settlements /\ call[c].pc = "row"
  BY DEF TransferRow, Typed, CallsOK
<1>2. n \in Int
  BY <1>1 DEF Calls
<1>3. UNCHANGED <<settlement, recoveries, payable, recoverable, World>>
  BY DEF TransferRow, World
<1>4. CASE Finish(c) /\ UNCHANGED payout
  <2>1. CallsOK' /\ Only(c) /\ call'[c] = Idle
    BY <1>4, Finished DEF Typed
  <2>2. RowsOK'
    BY <1>3, <1>4 DEF RowsOK, Typed
  <2>3. QED BY <1>1, <1>3, <1>4, <2>1, <2>2, WorldKept DEF Typed
<1>5. CASE /\ payout' = [payout EXCEPT ![s].provider = "STRIPE_CONNECT", ![s].status = "PENDING",
                                       ![s].amount = n]
           /\ MoveTo(c, "send")
  <2>1. "send" \in PCs
    BY DEF PCs, Transferring
  <2>2. CallsOK' /\ Only(c) /\ call'[c] = [call[c] EXCEPT !.pc = "send"]
    BY <1>1, <1>5, <2>1, Moved DEF Typed
  <2>3. payout' \in [Settlements -> PayoutRows]
    <3> HIDE DEF s, n
    <3>1. payout \in [Settlements -> PayoutRows]
      BY DEF Typed, RowsOK
    <3>2. [payout[s] EXCEPT !.provider = "STRIPE_CONNECT", !.status = "PENDING", !.amount = n]
            \in PayoutRows
      BY <1>1, <1>2, <3>1 DEF PayoutRows, PayoutStatuses
    <3>3. QED BY <1>1, <1>5, <3>1, <3>2
  <2>4. RowsOK'
    BY <1>3, <2>3 DEF RowsOK, Typed
  <2>5. QED BY <1>1, <1>3, <1>5, <2>2, <2>4, WorldKept DEF Typed
<1>6. QED BY <1>4, <1>5 DEF TransferRow

LEMMA SendTyped ==
  ASSUME Typed, NEW c \in Callers, Send(c)
  PROVE  /\ Typed' /\ Only(c) /\ UNCHANGED <<Rows, events, refund, mirrored>>
         /\ call[c].pc = "send"
         /\ \/ UNCHANGED stripe
            \/ /\ stripe.sent[call[c].s] <= 0
               /\ stripe'.sent = [stripe.sent EXCEPT ![call[c].s] = call[c].amount]
               /\ stripe'.where = [stripe.where EXCEPT ![call[c].s] = "balance"]
               /\ \A f \in {"reversals", "refunds", "lost", "guessed"} : stripe'[f] = stripe[f]
         /\ \/ call'[c] = Idle
            \/ call'[c] = [call[c] EXCEPT !.pc = "failed"] /\ UNCHANGED stripe
            \/ /\ call'[c] = [call[c] EXCEPT !.pc = "sent"]
               /\ stripe.sent[call[c].s] > 0 => UNCHANGED stripe
               /\ stripe.sent[call[c].s] <= 0 => stripe'.sent[call[c].s] = call[c].amount
<1> DEFINE s == call[c].s
           n == call[c].amount
           new == [stripe EXCEPT !.sent[s] = n, !.where[s] = "balance"]
<1>1. call[c] \in Calls /\ s \in Settlements /\ call[c].pc = "send"
  BY DEF Send, Typed, CallsOK
<1>2. n \in Int /\ stripe \in StripeStates
  BY <1>1 DEF Calls, Typed, StripeOK
<1>3. stripe.sent[s] \in Int
  BY <1>1, <1>2 DEF StripeStates
<1>4. UNCHANGED <<Rows, events, refund, mirrored>>
  BY DEF Send, Rows
<1>5. /\ new \in StripeStates
      /\ new.sent = [stripe.sent EXCEPT ![s] = n] /\ new.sent[s] = n
      /\ new.where = [stripe.where EXCEPT ![s] = "balance"]
      /\ \A f \in {"reversals", "refunds", "lost", "guessed"} : new[f] = stripe[f]
  BY <1>1, <1>2 DEF StripeStates, Places
<1>6. \/ UNCHANGED stripe
      \/ stripe.sent[s] <= 0 /\ stripe' = new
  BY <1>3 DEF Send
<1>7. \/ Finish(c)
      \/ MoveTo(c, "failed") /\ UNCHANGED stripe
      \/ /\ MoveTo(c, "sent")
         /\ stripe.sent[s] > 0 => UNCHANGED stripe
         /\ stripe.sent[s] <= 0 => stripe' = new
  BY <1>3 DEF Send
<1>8. "failed" \in PCs /\ "sent" \in PCs
  BY DEF PCs, Transferring
<1>9. /\ CallsOK' /\ Only(c)
      /\ \/ call'[c] = Idle
         \/ call'[c] = [call[c] EXCEPT !.pc = "failed"] /\ UNCHANGED stripe
         \/ /\ call'[c] = [call[c] EXCEPT !.pc = "sent"]
            /\ stripe.sent[s] > 0 => UNCHANGED stripe
            /\ stripe.sent[s] <= 0 => stripe' = new
  <2> HIDE DEF new
  <2>1. CASE Finish(c)
    BY <2>1, Finished DEF Typed
  <2>2. CASE MoveTo(c, "failed") /\ UNCHANGED stripe
    BY <1>1, <1>8, <2>2, Moved DEF Typed
  <2>3. CASE /\ MoveTo(c, "sent")
             /\ stripe.sent[s] > 0 => UNCHANGED stripe
             /\ stripe.sent[s] <= 0 => stripe' = new
    BY <1>1, <1>8, <2>3, Moved DEF Typed
  <2>4. QED BY <1>7, <2>1, <2>2, <2>3
<1> HIDE DEF new
<1>10. StripeOK'
  <2>1. stripe' \in StripeStates
    BY <1>2, <1>5, <1>6
  <2>2. stripe'.reversals = stripe.reversals
    <3>1. new["reversals"] = stripe["reversals"]
      BY <1>5
    <3>2. QED BY <1>6, <3>1
  <2>3. QED BY <1>4, <2>1, <2>2 DEF StripeOK, Typed
<1>11. Typed'
  BY <1>4, <1>9, <1>10, RowsKept DEF Typed
<1>12. \/ UNCHANGED stripe
       \/ /\ stripe.sent[s] <= 0
          /\ stripe'.sent = [stripe.sent EXCEPT ![s] = n]
          /\ stripe'.where = [stripe.where EXCEPT ![s] = "balance"]
          /\ \A f \in {"reversals", "refunds", "lost", "guessed"} : stripe'[f] = stripe[f]
  BY <1>5, <1>6
<1>13. QED BY <1>1, <1>4, <1>5, <1>9, <1>11, <1>12

LEMMA SentTyped ==
  ASSUME Typed, RecoveryInv, NEW c \in Callers, Sent(c)
  PROVE  /\ Typed' /\ RecoveryInv' /\ Only(c) /\ UNCHANGED World
         /\ call[c].pc = "sent" /\ call'[c] = Idle
         /\ call[c].offset \in Int /\ call[c].amount \in Int
         /\ payout' = [payout EXCEPT ![call[c].s].status = "TRANSFERRED", ![call[c].s].sent = TRUE]
         /\ recoveries' = Credited(call[c].offset)
         /\ recoverable' = recoverable - call[c].offset
         /\ \A t \in Settlements \ {call[c].s} : payable'[t] = payable[t]
         /\ \/ /\ Status(call[c].s) = "TRANSFER_PENDING"
               /\ MovesTo(call[c].s, "TRANSFERRED", settlement[call[c].s].method)
               /\ payable'[call[c].s] = payable[call[c].s] - (call[c].offset + call[c].amount)
            \/ Status(call[c].s) # "TRANSFER_PENDING" /\ UNCHANGED settlement
<1> DEFINE s == call[c].s
           offset == call[c].offset
           amount == call[c].amount
           moves == MayBecome(s, {"TRANSFER_PENDING"}, "TRANSFERRED")
<1>1. call[c] \in Calls /\ s \in Settlements /\ call[c].pc = "sent"
  BY DEF Sent, Typed, CallsOK
<1>2. offset \in Int /\ amount \in Int
  BY <1>1 DEF Calls
<1>3. /\ UNCHANGED World /\ recoveries' = Credited(offset)
      /\ recoverable' = recoverable - offset
      /\ payout' = [payout EXCEPT ![s].status = "TRANSFERRED", ![s].sent = TRUE]
  BY DEF Sent, World
<1>4. recoveries' \in Seq(RecoveryRows) /\ RecoveryInv'
  BY <1>2, <1>3, CreditedRows DEF RecoveryInv, Typed
<1>5. CallsOK' /\ Only(c) /\ call'[c] = Idle
  BY Finished DEF Sent, Typed
<1>6. payout' \in [Settlements -> PayoutRows]
  <2> HIDE DEF s, offset, amount
  <2>1. payout \in [Settlements -> PayoutRows]
    BY DEF Typed, RowsOK
  <2>2. [payout[s] EXCEPT !.status = "TRANSFERRED", !.sent = TRUE] \in PayoutRows
    BY <1>1, <2>1 DEF PayoutRows, PayoutStatuses
  <2>3. QED BY <1>1, <1>3, <2>1, <2>2
<1>7. recoverable' \in Int
  BY <1>2, <1>3 DEF Typed, RowsOK
<1>8. moves <=> Status(s) = "TRANSFER_PENDING"
  BY DEF MayBecome
<1>9. CASE /\ Status(s) = "TRANSFER_PENDING"
           /\ Becomes(s, "TRANSFERRED", settlement[s].net, settlement[s].method)
           /\ Debit(s, offset + amount)
  <2>1. "TRANSFERRED" \in Statuses /\ settlement[s].method \in Methods
    BY <1>1 DEF Statuses, Paid, Typed, RowsOK, SettlementRows
  <2>2. /\ settlement' \in [Settlements -> SettlementRows]
        /\ MovesTo(s, "TRANSFERRED", settlement[s].method)
    BY <1>1, <1>9, <2>1, MoveToStatus DEF Typed
  <2>3. offset + amount \in Int
    BY <1>2
  <2>4. /\ payable' \in [Settlements -> Int] /\ payable'[s] = payable[s] - (offset + amount)
        /\ \A t \in Settlements \ {s} : payable'[t] = payable[t]
    BY <1>1, <1>9, <2>3, DebitStores DEF Typed
  <2>5. RowsOK'
    BY <1>4, <1>6, <1>7, <2>2, <2>4 DEF RowsOK
  <2>6. QED BY <1>1, <1>2, <1>3, <1>4, <1>5, <1>9, <2>2, <2>4, <2>5, WorldKept DEF Typed
<1>10. CASE /\ Status(s) # "TRANSFER_PENDING"
            /\ UNCHANGED settlement
            /\ Debit(s, offset)
  <2>1. /\ payable' \in [Settlements -> Int]
        /\ \A t \in Settlements \ {s} : payable'[t] = payable[t]
    BY <1>1, <1>2, <1>10, DebitStores DEF Typed
  <2>2. RowsOK'
    BY <1>4, <1>6, <1>7, <1>10, <2>1 DEF RowsOK, Typed
  <2>3. QED BY <1>1, <1>2, <1>3, <1>4, <1>5, <1>10, <2>1, <2>2, WorldKept DEF Typed
<1>11. QED
  <2>1. /\ IF moves THEN Becomes(s, "TRANSFERRED", settlement[s].net, settlement[s].method)
                    ELSE UNCHANGED settlement
        /\ Debit(s, offset + IF moves THEN amount ELSE 0)
    BY Zenon DEF Sent
  <2> HIDE DEF moves, offset, amount, s
  <2>2. CASE Status(s) = "TRANSFER_PENDING"
    BY <1>8, <1>9, <2>1, <2>2
  <2>3. CASE Status(s) # "TRANSFER_PENDING"
    <3>1. offset + 0 = offset
      BY <1>2
    <3>2. Debit(s, offset)
      BY <1>8, <2>1, <2>3, <3>1
    <3>3. QED BY <1>8, <1>10, <2>1, <2>3, <3>2
  <2>4. QED BY <2>2, <2>3

LEMMA FailedTyped ==
  ASSUME Typed, NEW c \in Callers, Failed(c)
  PROVE  /\ Typed' /\ Only(c)
         /\ UNCHANGED <<settlement, recoveries, payable, recoverable, World>>
         /\ call[c].pc = "failed" /\ call'[c] = [call[c] EXCEPT !.pc = "giveUp"]
         /\ payout' = [payout EXCEPT ![call[c].s].status = "FAILED"]
<1> DEFINE s == call[c].s
<1>1. call[c] \in Calls /\ s \in Settlements /\ call[c].pc = "failed"
  BY DEF Failed, Typed, CallsOK
<1>2. /\ UNCHANGED <<settlement, recoveries, payable, recoverable, World>>
      /\ payout' = [payout EXCEPT ![s].status = "FAILED"]
  BY DEF Failed, World
<1>3. payout' \in [Settlements -> PayoutRows]
  <2> HIDE DEF s
  <2>1. payout \in [Settlements -> PayoutRows]
    BY DEF Typed, RowsOK
  <2>2. [payout[s] EXCEPT !.status = "FAILED"] \in PayoutRows
    BY <1>1, <2>1 DEF PayoutRows, PayoutStatuses
  <2>3. QED BY <1>1, <1>2, <2>1, <2>2
<1>4. "giveUp" \in PCs
  BY DEF PCs, Transferring
<1>5. CallsOK' /\ Only(c) /\ call'[c] = [call[c] EXCEPT !.pc = "giveUp"]
  BY <1>1, <1>4, Moved DEF Failed, Typed
<1>6. RowsOK'
  BY <1>2, <1>3 DEF RowsOK, Typed
<1>7. QED BY <1>1, <1>2, <1>5, <1>6, WorldKept DEF Typed

LEMMA GiveUpTyped ==
  ASSUME Typed, NEW c \in Callers, GiveUp(c)
  PROVE  /\ Typed' /\ Only(c) /\ UNCHANGED <<payout, recoveries, payable, recoverable, World>>
         /\ call[c].pc = "giveUp" /\ call'[c] = Idle
         /\ \/ /\ Status(call[c].s) = "TRANSFER_PENDING"
               /\ MovesTo(call[c].s, "TRANSFER_FAILED", settlement[call[c].s].method)
            \/ Status(call[c].s) # "TRANSFER_PENDING" /\ UNCHANGED settlement
<1> DEFINE s == call[c].s
<1>1. call[c] \in Calls /\ s \in Settlements /\ call[c].pc = "giveUp"
  BY DEF GiveUp, Typed, CallsOK
<1>2. UNCHANGED <<payout, recoveries, payable, recoverable, World>>
  BY DEF GiveUp, World
<1>3. CallsOK' /\ Only(c) /\ call'[c] = Idle
  BY Finished DEF GiveUp, Typed
<1>4. CASE /\ Status(s) = "TRANSFER_PENDING"
           /\ Becomes(s, "TRANSFER_FAILED", settlement[s].net, settlement[s].method)
  <2>1. "TRANSFER_FAILED" \in Statuses /\ settlement[s].method \in Methods
    BY <1>1 DEF Statuses, Outstanding, Typed, RowsOK, SettlementRows
  <2>2. /\ settlement' \in [Settlements -> SettlementRows]
        /\ MovesTo(s, "TRANSFER_FAILED", settlement[s].method)
    BY <1>1, <1>4, <2>1, MoveToStatus DEF Typed
  <2>3. RowsOK'
    BY <1>2, <2>2 DEF RowsOK, Typed
  <2>4. QED BY <1>1, <1>2, <1>3, <1>4, <2>2, <2>3, WorldKept DEF Typed
<1>5. CASE Status(s) # "TRANSFER_PENDING" /\ UNCHANGED settlement
  <2>1. RowsOK'
    BY <1>2, <1>5 DEF RowsOK, Typed
  <2>2. QED BY <1>1, <1>2, <1>3, <1>5, <2>1, WorldKept DEF Typed
<1>6. QED BY <1>4, <1>5 DEF GiveUp, MayBecome

LEMMA ManualReadTyped ==
  ASSUME Typed, NEW c \in Callers, NEW s \in Settlements, ManualRead(c, s)
  PROVE  /\ Typed' /\ Only(c) /\ UNCHANGED <<Rows, World>>
         /\ call[c].pc = "idle" /\ Status(s) \in {"ELIGIBLE", "TRANSFER_FAILED"}
         /\ call'[c].pc = "manualRow" /\ call'[c].s = s /\ call'[c].net = settlement[s].net
<1> DEFINE new == [Idle EXCEPT !.pc = "manualRow", !.s = s, !.net = settlement[s].net]
<1>1. Start(c, new) /\ Status(s) \in {"ELIGIBLE", "TRANSFER_FAILED"}
  BY Zenon DEF ManualRead
<1>2. settlement[s].net \in Int /\ "manualRow" \in Others
  BY DEF Typed, RowsOK, SettlementRows, Others
<1>3. new \in Calls /\ new.pc = "manualRow" /\ new.s = s /\ new.net = settlement[s].net
  BY <1>2, IdleTyped DEF Calls
<1> HIDE DEF new
<1>4. CallsOK' /\ Only(c) /\ call'[c] = new /\ call[c].pc = "idle"
  BY <1>1, <1>3, Started DEF Typed
<1>5. UNCHANGED <<Rows, World>>
  BY DEF ManualRead, Rows, World
<1>6. QED BY <1>1, <1>3, <1>4, <1>5, RowsKept, WorldKept DEF Typed

LEMMA ManualRowTyped ==
  ASSUME Typed, NEW c \in Callers, ManualRow(c)
  PROVE  /\ Typed' /\ Only(c)
         /\ UNCHANGED <<settlement, recoveries, payable, recoverable, World>>
         /\ call[c].pc = "manualRow"
         /\ \/ call'[c] = Idle /\ UNCHANGED payout
            \/ /\ call'[c] = [call[c] EXCEPT !.pc = "manual"]
               /\ \/ UNCHANGED payout
                  \/ /\ payout[call[c].s].provider = "none"
                     /\ payout' = [payout EXCEPT ![call[c].s].provider = "MANUAL",
                                                 ![call[c].s].status = "PAID_OUT",
                                                 ![call[c].s].amount = call[c].net]
<1> DEFINE s == call[c].s
           n == call[c].net
<1>1. call[c] \in Calls /\ s \in Settlements /\ call[c].pc = "manualRow"
  BY DEF ManualRow, Typed, CallsOK
<1>2. n \in Int
  BY <1>1 DEF Calls
<1>3. UNCHANGED <<settlement, recoveries, payable, recoverable, World>>
  BY DEF ManualRow, World
<1>4. \/ Finish(c) /\ UNCHANGED payout
      \/ /\ MoveTo(c, "manual")
         /\ \/ UNCHANGED payout
            \/ /\ payout[s].provider = "none"
               /\ payout' = [payout EXCEPT ![s].provider = "MANUAL", ![s].status = "PAID_OUT",
                                           ![s].amount = n]
  BY DEF ManualRow
<1>5. payout' \in [Settlements -> PayoutRows]
  <2> HIDE DEF s, n
  <2>1. payout \in [Settlements -> PayoutRows]
    BY DEF Typed, RowsOK
  <2>2. [payout[s] EXCEPT !.provider = "MANUAL", !.status = "PAID_OUT", !.amount = n] \in PayoutRows
    BY <1>1, <1>2, <2>1 DEF PayoutRows, PayoutStatuses
  <2>3. CASE UNCHANGED payout
    BY <2>1, <2>3
  <2>4. CASE payout' = [payout EXCEPT ![s].provider = "MANUAL", ![s].status = "PAID_OUT",
                                      ![s].amount = n]
    BY <1>1, <2>1, <2>2, <2>4
  <2>5. QED BY <1>4, <2>3, <2>4
<1>6. "manual" \in PCs
  BY DEF PCs, Others
<1>7. /\ CallsOK' /\ Only(c)
      /\ Finish(c) => call'[c] = Idle
      /\ MoveTo(c, "manual") => call'[c] = [call[c] EXCEPT !.pc = "manual"]
  <2>1. CASE Finish(c)
    <3>1. CallsOK' /\ Only(c) /\ call'[c] = Idle
      BY <2>1, Finished DEF Typed
    <3>2. MoveTo(c, "manual") => call'[c] = [call[c] EXCEPT !.pc = "manual"]
      BY <1>1, <1>6, Moved DEF Typed
    <3>3. QED BY <3>1, <3>2
  <2>2. CASE MoveTo(c, "manual")
    <3>1. CallsOK' /\ Only(c) /\ call'[c] = [call[c] EXCEPT !.pc = "manual"]
      BY <1>1, <1>6, <2>2, Moved DEF Typed
    <3>2. Finish(c) => call'[c] = Idle
      BY Finished DEF Typed
    <3>3. QED BY <3>1, <3>2
  <2>3. QED BY <1>4, <2>1, <2>2
<1>8. RowsOK'
  BY <1>3, <1>5 DEF RowsOK, Typed
<1>9. Typed'
  BY <1>3, <1>7, <1>8, WorldKept DEF Typed
<1>10. QED BY <1>1, <1>3, <1>4, <1>7, <1>9

LEMMA ManualTyped ==
  ASSUME Typed, NEW c \in Callers, Manual(c)
  PROVE  /\ Typed' /\ Only(c) /\ UNCHANGED <<payout, recoveries, recoverable, World>>
         /\ call[c].pc = "manual" /\ call'[c] = Idle /\ call[c].net \in Int
         /\ \/ /\ Status(call[c].s) \in {"ELIGIBLE", "TRANSFER_FAILED"}
               /\ MovesTo(call[c].s, "PAID_OUT", "MANUAL")
               /\ payable'[call[c].s] = payable[call[c].s] - call[c].net
               /\ \A t \in Settlements \ {call[c].s} : payable'[t] = payable[t]
            \/ UNCHANGED <<settlement, payable>>
<1> DEFINE s == call[c].s
           n == call[c].net
<1>1. call[c] \in Calls /\ s \in Settlements /\ call[c].pc = "manual"
  BY DEF Manual, Typed, CallsOK
<1>2. n \in Int
  BY <1>1 DEF Calls
<1>3. UNCHANGED <<payout, recoveries, recoverable, World>>
  BY DEF Manual, World
<1>4. CallsOK' /\ Only(c) /\ call'[c] = Idle
  BY Finished DEF Manual, Typed
<1>5. CASE /\ Status(s) \in {"ELIGIBLE", "TRANSFER_FAILED"}
           /\ Becomes(s, "PAID_OUT", settlement[s].net, "MANUAL") /\ Debit(s, n)
  <2>1. "PAID_OUT" \in Statuses /\ "MANUAL" \in Methods
    BY DEF Statuses, Paid, Methods
  <2>2. settlement' \in [Settlements -> SettlementRows] /\ MovesTo(s, "PAID_OUT", "MANUAL")
    BY <1>1, <1>5, <2>1, MoveToStatus DEF Typed
  <2>3. /\ payable' \in [Settlements -> Int] /\ payable'[s] = payable[s] - n
        /\ \A t \in Settlements \ {s} : payable'[t] = payable[t]
    BY <1>1, <1>2, <1>5, DebitStores DEF Typed
  <2>4. RowsOK'
    BY <1>3, <2>2, <2>3 DEF RowsOK, Typed
  <2>5. QED BY <1>1, <1>2, <1>3, <1>4, <1>5, <2>2, <2>3, <2>4, WorldKept DEF Typed
<1>6. CASE UNCHANGED <<settlement, payable>>
  <2>1. RowsOK'
    BY <1>3, <1>6 DEF RowsOK, Typed
  <2>2. QED BY <1>1, <1>2, <1>3, <1>4, <1>6, <2>1, WorldKept DEF Typed
<1>7. QED BY <1>5, <1>6 DEF Manual, MayBecome

LEMMA PayoutPaidTyped ==
  ASSUME Typed, NEW c \in Callers, NEW e \in events, PayoutPaid(c, e)
  PROVE  /\ Typed' /\ Only(c) /\ UNCHANGED <<Rows, events, refund, mirrored>>
         /\ call[c].pc = "idle" /\ e.kind = "payout" /\ e.full
         /\ call'[c].pc = "payout" /\ call'[c].todo \subseteq Settlements
         /\ \A f \in {"sent", "reversals", "where", "refunds", "lost"} : stripe'[f] = stripe[f]
         /\ \/ call'[c].todo \subseteq {e.s} /\ UNCHANGED stripe
            \/ stripe'.guessed
<1>1. e \in Events /\ e.s \in Settlements
  BY DEF Typed, StripeOK, Events
<1>2. PICK todo \in SUBSET Settlements :
        /\ Start(c, [Idle EXCEPT !.pc = "payout", !.s = e.s, !.todo = todo, !.event = e])
        /\ \/ todo \subseteq {e.s} /\ UNCHANGED stripe
           \/ stripe' = [stripe EXCEPT !.guessed = TRUE]
  <2>1. CASE /\ Start(c, [Idle EXCEPT !.pc = "payout", !.s = e.s, !.todo = Attributed(e.s),
                                      !.event = e])
             /\ UNCHANGED stripe
    BY <1>1, <2>1 DEF Attributed, Listed
  <2>2. CASE /\ Start(c, [Idle EXCEPT !.pc = "payout", !.s = e.s, !.todo = Waiting, !.event = e])
             /\ stripe' = [stripe EXCEPT !.guessed = TRUE]
    BY <2>2 DEF Waiting
  <2>3. QED BY <2>1, <2>2 DEF PayoutPaid
<1> DEFINE new == [Idle EXCEPT !.pc = "payout", !.s = e.s, !.todo = todo, !.event = e]
<1>3. new \in Calls /\ new.pc = "payout" /\ new.s = e.s /\ new.todo = todo
  <2>1. "payout" \in Attributing
    BY DEF Attributing
  <2>2. todo \in SUBSET (Refunds \cup Settlements)
    OBVIOUS
  <2>3. QED BY <1>1, <2>1, <2>2, IdleTyped DEF Calls
<1> HIDE DEF new
<1>4. CallsOK' /\ Only(c) /\ call'[c] = new /\ call[c].pc = "idle"
  BY <1>1, <1>2, <1>3, Started DEF Typed, new
<1>5. UNCHANGED <<Rows, events, refund, mirrored>> /\ e.kind = "payout" /\ e.full
  BY DEF PayoutPaid, Rows
<1>6. /\ stripe' \in StripeStates
      /\ \A f \in {"sent", "reversals", "where", "refunds", "lost"} : stripe'[f] = stripe[f]
      /\ UNCHANGED stripe \/ stripe'.guessed
  <2>1. stripe \in StripeStates
    BY DEF Typed, StripeOK
  <2>2. CASE UNCHANGED stripe
    BY <2>1, <2>2
  <2>3. CASE stripe' = [stripe EXCEPT !.guessed = TRUE]
    BY <2>1, <2>3 DEF StripeStates
  <2>4. QED BY <1>2, <2>2, <2>3
<1>7. stripe'.reversals = stripe.reversals
  <2>1. stripe'["reversals"] = stripe["reversals"]
    BY <1>6
  <2>2. QED BY <2>1
<1>8. StripeOK'
  BY <1>5, <1>6, <1>7 DEF StripeOK, Typed
<1>9. Typed'
  BY <1>4, <1>5, <1>8, RowsKept DEF Typed
<1>10. \/ todo \subseteq {e.s} /\ UNCHANGED stripe
       \/ stripe'.guessed
  <2>1. stripe \in StripeStates
    BY DEF Typed, StripeOK
  <2>2. CASE stripe' = [stripe EXCEPT !.guessed = TRUE]
    BY <2>1, <2>2 DEF StripeStates
  <2>3. QED BY <1>2, <2>2
<1>11. QED BY <1>3, <1>4, <1>5, <1>6, <1>9, <1>10

LEMMA PayoutRowTyped ==
  ASSUME Typed, NEW c \in Callers, NEW s \in Settlements, PayoutRow(c, s)
  PROVE  /\ Typed' /\ Only(c)
         /\ UNCHANGED <<settlement, recoveries, payable, recoverable, World>>
         /\ call[c].pc = "payout" /\ s \in call[c].todo
         /\ call'[c].pc = "paid" /\ call'[c].s = s /\ call'[c].todo = call[c].todo
         /\ payout' = [payout EXCEPT ![s].status = "PAID_OUT", ![s].bank = TRUE]
<1> DEFINE new == [call[c] EXCEPT !.pc = "paid", !.s = s]
<1>1. call[c] \in Calls /\ call[c].pc = "payout" /\ s \in call[c].todo
  BY DEF PayoutRow, Typed, CallsOK
<1>2. new \in Calls /\ new.pc = "paid" /\ new.s = s /\ new.todo = call[c].todo
  <2>1. "paid" \in Attributing
    BY DEF Attributing
  <2>2. QED BY <1>1, <2>1 DEF Calls
<1>3. call' = [call EXCEPT ![c] = new]
  BY DEF PayoutRow
<1>4. /\ UNCHANGED <<settlement, recoveries, payable, recoverable, World>>
      /\ payout' = [payout EXCEPT ![s].status = "PAID_OUT", ![s].bank = TRUE]
  BY DEF PayoutRow, World
<1>5. payout' \in [Settlements -> PayoutRows]
  <2>1. payout \in [Settlements -> PayoutRows]
    BY DEF Typed, RowsOK
  <2>2. [payout[s] EXCEPT !.status = "PAID_OUT", !.bank = TRUE] \in PayoutRows
    BY <2>1 DEF PayoutRows, PayoutStatuses
  <2>3. QED BY <1>4, <2>1, <2>2
<1> HIDE DEF new
<1>6. CallsOK' /\ Only(c) /\ call'[c] = new
  BY <1>2, <1>3, Stored DEF Typed
<1>7. RowsOK'
  BY <1>4, <1>5 DEF RowsOK, Typed
<1>8. QED BY <1>1, <1>2, <1>4, <1>6, <1>7, WorldKept DEF Typed

LEMMA PayoutMoveTyped ==
  ASSUME Typed, NEW c \in Callers, PayoutMove(c)
  PROVE  /\ Typed' /\ Only(c) /\ UNCHANGED <<payout, recoveries, payable, recoverable, World>>
         /\ call[c].pc = "paid" /\ call'[c].pc = "payout"
         /\ call'[c].todo \subseteq call[c].todo
         /\ \/ /\ Status(call[c].s) = "TRANSFERRED"
               /\ MovesTo(call[c].s, "PAID_OUT", settlement[call[c].s].method)
            \/ UNCHANGED settlement
<1> DEFINE s == call[c].s
           new == [call[c] EXCEPT !.pc = "payout", !.todo = @ \ {s}]
<1>1. call[c] \in Calls /\ s \in Settlements /\ call[c].pc = "paid"
  BY DEF PayoutMove, Typed, CallsOK
<1>2. new \in Calls /\ new.pc = "payout" /\ new.todo \subseteq call[c].todo /\ new.s \in Settlements
  <2>1. "payout" \in Attributing
    BY DEF Attributing
  <2>2. PICK todo \in SUBSET (Refunds \cup Settlements) :
          todo = call[c].todo \ {s} /\ todo \subseteq call[c].todo
    BY <1>1 DEF Calls
  <2>3. new = [call[c] EXCEPT !.pc = "payout", !.todo = todo]
    BY <2>2
  <2> HIDE DEF new
  <2>4. QED BY <1>1, <2>1, <2>2, <2>3 DEF Calls
<1>3. call' = [call EXCEPT ![c] = new]
  BY DEF PayoutMove
<1>4. UNCHANGED <<payout, recoveries, payable, recoverable, World>>
  BY DEF PayoutMove, World
<1>5. \/ /\ Status(s) = "TRANSFERRED"
         /\ Becomes(s, "PAID_OUT", settlement[s].net, settlement[s].method)
      \/ UNCHANGED settlement
  BY DEF PayoutMove, MayBecome
<1> HIDE DEF new, s
<1>6. CallsOK' /\ Only(c) /\ call'[c] = new
  BY <1>2, <1>3, Stored DEF Typed
<1>7. /\ settlement' \in [Settlements -> SettlementRows]
      /\ \/ Status(s) = "TRANSFERRED" /\ MovesTo(s, "PAID_OUT", settlement[s].method)
         \/ UNCHANGED settlement
  <2>1. "PAID_OUT" \in Statuses /\ settlement[s].method \in Methods
    BY <1>1 DEF Statuses, Paid, Typed, RowsOK, SettlementRows
  <2>2. CASE UNCHANGED settlement
    BY <2>2 DEF Typed, RowsOK
  <2>3. CASE /\ Status(s) = "TRANSFERRED"
             /\ Becomes(s, "PAID_OUT", settlement[s].net, settlement[s].method)
    BY <1>1, <2>1, <2>3, MoveToStatus DEF Typed
  <2>4. QED BY <1>5, <2>2, <2>3
<1>8. RowsOK'
  BY <1>4, <1>7 DEF RowsOK, Typed
<1>9. QED BY <1>1, <1>2, <1>4, <1>6, <1>7, <1>8, WorldKept DEF Typed, s

LEMMA PayoutDoneTyped ==
  ASSUME Typed, NEW c \in Callers, PayoutDone(c)
  PROVE  /\ Typed' /\ Only(c) /\ UNCHANGED <<Rows, stripe, refund, mirrored>>
         /\ call'[c] = Idle /\ events' \subseteq events
<1>1. UNCHANGED <<Rows, stripe, refund, mirrored>> /\ events' \subseteq events
  BY DEF PayoutDone, Rows
<1>2. CallsOK' /\ Only(c) /\ call'[c] = Idle
  BY Finished DEF PayoutDone, Typed
<1>3. StripeOK'
  BY <1>1 DEF StripeOK, Typed
<1>4. QED BY <1>1, <1>2, <1>3, RowsKept DEF Typed

LEMMA DieTyped ==
  ASSUME Typed, NEW c \in Callers, Die(c)
  PROVE  /\ Typed' /\ Only(c) /\ UNCHANGED <<Rows, World>> /\ call'[c] = Idle
<1>1. UNCHANGED <<Rows, World>>
  BY DEF Die, Rows, World
<1>2. CallsOK' /\ Only(c) /\ call'[c] = Idle
  BY Finished DEF Die, Typed
<1>3. QED BY <1>1, <1>2, RowsKept, WorldKept DEF Typed

\* What a sale does to its settlement and to the ledger.
Booked(s) ==
  /\ Status(s) = "none"
  /\ \/ /\ settlement'[s] = [status |-> "PENDING", net |-> Price - SellerFee(Price), method |-> "none"]
        /\ payable'[s] = Price - SellerFee(Price)
     \/ /\ settlement'[s] = [status |-> "PAID_OUT", net |-> 0, method |-> "TRADEAUCT_OWNED"]
        /\ payable'[s] = payable[s]

Advanced(s) ==
  /\ \/ Status(s) = "PENDING" /\ MovesTo(s, "ON_HOLD", settlement[s].method)
     \/ Status(s) = "ON_HOLD" /\ MovesTo(s, "ELIGIBLE", settlement[s].method)
  /\ payable'[s] = payable[s]

Cancelled(s) ==
  /\ Status(s) = "PENDING"
  /\ settlement'[s] = [status |-> "CANCELLED", net |-> 0, method |-> settlement[s].method]
  /\ payable'[s] = payable[s]

LEMMA SalesMove ==
  ASSUME Typed, Sales
  PROVE  /\ Typed' /\ UNCHANGED <<payout, recoveries, recoverable, World, call>>
         /\ \E s \in Settlements :
              /\ Booked(s) \/ Advanced(s) \/ Cancelled(s)
              /\ \A t \in Settlements \ {s} :
                   settlement'[t] = settlement[t] /\ payable'[t] = payable[t]
<1>1. Typed'
  BY SalesTyped
<1>2. PICK s \in Settlements : Book(s) \/ Advance(s) \/ Cancel(s)
  BY DEF Sales
<1>3. UNCHANGED <<payout, recoveries, recoverable, World, call>>
  BY <1>2 DEF Book, Advance, Cancel, World
<1>4. \A t \in Settlements \ {s} : payable'[t] = payable[t]
  BY <1>2 DEF Book, Advance, Cancel, Typed, RowsOK
<1>5. /\ settlement[s].net \in Int /\ settlement[s].method \in Methods
      /\ "PENDING" \in Statuses /\ "ON_HOLD" \in Statuses /\ "ELIGIBLE" \in Statuses
      /\ "PAID_OUT" \in Statuses /\ "CANCELLED" \in Statuses
      /\ "none" \in Methods /\ "TRADEAUCT_OWNED" \in Methods
  BY DEF Statuses, Methods, Paid, Outstanding, Typed, RowsOK, SettlementRows
<1>6. CASE Book(s)
  <2>1. CASE /\ Becomes(s, "PENDING", Price - SellerFee(Price), "none")
             /\ payable' = [payable EXCEPT ![s] = Price - SellerFee(Price)]
    <3>1. Price - SellerFee(Price) \in Int
      BY FeeOfPrice
    <3>2. /\ settlement'[s] = [status |-> "PENDING", net |-> Price - SellerFee(Price), method |-> "none"]
          /\ \A t \in Settlements \ {s} : settlement'[t] = settlement[t]
      BY <1>5, <2>1, <3>1, BecomesStores DEF Typed
    <3>3. payable'[s] = Price - SellerFee(Price)
      BY <2>1 DEF Typed, RowsOK
    <3>4. QED BY <1>1, <1>3, <1>4, <1>6, <3>2, <3>3 DEF Booked, Book
  <2>2. CASE Becomes(s, "PAID_OUT", 0, "TRADEAUCT_OWNED") /\ UNCHANGED payable
    <3>1. /\ settlement'[s] = [status |-> "PAID_OUT", net |-> 0, method |-> "TRADEAUCT_OWNED"]
          /\ \A t \in Settlements \ {s} : settlement'[t] = settlement[t]
      BY <1>5, <2>2, BecomesStores DEF Typed
    <3>2. QED BY <1>1, <1>3, <1>4, <1>6, <2>2, <3>1 DEF Booked, Book
  <2>3. QED BY <1>6, <2>1, <2>2 DEF Book
<1>7. CASE Advance(s)
  <2>1. PICK st \in Statuses :
          /\ \/ Status(s) = "PENDING" /\ st = "ON_HOLD"
             \/ Status(s) = "ON_HOLD" /\ st = "ELIGIBLE"
          /\ Becomes(s, st, settlement[s].net, settlement[s].method)
          /\ UNCHANGED payable
    BY <1>5, <1>7 DEF Advance
  <2>2. MovesTo(s, st, settlement[s].method)
    BY <1>5, <2>1, MoveToStatus DEF Typed
  <2>3. QED BY <1>1, <1>3, <1>4, <2>1, <2>2 DEF Advanced, MovesTo
<1>8. CASE Cancel(s)
  <2>1. Becomes(s, "CANCELLED", 0, settlement[s].method) /\ Status(s) = "PENDING" /\ UNCHANGED payable
    BY <1>8 DEF Cancel, MayBecome
  <2>2. /\ settlement'[s] = [status |-> "CANCELLED", net |-> 0, method |-> settlement[s].method]
        /\ \A t \in Settlements \ {s} : settlement'[t] = settlement[t]
    BY <1>5, <2>1, BecomesStores DEF Typed
  <2>3. QED BY <1>1, <1>3, <1>4, <2>1, <2>2 DEF Cancelled
<1>9. QED BY <1>2, <1>6, <1>7, <1>8

\* What Stripe and its events do.
DashboardGave(i) ==
  \E e \in Events :
    /\ e.kind = "refund" /\ e.s = i[1] /\ Status(i[1]) # "none"
    /\ Unused(i) /\ UNCHANGED payout
    /\ events' = events \cup {e}
    /\ \A j \in Refunds \ {i} : stripe'.refunds[j] = stripe.refunds[j]
    /\ \A f \in {"sent", "reversals", "where", "lost", "guessed"} : stripe'[f] = stripe[f]

BankMoved(s) ==
  \E e \in Events :
    /\ e.kind = "payout" /\ e.s = s
    /\ UNCHANGED payout /\ events' = events \cup {e}
    /\ \A f \in {"sent", "reversals", "refunds", "lost", "guessed"} : stripe'[f] = stripe[f]
    /\ \A t \in Settlements \ {s} : stripe'.where[t] = stripe.where[t]
    /\ \/ /\ stripe.where[s] = "balance" /\ stripe'.where[s] = "bank"
          /\ ReversedAt(s) < stripe.sent[s]
       \/ stripe.where[s] = "bank" /\ stripe'.where[s] = "bounced" /\ ~ e.full

TransferTold(e) ==
  /\ e.kind = "transfer" /\ UNCHANGED stripe /\ events' \subseteq events
  /\ \/ UNCHANGED payout
     \/ /\ payout[e.s].sent
        /\ \E st \in PayoutStatuses :
             payout' = [payout EXCEPT ![e.s].reversed = e.amount, ![e.s].status = st]

BounceTold(e) ==
  /\ e.kind = "payout" /\ UNCHANGED stripe /\ events' \subseteq events
  /\ UNCHANGED payout \/ payout' = [payout EXCEPT ![e.s].status = "TRANSFERRED"]

LEMMA StripeMoves ==
  ASSUME Typed, Stripe
  PROVE  /\ Typed'
         /\ UNCHANGED <<settlement, recoveries, payable, recoverable, refund, mirrored, call>>
         /\ \/ \E i \in Refunds : DashboardGave(i)
            \/ \E s \in Settlements : BankMoved(s)
            \/ \E e \in events : TransferTold(e) \/ BounceTold(e)
<1>1. Typed'
  BY StripeTyped
<1>2. UNCHANGED <<settlement, recoveries, payable, recoverable, refund, mirrored, call>>
  BY DEF Stripe, DashboardRefund, BankPays, BankReturns, TransferEvent, PayoutBounced
<1>3. stripe \in StripeStates /\ payout \in [Settlements -> PayoutRows]
  BY DEF Typed, StripeOK, RowsOK
<1>4. ASSUME NEW i \in Refunds, NEW n \in Parts \cup {Total - RefundedAt(i[1])}, DashboardRefund(i, n)
      PROVE  DashboardGave(i)
  <2>1. i[1] \in Settlements /\ GiveBack(i[1], i, n) /\ UNCHANGED payout
    BY <1>4 DEF DashboardRefund, Refunds
  <2>2. n \in Int
    BY RefundedInt, PartsAssumption, PriceAssumption DEF Typed
  <2>3. PICK e \in Events :
           /\ e.kind = "refund" /\ e.s = i[1]
           /\ events' = events \cup {e}
           /\ stripe'.refunds = [stripe.refunds EXCEPT ![i] = n]
           /\ \A f \in {"sent", "reversals", "where", "lost", "guessed"} : stripe'[f] = stripe[f]
    BY <2>1, <2>2, GiveBackStores DEF Typed
  <2>4. \A j \in Refunds \ {i} : stripe'.refunds[j] = stripe.refunds[j]
    BY <1>3, <2>3 DEF StripeStates
  <2>5. Status(i[1]) # "none" /\ Unused(i)
    BY <1>4 DEF DashboardRefund, FirstUnused
  <2>6. QED BY <2>1, <2>3, <2>4, <2>5 DEF DashboardGave
<1>5. ASSUME NEW s \in Settlements, BankPays(s)
      PROVE  BankMoved(s)
  <2> DEFINE e == Event("payout", s, {}, TRUE, 0)
  <2>1. e \in Events /\ e.kind = "payout" /\ e.s = s
    BY DEF Event, Events
  <2>2. /\ \A f \in {"sent", "reversals", "refunds", "lost", "guessed"} : stripe'[f] = stripe[f]
        /\ \A t \in Settlements \ {s} : stripe'.where[t] = stripe.where[t]
        /\ stripe'.where[s] = "bank"
    BY <1>3, <1>5 DEF BankPays, StripeStates
  <2> HIDE DEF e
  <2>3. QED BY <1>5, <2>1, <2>2 DEF BankPays, BankMoved, e
<1>6. ASSUME NEW s \in Settlements, BankReturns(s)
      PROVE  BankMoved(s)
  <2> DEFINE e == Event("payout", s, {}, FALSE, 0)
  <2>1. e \in Events /\ e.kind = "payout" /\ e.s = s /\ ~ e.full
    BY DEF Event, Events
  <2>2. /\ \A f \in {"sent", "reversals", "refunds", "lost", "guessed"} : stripe'[f] = stripe[f]
        /\ \A t \in Settlements \ {s} : stripe'.where[t] = stripe.where[t]
        /\ stripe'.where[s] = "bounced"
    BY <1>3, <1>6 DEF BankReturns, StripeStates
  <2>3. stripe.where[s] = "bank" /\ UNCHANGED payout /\ events' = events \cup {e}
    BY <1>6 DEF BankReturns
  <2> HIDE DEF e
  <2>4. QED BY <2>1, <2>2, <2>3 DEF BankMoved
<1>7. ASSUME NEW e \in events, TransferEvent(e)
      PROVE  TransferTold(e)
  <2>1. CASE payout[e.s].sent
    <3>1. payout[e.s].status \in PayoutStatuses /\ "REVERSED" \in PayoutStatuses
      <4>1. e.s \in Settlements
        BY DEF Typed, StripeOK, Events
      <4>2. QED BY <1>3, <4>1 DEF PayoutRows, PayoutStatuses
    <3>2. payout' = [payout EXCEPT ![e.s].reversed = e.amount,
                                   ![e.s].status = IF e.full THEN "REVERSED" ELSE @]
      BY <1>7, <2>1 DEF TransferEvent
    <3>3. PICK st \in PayoutStatuses : st = IF e.full THEN "REVERSED" ELSE payout[e.s].status
      BY <3>1
    <3>4. payout' = [payout EXCEPT ![e.s].reversed = e.amount, ![e.s].status = st]
      BY <3>2, <3>3
    <3>5. QED BY <1>7, <2>1, <3>4 DEF TransferEvent, TransferTold
  <2>2. CASE ~ payout[e.s].sent
    BY <1>7, <2>2 DEF TransferEvent, TransferTold
  <2>3. QED BY <2>1, <2>2
<1>8. ASSUME NEW e \in events, PayoutBounced(e)
      PROVE  BounceTold(e)
  BY <1>8 DEF PayoutBounced, BounceTold
<1>9. QED BY <1>1, <1>2, <1>4, <1>5, <1>6, <1>7, <1>8 DEF Stripe
-------------------------------------------------------------------------------
(***************************************************************************)
(* Parts of the invariant that a step does not touch.                      *)
(***************************************************************************)
\* Who is at one of these places after a step was there before it.
Aside(pcs) == \A d \in Callers : call'[d] = call[d] \/ call'[d].pc \notin pcs

AskKept ==
  UNCHANGED refund /\ stripe'.refunds = stripe.refunds /\ Aside({"refund"} \cup Asking)

LEMMA AskStays ==
  ASSUME AskInv, AskKept
  PROVE  AskInv'
<1>1. ASSUME NEW d \in Callers PROVE AskShape(d)'
  <2>1. CASE call'[d].pc \notin {"refund"} \cup Asking
    BY <2>1 DEF AskShape, Asking
  <2>2. CASE call'[d] = call[d]
    <3>1. AskShape(d) /\ refund' = refund /\ stripe'.refunds = stripe.refunds
      BY DEF AskInv, AskKept
    <3>2. QED BY <2>2, <3>1 DEF AskShape
  <2>3. QED BY <2>1, <2>2 DEF AskKept, Aside
<1>2. \A c, d \in Callers :
        call'[c].pc \in Asking /\ call'[d].pc \in Asking /\ call'[c].id = call'[d].id => c = d
  BY DEF AskInv, AskKept, Aside
<1>3. \A i \in Refunds : refund'[i].linked =>
        refund'[i].status # "none" /\ refund'[i].amount = stripe'.refunds[i]
  BY DEF AskInv, AskKept
<1>4. QED BY <1>1, <1>2, <1>3 DEF AskInv

KnownKept ==
  /\ \A s \in Settlements : Status(s) # "none" => Status(s)' # "none"
  /\ \A d \in Callers : \/ call'[d] = call[d]
                        \/ call'[d].pc \in {"idle"} \cup Attributing
                        \/ call'[d].s \in Settlements /\ settlement'[call'[d].s].status # "none"
  /\ \A e \in events' \ events : e.kind = "refund" => settlement'[e.s].status # "none"

LEMMA KnownStays ==
  ASSUME Typed, KnownInv, KnownKept
  PROVE  KnownInv'
BY DEF KnownInv, KnownKept, Status, Typed, CallsOK, StripeOK, Events

StatusKept(s) ==
  \/ Status(s)' = Status(s)
  \/ Status(s) \notin Paid \cup {"TRANSFER_PENDING"}
  \/ Status(s) \in Paid /\ Status(s)' \in Paid

PayoutKept(s) ==
  /\ payout'[s].provider = payout[s].provider
  /\ payout'[s].amount = payout[s].amount
  /\ payout'[s].sent = payout[s].sent
  /\ payout'[s].reversed = payout[s].reversed

PayKept ==
  /\ stripe'.sent = stripe.sent
  /\ \A s \in Settlements : StatusKept(s) /\ PayoutKept(s)
  /\ Aside({"claim", "manualRow", "manual"} \cup Transferring)

LEMMA PayoutStays ==
  ASSUME NEW s \in Settlements, PayoutShape(s), StatusKept(s), PayoutKept(s),
         stripe'.sent = stripe.sent
  PROVE  PayoutShape(s)'
BY DEF PayoutShape, StatusKept, PayoutKept, Status

LEMMA PayStays ==
  ASSUME Typed, PayInv, PayKept
  PROVE  PayInv'
<1>1. \A s \in Settlements : PayoutShape(s)'
  BY PayoutStays DEF PayInv, PayKept
<1>2. ASSUME NEW d \in Callers PROVE PayShape(d)'
  <2>1. CASE call'[d].pc \notin {"claim", "manualRow", "manual"} \cup Transferring
    BY <2>1 DEF PayShape, Transferring
  <2>2. CASE call'[d] = call[d] /\ call[d].pc \in {"claim", "manualRow", "manual"} \cup Transferring
    <3>1. call[d].s \in Settlements /\ PayShape(d)
      BY <2>2 DEF Typed, CallsOK, Transferring, PayInv
    <3>2. StatusKept(call[d].s) /\ PayoutKept(call[d].s) /\ stripe'.sent = stripe.sent
      BY <3>1 DEF PayKept
    <3>3. QED BY <2>2, <3>1, <3>2 DEF PayShape, StatusKept, PayoutKept, Status, Paid, Transferring
  <2>3. QED BY <2>1, <2>2 DEF PayKept, Aside
<1>3. \A c, d \in Callers :
        call'[c].pc \in Transferring /\ call'[d].pc \in Transferring /\ call'[c].s = call'[d].s => c = d
  BY DEF PayInv, PayKept, Aside
<1>4. QED BY <1>1, <1>2, <1>3 DEF PayInv

TakeKept ==
  /\ \A s \in Settlements : Status(s) \in Paid => Status(s)' \in Paid
  /\ \A s \in Settlements :
       payout[s].sent => payout'[s].sent /\ payout'[s].amount = payout[s].amount
  /\ stripe'.reversals = stripe.reversals
  /\ \A s \in Settlements : stripe.sent[s] <= stripe'.sent[s]
  /\ \A e \in events' \ events : e.kind # "transfer"
  /\ Aside({"recover", "open"} \cup Taking)

LEMMA TakeStays ==
  ASSUME Typed, Typed', TakeInv, TakeKept
  PROVE  TakeInv'
<1>1. ASSUME NEW d \in Callers PROVE TakeShape(d)'
  <2>1. CASE call'[d].pc \notin {"recover", "open"} \cup Taking
    BY <2>1 DEF TakeShape, Taking
  <2>2. CASE call'[d] = call[d] /\ call[d].pc \in {"recover", "open"} \cup Taking
    <3>1. call[d].s \in Settlements /\ TakeShape(d)
      BY <2>2 DEF Typed, CallsOK, Taking, TakeInv
    <3>2. QED BY <2>2, <3>1 DEF TakeKept, TakeShape, Status
  <2>3. QED BY <2>1, <2>2 DEF TakeKept, Aside
<1>2. ASSUME NEW e \in events', e.kind = "transfer"
      PROVE  0 <= e.amount /\ e.amount <= stripe'.sent[e.s]
  <2>1. e \in events /\ e \in Events
    BY <1>2 DEF TakeKept, Typed, StripeOK
  <2>2. e.s \in Settlements /\ e.amount \in Int
    BY <2>1 DEF Events
  <2>3. stripe.sent[e.s] \in Int /\ stripe'.sent[e.s] \in Int
    BY <2>2 DEF Typed, StripeOK, StripeStates
  <2>4. stripe.sent[e.s] <= stripe'.sent[e.s]
    BY <2>2 DEF TakeKept
  <2>5. 0 <= e.amount /\ e.amount <= stripe.sent[e.s]
    BY <1>2, <2>1 DEF TakeInv
  <2>6. QED BY <2>2, <2>3, <2>4, <2>5
<1>3. \A r \in stripe'.reversals : r.amount > 0
  BY DEF TakeKept, TakeInv
<1>4. QED BY <1>1, <1>2, <1>3 DEF TakeInv

PaidThrough(s) == Status(s) = "PAID_OUT" /\ settlement[s].method = "STRIPE_CONNECT"

BankKept ==
  /\ stripe'.where = stripe.where /\ stripe'.sent = stripe.sent
  /\ stripe'.guessed = stripe.guessed
  /\ \A s \in Settlements : PaidThrough(s)' => PaidThrough(s)
  /\ \A e \in events' \ events : ~ (e.kind = "payout" /\ e.full)
  /\ Aside(Attributing)

LEMMA BankStays ==
  ASSUME BankInv, BankKept
  PROVE  BankInv'
<1>1. \A s \in Settlements : (Reached(s))' <=> Reached(s)
  BY DEF BankKept, Reached
<1>2. stripe'.guessed <=> stripe.guessed
  BY Zenon DEF BankKept
<1>3. ASSUME NEW d \in Callers PROVE BankShape(d)'
  <2>1. CASE call'[d].pc \notin Attributing
    BY <2>1 DEF BankShape, Attributing
  <2>2. CASE call'[d] = call[d]
    BY <1>1, <1>2, <2>2 DEF BankInv, BankShape
  <2>3. QED BY <2>1, <2>2 DEF BankKept, Aside
<1>4. \A e \in events' : e.kind = "payout" /\ e.full => (Reached(e.s))'
  BY DEF BankInv, BankKept, Reached
<1>5. \A s \in Settlements : (Reached(s))' => stripe'.sent[s] > 0
  BY <1>1 DEF BankInv, BankKept
<1>6. PaidOutReachedBank'
  BY DEF PaidOutReachedBank, BankInv, BankKept, PaidThrough, Status
<1>7. QED BY <1>3, <1>4, <1>5, <1>6 DEF BankInv
-------------------------------------------------------------------------------
(***************************************************************************)
(* Steps that move a settlement whose money is still here, and calls that  *)
(* only end or go on with their refund event.                              *)
(***************************************************************************)
Mild(s) ==
  \/ settlement'[s] = settlement[s]
  \/ /\ Status(s) \notin Paid \cup {"TRANSFER_PENDING"}
     /\ Status(s)' # "none"
     /\ settlement'[s].net >= 0
     /\ ~ PaidThrough(s)'

\* Steps of a call that ask for nothing, pay nothing and take nothing back.
Plain == {"event", "apply", "writeOff", "reduce", "lose"}

Calmly ==
  \A d \in Callers :
    \/ call'[d] = call[d]
    \/ call'[d].pc = "idle"
    \/ /\ call'[d].pc \in Plain /\ call'[d].s \in Settlements
       /\ Status(call'[d].s) # "none"

LEMMA CalmKeeps ==
  ASSUME MInv, Typed', RecoveryInv', Calmly, \A s \in Settlements : Mild(s),
         UNCHANGED <<payout, stripe, refund>>, events' \subseteq events
  PROVE  MInv'
<1> USE DEF MInv
<1>1. \A pcs : pcs \cap ({"idle"} \cup Plain) = {} => Aside(pcs)
  BY DEF Calmly, Aside
<1>2. /\ ({"refund"} \cup Asking) \cap ({"idle"} \cup Plain) = {}
      /\ ({"claim", "manualRow", "manual"} \cup Transferring) \cap ({"idle"} \cup Plain) = {}
      /\ ({"recover", "open"} \cup Taking) \cap ({"idle"} \cup Plain) = {}
      /\ Attributing \cap ({"idle"} \cup Plain) = {}
  BY DEF Asking, Taking, Transferring, Attributing, Plain
<1>3. \A s \in Settlements : /\ StatusKept(s)
                             /\ Status(s) # "none" => Status(s)' # "none"
                             /\ Status(s) \in Paid => Status(s)' \in Paid
                             /\ PaidThrough(s)' => PaidThrough(s)
                             /\ settlement'[s].net >= 0
  BY DEF Mild, StatusKept, Status, PaidThrough, NetInv
<1>4. AskInv'
  BY <1>1, <1>2, AskStays DEF AskKept
<1>5. KnownInv'
  <2>1. \A d \in Callers : \/ call'[d] = call[d]
                           \/ call'[d].pc \in {"idle"} \cup Attributing
                           \/ call'[d].s \in Settlements /\ settlement'[call'[d].s].status # "none"
    BY <1>3 DEF Calmly, Status
  <2>2. QED BY <1>3, <2>1, KnownStays DEF KnownKept
<1>6. PayInv'
  BY <1>1, <1>2, <1>3, PayStays DEF PayKept, PayoutKept
<1>7. TakeInv'
  <2>1. \A s \in Settlements : stripe.sent[s] <= stripe'.sent[s]
    BY DEF Typed, StripeOK, StripeStates
  <2>2. QED BY <1>1, <1>2, <1>3, <2>1, TakeStays DEF TakeKept
<1>8. BankInv'
  BY <1>1, <1>2, <1>3, BankStays DEF BankKept
<1>9. NetInv'
  BY <1>3 DEF NetInv
<1>10. QED BY <1>4, <1>5, <1>6, <1>7, <1>8, <1>9

LEMMA SameIsMild ==
  ASSUME UNCHANGED settlement
  PROVE  \A s \in Settlements : Mild(s)
BY DEF Mild

\* Who ends is calm.
LEMMA EndIsCalm ==
  ASSUME NEW c \in Callers, Only(c), call'[c] = Idle
  PROVE  Calmly
BY IdleTyped DEF Only, Calmly

LEMMA ToldIsCalm ==
  ASSUME Typed, KnownInv, NEW c \in Callers, call[c].pc \notin {"idle"} \cup Attributing,
         Only(c), ToldOf(c)
  PROVE  Calmly
<1>1. CASE call'[c] = Idle
  BY <1>1, EndIsCalm
<1>2. CASE call'[c] = [call[c] EXCEPT !.pc = "event"]
  <2>1. call[c] \in Calls /\ call[c].s \in Settlements /\ Status(call[c].s) # "none"
    BY DEF Typed, CallsOK, KnownInv
  <2>2. call'[c].pc = "event" /\ call'[c].s = call[c].s
    BY <1>2, <2>1 DEF Calls
  <2>3. QED BY <2>1, <2>2 DEF Only, Calmly, Plain
<1>3. QED BY <1>1, <1>2 DEF ToldOf

LEMMA WrittenOffIsMild ==
  ASSUME Typed, NEW s \in Settlements, NEW n, WrittenOff(s, n)
  PROVE  \A t \in Settlements : Mild(t)
BY DEF WrittenOff, Mild, Status, PaidThrough, Paid

LEMMA AdjustedIsMild ==
  ASSUME Typed, NEW s \in Settlements, Adjusted(s), Adjustable(s)
  PROVE  \A t \in Settlements : Mild(t)
BY DEF Adjusted, Adjustable, Mild, Status, PaidThrough, Paid

LEMMA SalesKeep ==
  ASSUME MInv, Sales
  PROVE  MInv'
<1>1. /\ Typed' /\ UNCHANGED <<payout, recoveries, recoverable, World, call>>
      /\ \E s \in Settlements :
           /\ Booked(s) \/ Advanced(s) \/ Cancelled(s)
           /\ \A t \in Settlements \ {s} :
                settlement'[t] = settlement[t] /\ payable'[t] = payable[t]
  BY SalesMove DEF MInv
<1>2. PICK s \in Settlements :
           /\ Booked(s) \/ Advanced(s) \/ Cancelled(s)
           /\ \A t \in Settlements \ {s} :
                settlement'[t] = settlement[t] /\ payable'[t] = payable[t]
  BY <1>1
<1>3. Mild(s)
  <2>1. settlement[s].net >= 0
    BY DEF MInv, NetInv
  <2>2. CASE Booked(s)
    BY <2>2, FeeOfPrice DEF Booked, Mild, Status, PaidThrough, Paid
  <2>3. CASE Advanced(s)
    BY <2>1, <2>3 DEF Advanced, MovesTo, Mild, Status, PaidThrough, Paid
  <2>4. CASE Cancelled(s)
    BY <2>4 DEF Cancelled, Mild, Status, PaidThrough, Paid
  <2>5. QED BY <1>2, <2>2, <2>3, <2>4
<1>4. \A t \in Settlements : Mild(t)
  BY <1>2, <1>3 DEF Mild
<1>5. Calmly /\ RecoveryInv' /\ UNCHANGED <<payout, stripe, refund>> /\ events' \subseteq events
  BY <1>1 DEF Calmly, World, MInv, RecoveryInv
<1>6. QED BY <1>1, <1>4, <1>5, CalmKeeps

LEMMA WriteOffKeeps ==
  ASSUME MInv, NEW c \in Callers, WriteOff(c) \/ Lose(c)
  PROVE  MInv'
<1>1. /\ Typed' /\ Only(c) /\ ToldOf(c)
      /\ UNCHANGED <<payout, recoveries, recoverable, World>>
      /\ call[c].pc \in {"writeOff", "lose"}
      /\ WrittenOff(call[c].s, call[c].net) \/ UNCHANGED <<settlement, payable>>
  BY WriteOffTyped, LoseTyped DEF MInv, ToldOf
<1>2. Calmly
  BY <1>1, ToldIsCalm DEF MInv, Attributing
<1>3. call[c].s \in Settlements
  BY <1>1 DEF MInv, Typed, CallsOK
<1>4. \A t \in Settlements : Mild(t)
  BY <1>1, <1>3, WrittenOffIsMild, SameIsMild DEF MInv
<1>5. RecoveryInv' /\ UNCHANGED <<payout, stripe, refund>> /\ events' \subseteq events
  BY <1>1 DEF World, MInv, RecoveryInv
<1>6. QED BY <1>1, <1>2, <1>4, <1>5, CalmKeeps

LEMMA ReduceKeeps ==
  ASSUME MInv, NEW c \in Callers, Reduce(c)
  PROVE  MInv'
<1>1. /\ Typed' /\ Only(c) /\ ToldOf(c)
      /\ UNCHANGED <<payout, recoveries, recoverable, World>>
      /\ call[c].pc = "reduce"
      /\ \/ Adjusted(call[c].s) /\ Adjustable(call[c].s)
         \/ UNCHANGED <<settlement, payable>>
  BY ReduceTyped DEF MInv
<1>2. Calmly
  BY <1>1, ToldIsCalm DEF MInv, Attributing
<1>3. call[c].s \in Settlements
  BY <1>1 DEF MInv, Typed, CallsOK
<1>4. \A t \in Settlements : Mild(t)
  BY <1>1, <1>3, AdjustedIsMild, SameIsMild DEF MInv
<1>5. RecoveryInv' /\ UNCHANGED <<payout, stripe, refund>> /\ events' \subseteq events
  BY <1>1 DEF World, MInv, RecoveryInv
<1>6. QED BY <1>1, <1>2, <1>4, <1>5, CalmKeeps

LEMMA AdjustKeeps ==
  ASSUME MInv, NEW c \in Callers, NEW s \in Settlements, NEW n \in Changes, Adjust(c, s, n)
  PROVE  MInv'
<1>1. /\ Typed' /\ UNCHANGED <<payout, recoveries, recoverable, World, call>>
      /\ Adjusted(s) /\ Adjustable(s)
  BY AdjustTyped DEF MInv
<1>2. \A t \in Settlements : Mild(t)
  BY <1>1, AdjustedIsMild DEF MInv
<1>3. Calmly /\ RecoveryInv' /\ UNCHANGED <<payout, stripe, refund>> /\ events' \subseteq events
  BY <1>1 DEF Calmly, World, MInv, RecoveryInv
<1>4. QED BY <1>1, <1>2, <1>3, CalmKeeps

LEMMA WithholdKeeps ==
  ASSUME MInv, NEW c \in Callers, Withhold(c)
  PROVE  MInv'
<1>1. /\ Typed' /\ RecoveryInv' /\ Only(c) /\ UNCHANGED <<payout, World>>
      /\ call[c].pc = "withhold" /\ call'[c] = Idle
      /\ \/ /\ Status(call[c].s) = "ELIGIBLE"
            /\ MovesTo(call[c].s, "PAID_OUT", "RECOVERY_OFFSET")
         \/ UNCHANGED settlement
  BY WithholdTyped DEF MInv
<1>2. call[c].s \in Settlements /\ settlement[call[c].s].net >= 0
  BY <1>1 DEF MInv, Typed, CallsOK, NetInv
<1>3. \A t \in Settlements : Mild(t)
  BY <1>1, <1>2 DEF MovesTo, Mild, Status, PaidThrough, Paid
<1>4. Calmly /\ UNCHANGED <<payout, stripe, refund>> /\ events' \subseteq events
  BY <1>1, EndIsCalm DEF World
<1>5. QED BY <1>1, <1>3, <1>4, CalmKeeps

LEMMA ManualKeeps ==
  ASSUME MInv, NEW c \in Callers, Manual(c)
  PROVE  MInv'
<1>1. /\ Typed' /\ Only(c) /\ UNCHANGED <<payout, recoveries, recoverable, World>>
      /\ call[c].pc = "manual" /\ call'[c] = Idle
      /\ \/ /\ Status(call[c].s) \in {"ELIGIBLE", "TRANSFER_FAILED"}
            /\ MovesTo(call[c].s, "PAID_OUT", "MANUAL")
         \/ UNCHANGED settlement
  BY ManualTyped DEF MInv
<1>2. call[c].s \in Settlements /\ settlement[call[c].s].net >= 0
  BY <1>1 DEF MInv, Typed, CallsOK, NetInv
<1>3. \A t \in Settlements : Mild(t)
  BY <1>1, <1>2 DEF MovesTo, Mild, Status, PaidThrough, Paid
<1>4. Calmly /\ RecoveryInv' /\ UNCHANGED <<payout, stripe, refund>> /\ events' \subseteq events
  BY <1>1, EndIsCalm DEF World, MInv, RecoveryInv
<1>5. QED BY <1>1, <1>3, <1>4, CalmKeeps

LEMMA EndingKeeps ==
  ASSUME MInv, NEW c \in Callers, RefundEventDone(c) \/ PayoutDone(c) \/ Die(c)
  PROVE  MInv'
<1>1. /\ Typed' /\ Only(c) /\ call'[c] = Idle /\ UNCHANGED <<Rows, stripe, refund, mirrored>>
      /\ events' \subseteq events
  BY RefundEventDoneTyped, PayoutDoneTyped, DieTyped DEF MInv, World
<1>2. \A t \in Settlements : Mild(t)
  BY <1>1, SameIsMild DEF Rows
<1>3. Calmly /\ RecoveryInv' /\ UNCHANGED <<payout, stripe, refund>>
  BY <1>1, EndIsCalm DEF Rows, MInv, RecoveryInv
<1>4. QED BY <1>1, <1>2, <1>3, CalmKeeps

LEMMA RefundEventKeeps ==
  ASSUME MInv, NEW c \in Callers, NEW e \in events, RefundEvent(c, e)
  PROVE  MInv'
<1>1. /\ Typed' /\ Only(c) /\ UNCHANGED <<Rows, World>>
      /\ e.kind = "refund" /\ call'[c].pc = "event" /\ call'[c].s = e.s
  BY RefundEventTyped DEF MInv
<1>2. e.s \in Settlements /\ Status(e.s) # "none"
  BY <1>1 DEF MInv, KnownInv, Typed, StripeOK, Events
<1>3. Calmly
  BY <1>1, <1>2 DEF Only, Calmly, Plain
<1>4. \A t \in Settlements : Mild(t)
  BY <1>1, SameIsMild DEF Rows
<1>5. RecoveryInv' /\ UNCHANGED <<payout, stripe, refund>> /\ events' \subseteq events
  BY <1>1 DEF Rows, World, MInv, RecoveryInv
<1>6. QED BY <1>1, <1>3, <1>4, <1>5, CalmKeeps

LEMMA OpenRecoveryKeeps ==
  ASSUME MInv, NEW c \in Callers, OpenRecovery(c)
  PROVE  MInv'
<1>1. /\ Typed' /\ Only(c) /\ ToldOf(c)
      /\ UNCHANGED <<settlement, payout, payable, World>>
      /\ call[c].pc = "open" /\ call[c].amount \in Int
      /\ \E r \in RecoveryRows : /\ recoveries' = Append(recoveries, r)
                                 /\ r.amount = call[c].amount /\ r.recovered = 0
  BY OpenRecoveryTyped DEF MInv
<1>2. call[c].amount > 0
  BY <1>1 DEF MInv, TakeInv, TakeShape
<1>3. RecoveryInv'
  <2>1. PICK r \in RecoveryRows : /\ recoveries' = Append(recoveries, r)
                                  /\ r.amount = call[c].amount /\ r.recovered = 0
    BY <1>1
  <2>2. RecoveryShape(r)
    BY <1>1, <1>2, <2>1 DEF RecoveryShape
  <2>3. \A k \in DOMAIN recoveries' :
          \/ k \in DOMAIN recoveries /\ recoveries'[k] = recoveries[k]
          \/ recoveries'[k] = r
    BY <2>1 DEF MInv, Typed, RowsOK
  <2>4. QED BY <2>2, <2>3 DEF RecoveryInv, MInv
<1>4. Calmly
  BY <1>1, ToldIsCalm DEF MInv, Attributing
<1>5. \A t \in Settlements : Mild(t)
  BY <1>1, SameIsMild
<1>6. UNCHANGED <<payout, stripe, refund>> /\ events' \subseteq events
  BY <1>1 DEF World
<1>7. QED BY <1>1, <1>3, <1>4, <1>5, <1>6, CalmKeeps
-------------------------------------------------------------------------------
(***************************************************************************)
(* The steps of createRefund and of the buyer's bank.                      *)
(***************************************************************************)
LEMMA OnlyAside ==
  ASSUME NEW c \in Callers, Only(c), NEW pcs, call'[c].pc \notin pcs
  PROVE  Aside(pcs)
BY DEF Only, Aside

LEMMA SameSettlement ==
  ASSUME UNCHANGED settlement
  PROVE  \A s \in Settlements : /\ StatusKept(s)
                                /\ Status(s)' = Status(s)
                                /\ PaidThrough(s)' => PaidThrough(s)
BY DEF StatusKept, Status, PaidThrough

\* Settlements, rows and Stripe's side stay; the caller stays with what is known.
LEMMA KnownGoesOn ==
  ASSUME Typed, KnownInv, NEW c \in Callers, Only(c), UNCHANGED settlement,
         \A e \in events' \ events : e.kind = "refund" => Status(e.s) # "none",
         \/ call'[c].pc \in {"idle"} \cup Attributing
         \/ call'[c].s = call[c].s /\ call[c].pc \notin {"idle"} \cup Attributing
  PROVE  KnownInv'
<1>1. call[c].pc \notin {"idle"} \cup Attributing =>
        call[c].s \in Settlements /\ settlement[call[c].s].status # "none"
  BY DEF Typed, CallsOK, KnownInv, Status
<1>2. KnownKept
  BY <1>1 DEF KnownKept, Only, Status
<1>3. QED BY <1>2, KnownStays

\* A step of a refund's caller leaves payouts, recoveries and the bank alone.
LEMMA OthersStay ==
  ASSUME MInv, Typed', NEW c \in Callers, Only(c), UNCHANGED Rows,
         \A f \in {"sent", "reversals", "where", "guessed"} : stripe'[f] = stripe[f],
         \A e \in events' \ events : e.kind = "refund",
         call'[c].pc \in {"idle", "refund", "apply"} \cup Asking \cup Plain
  PROVE  PayInv' /\ TakeInv' /\ BankInv' /\ NetInv' /\ RecoveryInv'
<1> USE DEF MInv
<1>1. /\ Aside({"claim", "manualRow", "manual"} \cup Transferring)
      /\ Aside({"recover", "open"} \cup Taking)
      /\ Aside(Attributing)
  BY OnlyAside DEF Transferring, Taking, Attributing, Asking, Plain
<1>2. /\ stripe'.sent = stripe.sent /\ stripe'.reversals = stripe.reversals
      /\ stripe'.where = stripe.where /\ stripe'.guessed = stripe.guessed
  OBVIOUS
<1>3. UNCHANGED <<settlement, payout, recoveries>>
  BY DEF Rows
<1>4. PayInv'
  BY <1>1, <1>2, <1>3, SameSettlement, PayStays DEF PayKept, PayoutKept
<1>5. TakeInv'
  <2>1. \A s \in Settlements : stripe.sent[s] <= stripe'.sent[s]
    BY <1>2 DEF Typed, StripeOK, StripeStates
  <2>2. QED BY <1>1, <1>2, <1>3, <2>1, SameSettlement, TakeStays DEF TakeKept
<1>6. BankInv'
  BY <1>1, <1>2, <1>3, SameSettlement, BankStays DEF BankKept
<1>7. NetInv' /\ RecoveryInv'
  BY <1>3 DEF NetInv, RecoveryInv
<1>8. QED BY <1>4, <1>5, <1>6, <1>7

\* Only refund i, which nobody else asks for, changes.
LEMMA AskElsewhere ==
  ASSUME Typed, AskInv, NEW c \in Callers, Only(c), NEW i \in Refunds,
         \A j \in Refunds \ {i} : /\ refund'[j] = refund[j]
                                  /\ stripe'.refunds[j] = stripe.refunds[j],
         \A d \in Callers \ {c} : call[d].pc \in Asking => call[d].id # i,
         AskShape(c)', call'[c].pc \in Asking => call'[c].id = i,
         refund'[i].linked =>
           refund'[i].status # "none" /\ refund'[i].amount = stripe'.refunds[i]
  PROVE  AskInv'
<1>1. ASSUME NEW d \in Callers PROVE AskShape(d)'
  <2>1. CASE d = c
    BY <2>1
  <2>2. CASE d # c
    <3>1. AskShape(d) /\ call'[d] = call[d]
      BY <2>2 DEF AskInv, Only
    <3>2. CASE call[d].pc \in Asking
      <4>1. call[d].id \in Refunds \ {i}
        BY <2>2, <3>1, <3>2 DEF AskShape
      <4>2. refund'[call[d].id] = refund[call[d].id]
        BY <4>1
      <4>3. stripe'.refunds[call[d].id] = stripe.refunds[call[d].id]
        BY <4>1
      <4>4. QED BY <3>1, <3>2, <4>1, <4>2, <4>3 DEF AskShape
    <3>3. CASE call[d].pc \notin Asking
      BY <3>1, <3>3 DEF AskShape, Asking
    <3>4. QED BY <3>2, <3>3
  <2>3. QED BY <2>1, <2>2
<1>2. ASSUME NEW d \in Callers, NEW e \in Callers,
             call'[d].pc \in Asking, call'[e].pc \in Asking, call'[d].id = call'[e].id
      PROVE  d = e
  BY <1>2 DEF AskInv, Only
<1>3. ASSUME NEW j \in Refunds, refund'[j].linked
      PROVE  refund'[j].status # "none" /\ refund'[j].amount = stripe'.refunds[j]
  <2>1. CASE j = i
    BY <1>3, <2>1
  <2>2. CASE j # i
    <3>1. refund'[j] = refund[j] /\ stripe'.refunds[j] = stripe.refunds[j]
      BY <2>2
    <3>2. QED BY <1>3, <3>1 DEF AskInv
  <2>3. QED BY <2>1, <2>2
<1>4. QED BY <1>1, <1>2, <1>3 DEF AskInv

LEMMA RefundReadKeeps ==
  ASSUME MInv, NEW c \in Callers, NEW s \in Settlements,
         NEW n \in Parts \cup {Total - AlreadyRefunded(s)}, RefundRead(c, s, n)
  PROVE  MInv'
<1>1. /\ Typed' /\ Only(c) /\ UNCHANGED <<Rows, World>>
      /\ call'[c].pc = "refund" /\ call'[c].s = s /\ call'[c].amount = n /\ n > 0
  BY RefundReadTyped DEF MInv
<1>2. PayInv' /\ TakeInv' /\ BankInv' /\ NetInv' /\ RecoveryInv'
  BY <1>1, OthersStay DEF World
<1>3. KnownInv'
  <2>1. Status(s) # "none"
    BY DEF RefundRead
  <2>2. KnownKept
    BY <1>1, <2>1 DEF KnownKept, Only, Rows, World, Status
  <2>3. QED BY <2>2, KnownStays DEF MInv
<1>4. AskInv'
  <2>1. UNCHANGED <<refund, stripe>>
    BY <1>1 DEF World
  <2>2. ASSUME NEW d \in Callers PROVE AskShape(d)'
    <3>1. CASE d = c
      BY <1>1, <3>1 DEF AskShape, Asking
    <3>2. CASE d # c
      BY <1>1, <2>1, <3>2 DEF Only, AskShape, MInv, AskInv
    <3>3. QED BY <3>1, <3>2
  <2>3. QED BY <1>1, <2>1, <2>2 DEF MInv, AskInv, Only, Asking
<1>5. QED BY <1>1, <1>2, <1>3, <1>4 DEF MInv

LEMMA RefundInsertKeeps ==
  ASSUME MInv, NEW c \in Callers, RefundInsert(c)
  PROVE  MInv'
<1>1. /\ Typed' /\ Only(c) /\ UNCHANGED <<Rows, stripe, events, mirrored>>
      /\ call[c].pc = "refund"
  BY RefundInsertTyped DEF MInv
<1>2. PICK i \in Refunds :
        /\ FirstUnused(call[c].s, i)
        /\ refund'[i] = [status |-> "PROCESSING", amount |-> call[c].amount, linked |-> FALSE]
        /\ \A j \in Refunds \ {i} : refund'[j] = refund[j]
        /\ call'[c].pc = "ask" /\ call'[c].id = i
        /\ call'[c].s = call[c].s /\ call'[c].amount = call[c].amount
  BY RefundInsertTyped DEF MInv
<1>3. PayInv' /\ TakeInv' /\ BankInv' /\ NetInv' /\ RecoveryInv'
  BY <1>1, <1>2, OthersStay DEF Asking
<1>4. KnownInv'
  BY <1>1, <1>2, KnownGoesOn DEF Rows, MInv, Attributing
<1>5. AskInv'
  <2>1. refund[i].status = "none" /\ call[c].amount > 0
    BY <1>1, <1>2 DEF FirstUnused, Unused, MInv, AskInv, AskShape
  <2>2. \A d \in Callers \ {c} : call[d].pc \in Asking => call[d].id # i
    BY <2>1 DEF MInv, AskInv, AskShape
  <2>3. ~ refund'[i].linked /\ refund'[i].status = "PROCESSING"
        /\ refund'[i].amount = call[c].amount
    BY <1>2
  <2>4. AskShape(c)'
    BY <1>2, <2>1, <2>3 DEF AskShape, Asking
  <2>5. \A j \in Refunds \ {i} : /\ refund'[j] = refund[j]
                                 /\ stripe'.refunds[j] = stripe.refunds[j]
    BY <1>1, <1>2
  <2>6. QED BY <1>1, <1>2, <2>2, <2>3, <2>4, <2>5, AskElsewhere DEF MInv
<1>6. QED BY <1>1, <1>3, <1>4, <1>5 DEF MInv

LEMMA RefundAskKeeps ==
  ASSUME MInv, NEW c \in Callers, RefundAsk(c)
  PROVE  MInv'
<1> DEFINE i == call[c].id
<1>1. /\ Typed' /\ Only(c) /\ UNCHANGED <<Rows, mirrored>>
      /\ call[c].pc = "ask" /\ i \in Refunds
      /\ GivenBack(c) \/ UNCHANGED <<stripe, events>>
      /\ \/ GivenBack(c) /\ UNCHANGED refund /\ call'[c] = [call[c] EXCEPT !.pc = "link"]
         \/ refund' = [refund EXCEPT ![i].status = "FAILED"] /\ call'[c] = Idle
  BY RefundAskTyped DEF MInv
<1>2. call[c] \in Calls /\ call[c].s \in Settlements /\ Status(call[c].s) # "none"
  BY <1>1 DEF MInv, Typed, CallsOK, KnownInv, Attributing
<1>3. /\ refund[i] \in RefundRows /\ refund[i].status # "none"
      /\ refund[i].amount = call[c].amount /\ ~ refund[i].linked /\ call[c].amount > 0
  BY <1>1 DEF MInv, AskInv, AskShape, Asking, Typed, StripeOK
<1>4. /\ \A f \in {"sent", "reversals", "where", "guessed"} : stripe'[f] = stripe[f]
      /\ \A e \in events' \ events : e.kind = "refund" /\ e.s = call[c].s
      /\ \A j \in Refunds \ {i} : stripe'.refunds[j] = stripe.refunds[j]
  <2>1. CASE UNCHANGED <<stripe, events>>
    BY <2>1
  <2>2. CASE GivenBack(c)
    BY <1>1, <2>2 DEF GivenBack, MInv, Typed, StripeOK, StripeStates
  <2>3. QED BY <1>1, <2>1, <2>2
<1>5. call'[c].pc \in {"link", "idle"} /\ (call'[c].pc = "link" => call'[c].s = call[c].s)
  BY <1>1, <1>2, IdleTyped DEF Calls
<1>6. PayInv' /\ TakeInv' /\ BankInv' /\ NetInv' /\ RecoveryInv'
  BY <1>1, <1>4, <1>5, OthersStay DEF Asking
<1>7. KnownInv'
  BY <1>1, <1>2, <1>4, <1>5, KnownGoesOn DEF Rows, MInv, Attributing
<1>8. AskInv'
  <2>1. \A d \in Callers \ {c} : call[d].pc \in Asking => call[d].id # i
    BY <1>1 DEF MInv, AskInv, Asking
  <2>2. /\ \A j \in Refunds \ {i} : refund'[j] = refund[j]
        /\ refund'[i].amount = refund[i].amount /\ refund'[i].linked = refund[i].linked
        /\ refund'[i].status # "none"
    BY <1>1, <1>3 DEF MInv, Typed, StripeOK, RefundRows
  <2>3. CASE call'[c] = Idle
    <3>1. AskShape(c)' /\ call'[c].pc \notin Asking
      BY <2>3, IdleTyped DEF AskShape, Asking
    <3>2. QED BY <1>1, <1>3, <1>4, <2>1, <2>2, <3>1, AskElsewhere DEF MInv
  <2>4. CASE GivenBack(c) /\ UNCHANGED refund /\ call'[c] = [call[c] EXCEPT !.pc = "link"]
    <3>1. call'[c].pc = "link" /\ call'[c].id = i /\ call'[c].amount = call[c].amount
      BY <1>2, <2>4 DEF Calls
    <3>2. stripe'.refunds[i] = call[c].amount
      BY <1>1, <2>4 DEF GivenBack, MInv, Typed, StripeOK, StripeStates
    <3>3. AskShape(c)'
      BY <1>1, <1>3, <2>4, <3>1, <3>2 DEF AskShape
    <3>4. QED BY <1>1, <1>3, <1>4, <2>1, <2>2, <3>1, <3>3, AskElsewhere DEF MInv
  <2>5. QED BY <1>1, <2>3, <2>4
<1>9. QED BY <1>1, <1>6, <1>7, <1>8 DEF MInv

LEMMA RefundLinkKeeps ==
  ASSUME MInv, NEW c \in Callers, RefundLink(c)
  PROVE  MInv'
<1> DEFINE i == call[c].id
<1>1. /\ Typed' /\ Only(c) /\ UNCHANGED <<Rows, stripe, events, mirrored>>
      /\ call[c].pc = "link" /\ i \in Refunds
      /\ \/ call'[c] = Idle /\ UNCHANGED refund
         \/ /\ call'[c] = [call[c] EXCEPT !.pc = "apply"]
            /\ refund' = [refund EXCEPT ![i].status = "SUCCEEDED", ![i].linked = TRUE]
  BY RefundLinkTyped DEF MInv
<1>2. call[c] \in Calls /\ call[c].s \in Settlements
  BY <1>1 DEF MInv, Typed, CallsOK
<1>3. /\ refund[i] \in RefundRows /\ refund[i].amount = call[c].amount /\ ~ refund[i].linked
      /\ stripe.refunds[i] = call[c].amount
  BY <1>1 DEF MInv, AskInv, AskShape, Asking, Typed, StripeOK
<1>4. call'[c].pc \in {"apply", "idle"} /\ (call'[c].pc = "apply" => call'[c].s = call[c].s)
  BY <1>1, <1>2, IdleTyped DEF Calls
<1>5. PayInv' /\ TakeInv' /\ BankInv' /\ NetInv' /\ RecoveryInv'
  BY <1>1, <1>4, OthersStay
<1>6. KnownInv'
  BY <1>1, <1>4, KnownGoesOn DEF Rows, MInv, Attributing
<1>7. AskInv'
  <2>1. \A d \in Callers \ {c} : call[d].pc \in Asking => call[d].id # i
    BY <1>1 DEF MInv, AskInv, Asking
  <2>2. call'[c].pc \notin Asking /\ AskShape(c)'
    BY <1>4 DEF AskShape, Asking
  <2>3. /\ \A j \in Refunds \ {i} : refund'[j] = refund[j] /\ stripe'.refunds[j] = stripe.refunds[j]
        /\ refund'[i].linked => refund'[i].status # "none" /\ refund'[i].amount = stripe'.refunds[i]
    BY <1>1, <1>3 DEF MInv, Typed, StripeOK, RefundRows
  <2>4. QED BY <1>1, <2>1, <2>2, <2>3, AskElsewhere DEF MInv
<1>8. QED BY <1>1, <1>5, <1>6, <1>7 DEF MInv

LEMMA RefundPostKeeps ==
  ASSUME MInv, NEW c \in Callers, NEW i \in Refunds, RefundPost(c, i)
  PROVE  MInv'
<1>1. /\ Typed' /\ Only(c) /\ UNCHANGED <<Rows, stripe, events>>
      /\ call[c].pc = "event"
      /\ call'[c].pc \in {"event", "apply"} /\ call'[c].s = call[c].s
      /\ RowsOfRefundsKept
  BY RefundPostTyped DEF MInv
<1>2. PayInv' /\ TakeInv' /\ BankInv' /\ NetInv' /\ RecoveryInv'
  BY <1>1, OthersStay DEF Plain
<1>3. KnownInv'
  BY <1>1, KnownGoesOn DEF Rows, MInv, Attributing
<1>4. AskInv'
  <2>1. ASSUME NEW j \in Refunds
        PROVE  /\ refund'[j].amount = refund[j].amount /\ refund'[j].linked = refund[j].linked
               /\ refund[j].status # "none" => refund'[j].status # "none"
    <3>1. refund[j] \in RefundRows
      BY DEF MInv, Typed, StripeOK
    <3>2. refund'[j] = refund[j] \/ refund'[j] = [refund[j] EXCEPT !.status = "SUCCEEDED"]
      BY <1>1 DEF RowsOfRefundsKept
    <3>3. QED BY <3>1, <3>2 DEF RefundRows
  <2>2. ASSUME NEW d \in Callers PROVE AskShape(d)'
    <3>1. CASE d = c
      BY <1>1, <3>1 DEF AskShape, Asking
    <3>2. CASE d # c
      <4>1. call'[d] = call[d] /\ AskShape(d)
        BY <1>1, <3>2 DEF Only, MInv, AskInv
      <4>2. CASE call[d].pc \in Asking
        BY <1>1, <2>1, <4>1, <4>2 DEF AskShape
      <4>3. CASE call[d].pc \notin Asking
        BY <4>1, <4>3 DEF AskShape, Asking
      <4>4. QED BY <4>2, <4>3
    <3>3. QED BY <3>1, <3>2
  <2>3. \A d, e \in Callers :
          call'[d].pc \in Asking /\ call'[e].pc \in Asking /\ call'[d].id = call'[e].id => d = e
    BY <1>1 DEF MInv, AskInv, Only, Asking
  <2>4. \A j \in Refunds : refund'[j].linked =>
          refund'[j].status # "none" /\ refund'[j].amount = stripe'.refunds[j]
    BY <1>1, <2>1 DEF MInv, AskInv
  <2>5. QED BY <2>2, <2>3, <2>4 DEF AskInv
<1>5. QED BY <1>1, <1>2, <1>3, <1>4 DEF MInv

LEMMA DashboardKeeps ==
  ASSUME MInv, Typed', NEW i \in Refunds, DashboardGave(i),
         UNCHANGED <<settlement, recoveries, payable, recoverable, refund, mirrored, call>>
  PROVE  MInv'
<1>1. PICK e \in Events :
        /\ e.kind = "refund" /\ e.s = i[1] /\ Status(i[1]) # "none"
        /\ Unused(i) /\ UNCHANGED payout
        /\ events' = events \cup {e}
        /\ \A j \in Refunds \ {i} : stripe'.refunds[j] = stripe.refunds[j]
        /\ \A f \in {"sent", "reversals", "where", "lost", "guessed"} : stripe'[f] = stripe[f]
  BY DEF DashboardGave
<1>2. \A pcs : Aside(pcs)
  BY DEF Aside
<1>3. /\ stripe'.sent = stripe.sent /\ stripe'.reversals = stripe.reversals
      /\ stripe'.where = stripe.where /\ stripe'.guessed = stripe.guessed
  BY <1>1
<1>4. PayInv'
  BY <1>1, <1>2, <1>3, SameSettlement, PayStays DEF PayKept, PayoutKept, MInv
<1>5. TakeInv'
  <2>1. \A s \in Settlements : stripe.sent[s] <= stripe'.sent[s]
    BY <1>3 DEF MInv, Typed, StripeOK, StripeStates
  <2>2. QED BY <1>1, <1>2, <1>3, <2>1, SameSettlement, TakeStays DEF TakeKept, MInv
<1>6. BankInv'
  BY <1>1, <1>2, <1>3, SameSettlement, BankStays DEF BankKept, MInv
<1>7. KnownInv'
  BY <1>1, KnownStays DEF KnownKept, Status, MInv
<1>8. AskInv'
  <2>1. ASSUME NEW d \in Callers PROVE AskShape(d)'
    <3>1. AskShape(d)
      BY DEF MInv, AskInv
    <3>2. CASE call[d].pc \in Asking
      <4>1. call[d].id \in Refunds \ {i}
        BY <1>1, <3>1, <3>2 DEF AskShape, Unused
      <4>2. stripe'.refunds[call[d].id] = stripe.refunds[call[d].id]
        BY <1>1, <4>1
      <4>3. QED BY <3>1, <3>2, <4>2 DEF AskShape
    <3>3. CASE call[d].pc \notin Asking
      BY <3>1, <3>3 DEF AskShape, Asking
    <3>4. QED BY <3>2, <3>3
  <2>2. \A j \in Refunds : refund[j].linked =>
          refund[j].status # "none" /\ refund[j].amount = stripe'.refunds[j]
    BY <1>1 DEF MInv, AskInv, Unused
  <2>3. QED BY <2>1, <2>2 DEF MInv, AskInv
<1>9. NetInv' /\ RecoveryInv'
  BY DEF MInv, NetInv, RecoveryInv
<1>10. QED BY <1>4, <1>5, <1>6, <1>7, <1>8, <1>9 DEF MInv
-------------------------------------------------------------------------------
(***************************************************************************)
(* The steps that take money back.                                         *)
(***************************************************************************)
\* A caller that neither refunds nor pays goes on; the rows stay as they are.
LEMMA CallGoesOn ==
  ASSUME MInv, Typed', NEW c \in Callers, Only(c), UNCHANGED <<Rows, refund>>,
         \A f \in {"sent", "refunds", "where", "guessed"} : stripe'[f] = stripe[f],
         \A e \in events' \ events : e.kind = "transfer",
         call'[c].pc \in {"idle", "recover", "open"} \cup Taking \cup Plain,
         call'[c].pc # "idle" => call'[c].s \in Settlements /\ Status(call'[c].s) # "none",
         TakeInv'
  PROVE  MInv'
<1>1. /\ Aside({"refund"} \cup Asking)
      /\ Aside({"claim", "manualRow", "manual"} \cup Transferring)
      /\ Aside(Attributing)
  BY OnlyAside DEF Transferring, Taking, Attributing, Asking, Plain
<1>2. /\ stripe'.sent = stripe.sent /\ stripe'.refunds = stripe.refunds
      /\ stripe'.where = stripe.where /\ stripe'.guessed = stripe.guessed
  OBVIOUS
<1>3. UNCHANGED <<settlement, payout, recoveries>>
  BY DEF Rows
<1>4. AskInv'
  BY <1>1, <1>2, AskStays DEF AskKept, MInv
<1>5. PayInv'
  BY <1>1, <1>2, <1>3, SameSettlement, PayStays DEF PayKept, PayoutKept, MInv
<1>6. BankInv'
  BY <1>1, <1>2, <1>3, SameSettlement, BankStays DEF BankKept, MInv
<1>7. KnownInv'
  BY <1>3, KnownStays DEF KnownKept, Only, Status, MInv
<1>8. NetInv' /\ RecoveryInv'
  BY <1>3 DEF NetInv, RecoveryInv, MInv
<1>9. QED BY <1>4, <1>5, <1>6, <1>7, <1>8 DEF MInv

LEMMA TakeGoesOn ==
  ASSUME MInv, NEW c \in Callers, Only(c), UNCHANGED <<Rows, events>>,
         stripe'.reversals = stripe.reversals, stripe'.sent = stripe.sent, TakeShape(c)'
  PROVE  TakeInv'
<1>1. UNCHANGED <<settlement, payout>>
  BY DEF Rows
<1>2. ASSUME NEW d \in Callers PROVE TakeShape(d)'
  <2>1. CASE d = c
    BY <2>1
  <2>2. CASE d # c
    BY <1>1, <2>2 DEF MInv, TakeInv, TakeShape, Only, Status
  <2>3. QED BY <2>1, <2>2
<1>3. QED BY <1>2 DEF MInv, TakeInv

LEMMA ApplyReadKeeps ==
  ASSUME MInv, NEW c \in Callers, ApplyRead(c)
  PROVE  MInv'
<1>1. /\ Typed' /\ Only(c) /\ UNCHANGED <<Rows, World>>
      /\ call[c].pc = "apply"
      /\ \/ ToldOf(c)
         \/ Status(call[c].s) \in Paid /\ call'[c] = [call[c] EXCEPT !.pc = "recover"]
         \/ /\ Status(call[c].s) \notin Paid
            /\ call'[c] = [call[c] EXCEPT !.pc = "writeOff", !.net = settlement[call[c].s].net]
         \/ \E n \in Int : call'[c] = [call[c] EXCEPT !.pc = "reduce", !.net = n]
  BY ApplyReadTyped DEF MInv
<1>2. call[c] \in Calls /\ call[c].s \in Settlements /\ Status(call[c].s) # "none"
  BY <1>1 DEF MInv, Typed, CallsOK, KnownInv, Attributing
<1>3. /\ call'[c].pc \in {"idle", "event", "recover", "writeOff", "reduce"}
      /\ call'[c].pc # "idle" => call'[c].s = call[c].s
      /\ call'[c].pc = "recover" => Status(call[c].s) \in Paid
  BY <1>1, <1>2, IdleTyped DEF ToldOf, Calls
<1>4. TakeShape(c)'
  BY <1>1, <1>3 DEF TakeShape, Taking, Rows, Status
<1>5. TakeInv'
  BY <1>1, <1>4, TakeGoesOn DEF World
<1>6. QED BY <1>1, <1>2, <1>3, <1>5, CallGoesOn DEF World, Plain

LEMMA DisputeLostKeeps ==
  ASSUME MInv, NEW c \in Callers, NEW s \in Settlements, DisputeLost(c, s)
  PROVE  MInv'
<1>1. /\ Typed' /\ Only(c) /\ UNCHANGED <<Rows, events, refund, mirrored>>
      /\ Status(s) # "none" /\ call[c].pc = "idle"
      /\ \A f \in {"sent", "reversals", "where", "refunds", "guessed"} : stripe'[f] = stripe[f]
      /\ call'[c].s = s
      /\ \/ Status(s) \in Paid /\ call'[c].pc = "recover"
         \/ Status(s) \notin Paid /\ call'[c].pc = "lose"
  BY DisputeLostTyped DEF MInv
<1>2. TakeShape(c)'
  BY <1>1 DEF TakeShape, Taking, Rows, Status
<1>3. TakeInv'
  BY <1>1, <1>2, TakeGoesOn
<1>4. QED BY <1>1, <1>3, CallGoesOn DEF Plain

LEMMA RecoverKeeps ==
  ASSUME MInv, NEW c \in Callers, Recover(c)
  PROVE  MInv'
<1> DEFINE s == call[c].s
<1>1. /\ Typed' /\ Only(c) /\ UNCHANGED <<Rows, World>>
      /\ call[c].pc = "recover"
      /\ \/ ToldOf(c)
         \/ \E n \in Int :
              /\ 0 < n /\ n <= Recoverable(s)
              /\ call'[c].s = s /\ call'[c].amount = n
              /\ call'[c].net = payout[s].reversed
              /\ \/ payout[s].sent /\ call'[c].pc = "reverse"
                 \/ ~ payout[s].sent /\ call'[c].pc = "open"
  BY RecoverTyped DEF MInv
<1>2. call[c] \in Calls /\ s \in Settlements /\ Status(s) \in Paid
  BY <1>1 DEF MInv, Typed, CallsOK, TakeInv, TakeShape
<1>3. CASE ToldOf(c)
  <2>1. call'[c].pc \in {"idle", "event"} /\ (call'[c].pc # "idle" => call'[c].s = s)
    BY <1>2, <1>3, IdleTyped DEF ToldOf, Calls
  <2>2. TakeShape(c)'
    BY <2>1 DEF TakeShape, Taking
  <2>3. TakeInv'
    BY <1>1, <2>2, TakeGoesOn DEF World
  <2>4. Status(s) # "none"
    BY <1>2 DEF Paid
  <2>5. QED BY <1>1, <1>2, <2>1, <2>3, <2>4, CallGoesOn DEF World, Plain
<1>4. CASE \E n \in Int :
              /\ 0 < n /\ n <= Recoverable(s)
              /\ call'[c].s = s /\ call'[c].amount = n
              /\ call'[c].net = payout[s].reversed
              /\ \/ payout[s].sent /\ call'[c].pc = "reverse"
                 \/ ~ payout[s].sent /\ call'[c].pc = "open"
  <2>1. PICK n \in Int :
              /\ 0 < n /\ n <= Recoverable(s)
              /\ call'[c].s = s /\ call'[c].amount = n
              /\ call'[c].net = payout[s].reversed
              /\ \/ payout[s].sent /\ call'[c].pc = "reverse"
                 \/ ~ payout[s].sent /\ call'[c].pc = "open"
    BY <1>4
  <2>2. PayoutShape(s) /\ payout[s] \in PayoutRows
    BY <1>2 DEF MInv, PayInv, Typed, RowsOK
  <2>3. payout[s].sent => payout[s].reversed >= 0 /\ payout[s].reversed + n <= payout[s].amount
    BY <2>1, <2>2 DEF PayoutShape, Recoverable, PayoutRows
  <2>4. UNCHANGED <<settlement, payout>>
    BY <1>1 DEF Rows
  <2>5. TakeShape(c)'
    BY <1>2, <2>1, <2>3, <2>4 DEF TakeShape, Taking, Status
  <2>6. TakeInv'
    BY <1>1, <2>5, TakeGoesOn DEF World
  <2>7. Status(s) # "none"
    BY <1>2 DEF Paid
  <2>8. QED BY <1>1, <1>2, <2>1, <2>6, <2>7, CallGoesOn DEF World, Taking
<1>5. QED BY <1>1, <1>3, <1>4

LEMMA ReverseKeeps ==
  ASSUME MInv, NEW c \in Callers, Reverse(c)
  PROVE  MInv'
<1>1. /\ Typed' /\ Only(c) /\ UNCHANGED <<Rows, refund, mirrored>>
      /\ call[c].pc = "reverse"
      /\ TakenBack(c) \/ UNCHANGED <<stripe, events>>
      /\ \/ call'[c] = Idle
         \/ call'[c] = [call[c] EXCEPT !.pc = "reversed"]
         \/ call'[c] = [call[c] EXCEPT !.pc = "open"]
  BY ReverseTyped DEF MInv, TakeInv
<1>2. /\ call[c] \in Calls /\ call[c].s \in Settlements /\ TakeShape(c)
      /\ Status(call[c].s) # "none" /\ call[c].amount > 0
  BY <1>1 DEF MInv, Typed, CallsOK, TakeInv, TakeShape, Taking, KnownInv, Attributing
<1>3. /\ call'[c].pc \in {"idle", "reversed", "open"}
      /\ call'[c].pc # "idle" => /\ call'[c].s = call[c].s
                                 /\ call'[c].amount = call[c].amount /\ call'[c].net = call[c].net
  BY <1>1, <1>2, IdleTyped DEF Calls
<1>4. UNCHANGED <<settlement, payout>>
  BY <1>1 DEF Rows
<1>5. TakeShape(c)'
  BY <1>1, <1>2, <1>3, <1>4 DEF TakeShape, Taking, Status
<1>6. CASE UNCHANGED <<stripe, events>>
  <2>1. TakeInv'
    BY <1>1, <1>5, <1>6, TakeGoesOn
  <2>2. QED BY <1>1, <1>2, <1>3, <1>6, <2>1, CallGoesOn DEF Taking
<1>7. CASE TakenBack(c)
  <2>1. PICK key \in Reversals, e \in Events :
          /\ key.s = call[c].s /\ key.amount = call[c].amount
          /\ e.kind = "transfer" /\ e.s = key.s /\ e.amount = ReversedAt(key.s) + key.amount
          /\ e.amount <= stripe.sent[key.s] /\ stripe.where[key.s] \in {"balance", "bounced"}
          /\ events' = events \cup {e}
          /\ stripe'.reversals = stripe.reversals \cup {key}
          /\ \A f \in {"sent", "refunds", "where", "lost", "guessed"} : stripe'[f] = stripe[f]
    BY <1>7 DEF TakenBack
  <2>2. 0 <= e.amount
    <3>1. ReversedAt(key.s) \in Nat
      BY ReversedNat DEF MInv, Typed, TakeInv
    <3>2. key.amount \in Int /\ key.amount > 0
      BY <1>2, <2>1 DEF Reversals
    <3>3. QED BY <2>1, <3>1, <3>2
  <2>3. stripe'.sent = stripe.sent
    BY <2>1
  <2>4. ASSUME NEW d \in Callers PROVE TakeShape(d)'
    <3>1. CASE d = c
      BY <1>5, <3>1
    <3>2. CASE d # c
      BY <1>1, <1>4, <3>2 DEF MInv, TakeInv, TakeShape, Only, Status
    <3>3. QED BY <3>1, <3>2
  <2>5. TakeInv'
    BY <1>2, <2>1, <2>2, <2>3, <2>4 DEF MInv, TakeInv
  <2>6. QED BY <1>1, <1>2, <1>3, <2>1, <2>5, CallGoesOn DEF Taking
<1>8. QED BY <1>1, <1>6, <1>7

\* Only one payout row changes, in what it says of reversals.
LEMMA PayRow ==
  ASSUME Typed, PayInv, UNCHANGED settlement, stripe'.sent = stripe.sent, NEW s \in Settlements,
         \A t \in Settlements \ {s} : payout'[t] = payout[t],
         payout'[s].provider = payout[s].provider, payout'[s].amount = payout[s].amount,
         payout'[s].sent = payout[s].sent, PayoutShape(s)',
         Aside({"claim", "manualRow", "manual"} \cup Transferring)
  PROVE  PayInv'
<1>1. ASSUME NEW t \in Settlements PROVE PayoutShape(t)'
  <2>1. CASE t = s
    BY <2>1
  <2>2. CASE t # s
    BY <2>2 DEF PayInv, PayoutShape, Status
  <2>3. QED BY <2>1, <2>2
<1>2. ASSUME NEW d \in Callers PROVE PayShape(d)'
  <2>1. CASE call'[d].pc \notin {"claim", "manualRow", "manual"} \cup Transferring
    BY <2>1 DEF PayShape, Transferring
  <2>2. CASE call'[d] = call[d] /\ call[d].pc \in {"claim", "manualRow", "manual"} \cup Transferring
    <3>1. call[d].s \in Settlements /\ PayShape(d)
      BY <2>2 DEF Typed, CallsOK, Transferring, PayInv
    <3>2. /\ payout'[call[d].s].provider = payout[call[d].s].provider
          /\ payout'[call[d].s].amount = payout[call[d].s].amount
          /\ payout'[call[d].s].sent = payout[call[d].s].sent
      BY <3>1
    <3>3. QED BY <2>2, <3>1, <3>2 DEF PayShape, Status
  <2>3. QED BY <2>1, <2>2 DEF Aside
<1>3. \A c, d \in Callers :
        call'[c].pc \in Transferring /\ call'[d].pc \in Transferring /\ call'[c].s = call'[d].s => c = d
  BY DEF PayInv, Aside
<1>4. QED BY <1>1, <1>2, <1>3 DEF PayInv

\* The row of s, whose transfer was sent, takes n as what was reversed.
LEMMA ReversedStores ==
  ASSUME MInv, NEW s \in Settlements, payout[s].sent,
         NEW n \in Int, 0 <= n, n <= payout[s].amount, NEW st \in PayoutStatuses,
         payout' = [payout EXCEPT ![s].reversed = n, ![s].status = st],
         UNCHANGED settlement, stripe'.sent = stripe.sent
  PROVE  /\ \A t \in Settlements \ {s} : payout'[t] = payout[t]
         /\ payout'[s].provider = payout[s].provider /\ payout'[s].amount = payout[s].amount
         /\ payout'[s].sent = payout[s].sent /\ PayoutShape(s)'
         /\ \A t \in Settlements :
              payout[t].sent => payout'[t].sent /\ payout'[t].amount = payout[t].amount
<1>1. payout \in [Settlements -> PayoutRows] /\ PayoutShape(s)
  BY DEF MInv, Typed, RowsOK, PayInv
<1>2. /\ \A t \in Settlements \ {s} : payout'[t] = payout[t]
      /\ payout'[s].provider = payout[s].provider /\ payout'[s].amount = payout[s].amount
      /\ payout'[s].sent = payout[s].sent /\ payout'[s].reversed = n
  BY <1>1 DEF PayoutRows
<1>3. PayoutShape(s)'
  BY <1>1, <1>2 DEF PayoutShape, Status
<1>4. QED BY <1>2, <1>3

LEMMA ReversedKeeps ==
  ASSUME MInv, NEW c \in Callers, Reversed(c)
  PROVE  MInv'
<1>1. /\ Typed' /\ Only(c) /\ ToldOf(c)
      /\ UNCHANGED <<settlement, recoveries, payable, recoverable, World>>
      /\ call[c].pc = "reversed"
      /\ \E s \in Settlements : s = call[c].s
  BY ReversedTyped DEF MInv
<1>2. PICK s \in Settlements : s = call[c].s
  BY <1>1
<1> DEFINE n == call[c].net + call[c].amount
<1>3. call[c] \in Calls
  BY DEF MInv, Typed, CallsOK
<1>4. PICK k \in Int : k = n
  BY <1>3 DEF Calls
<1> HIDE DEF n
<1>5. PICK st \in PayoutStatuses : payout' = [payout EXCEPT ![s].reversed = k, ![s].status = st]
  BY <1>2, <1>4, ReversedTyped DEF MInv, n
<1>6. 0 <= k /\ k <= payout[s].amount /\ payout[s].sent
  BY <1>1, <1>2, <1>3, <1>4 DEF MInv, TakeInv, TakeShape, Taking, Calls, n
<1>7. /\ \A t \in Settlements \ {s} : payout'[t] = payout[t]
      /\ payout'[s].provider = payout[s].provider /\ payout'[s].amount = payout[s].amount
      /\ payout'[s].sent = payout[s].sent /\ PayoutShape(s)'
      /\ \A t \in Settlements :
           payout[t].sent => payout'[t].sent /\ payout'[t].amount = payout[t].amount
  BY <1>1, <1>5, <1>6, ReversedStores DEF World
<1>8. call'[c].pc \in {"idle", "event"} /\ (call'[c].pc # "idle" => call'[c].s = call[c].s)
  BY <1>1, <1>3, IdleTyped DEF ToldOf, Calls
<1>9. /\ Aside({"refund"} \cup Asking) /\ Aside({"recover", "open"} \cup Taking)
      /\ Aside({"claim", "manualRow", "manual"} \cup Transferring) /\ Aside(Attributing)
  BY <1>1, <1>8, OnlyAside DEF Transferring, Taking, Attributing, Asking
<1>10. UNCHANGED <<stripe, events, refund>>
  BY <1>1 DEF World
<1>11. AskInv'
  BY <1>9, <1>10, AskStays DEF AskKept, MInv
<1>12. KnownInv'
  BY <1>1, <1>8, <1>10, KnownGoesOn DEF MInv, Attributing
<1>13. PayInv'
  BY <1>1, <1>7, <1>9, <1>10, PayRow DEF MInv
<1>14. TakeInv'
  <2>1. \A t \in Settlements : stripe.sent[t] <= stripe'.sent[t]
    BY <1>10 DEF MInv, Typed, StripeOK, StripeStates
  <2>2. QED BY <1>1, <1>7, <1>9, <1>10, <2>1, SameSettlement, TakeStays DEF TakeKept, MInv
<1>15. BankInv'
  BY <1>1, <1>9, <1>10, SameSettlement, BankStays DEF BankKept, MInv
<1>16. NetInv' /\ RecoveryInv'
  BY <1>1 DEF NetInv, RecoveryInv, MInv
<1>17. QED BY <1>1, <1>11, <1>12, <1>13, <1>14, <1>15, <1>16 DEF MInv

LEMMA EventsKeep ==
  ASSUME MInv, Typed', NEW e \in events, TransferTold(e) \/ BounceTold(e),
         UNCHANGED <<settlement, recoveries, payable, recoverable, refund, mirrored, call>>
  PROVE  MInv'
<1>1. UNCHANGED stripe /\ events' \subseteq events /\ \A pcs : Aside(pcs)
  BY DEF TransferTold, BounceTold, Aside
<1>2. payout \in [Settlements -> PayoutRows] /\ e \in Events /\ e.s \in Settlements /\ e.amount \in Int
  BY DEF MInv, Typed, RowsOK, StripeOK, Events
<1>3. /\ PayInv'
      /\ \A t \in Settlements :
           payout[t].sent => payout'[t].sent /\ payout'[t].amount = payout[t].amount
  <2>1. CASE TransferTold(e) /\ payout' # payout
    <3>1. payout[e.s].sent
      BY <2>1 DEF TransferTold
    <3>2. PICK st \in PayoutStatuses :
             payout' = [payout EXCEPT ![e.s].reversed = e.amount, ![e.s].status = st]
      BY <2>1 DEF TransferTold
    <3>3. 0 <= e.amount /\ e.amount <= payout[e.s].amount
      BY <1>2, <2>1, <3>1 DEF TransferTold, MInv, TakeInv, PayInv, PayoutShape
    <3>4. /\ \A t \in Settlements \ {e.s} : payout'[t] = payout[t]
          /\ payout'[e.s].provider = payout[e.s].provider
          /\ payout'[e.s].amount = payout[e.s].amount
          /\ payout'[e.s].sent = payout[e.s].sent /\ (PayoutShape(e.s))'
          /\ \A t \in Settlements :
               payout[t].sent => payout'[t].sent /\ payout'[t].amount = payout[t].amount
      BY <1>1, <1>2, <3>1, <3>2, <3>3, ReversedStores
    <3>5. QED BY <1>1, <1>2, <3>4, PayRow DEF MInv
  <2>2. CASE UNCHANGED payout
    BY <1>1, <2>2, SameSettlement, PayStays DEF PayKept, PayoutKept, MInv
  <2>3. CASE payout' = [payout EXCEPT ![e.s].status = "TRANSFERRED"]
    <3>1. \A t \in Settlements : PayoutKept(t)
      BY <1>2, <2>3 DEF PayoutKept, PayoutRows
    <3>2. QED BY <1>1, <3>1, SameSettlement, PayStays DEF PayKept, PayoutKept, MInv
  <2>4. QED BY <2>1, <2>2, <2>3 DEF TransferTold, BounceTold
<1>4. AskInv'
  BY <1>1, AskStays DEF AskKept, MInv
<1>5. KnownInv'
  BY <1>1, KnownStays DEF KnownKept, Status, MInv
<1>6. TakeInv'
  <2>1. \A t \in Settlements : stripe.sent[t] <= stripe'.sent[t]
    BY <1>1 DEF MInv, Typed, StripeOK, StripeStates
  <2>2. QED BY <1>1, <1>3, <2>1, SameSettlement, TakeStays DEF TakeKept, MInv
<1>7. BankInv'
  BY <1>1, SameSettlement, BankStays DEF BankKept, MInv
<1>8. NetInv' /\ RecoveryInv'
  BY DEF NetInv, RecoveryInv, MInv
<1>9. QED BY <1>3, <1>4, <1>5, <1>6, <1>7, <1>8 DEF MInv
-------------------------------------------------------------------------------
(***************************************************************************)
(* The bank's payouts.                                                     *)
(***************************************************************************)
\* Who attributes a payout does nothing else, and the rows keep their money.
LEMMA AttributingKeeps ==
  ASSUME MInv, Typed', NEW c \in Callers, Only(c), call'[c].pc \in Attributing,
         UNCHANGED <<recoveries, refund, events>>,
         \A f \in {"sent", "refunds", "reversals"} : stripe'[f] = stripe[f],
         \A s \in Settlements : StatusKept(s) /\ PayoutKept(s),
         \A s \in Settlements : /\ Status(s) # "none" => Status(s)' # "none"
                                /\ Status(s) \in Paid => Status(s)' \in Paid
                                /\ settlement'[s].net >= 0,
         BankInv'
  PROVE  MInv'
<1>1. /\ Aside({"refund"} \cup Asking)
      /\ Aside({"claim", "manualRow", "manual"} \cup Transferring)
      /\ Aside({"recover", "open"} \cup Taking)
  BY OnlyAside DEF Transferring, Taking, Attributing, Asking
<1>2. /\ stripe'.sent = stripe.sent /\ stripe'.refunds = stripe.refunds
      /\ stripe'.reversals = stripe.reversals
  OBVIOUS
<1>3. AskInv'
  BY <1>1, <1>2, AskStays DEF AskKept, MInv
<1>4. KnownInv'
  BY KnownStays DEF KnownKept, Only, MInv
<1>5. PayInv'
  BY <1>1, <1>2, PayStays DEF PayKept, MInv
<1>6. TakeInv'
  <2>1. \A s \in Settlements : stripe.sent[s] <= stripe'.sent[s]
    BY <1>2 DEF MInv, Typed, StripeOK, StripeStates
  <2>2. \A s \in Settlements :
          payout[s].sent => payout'[s].sent /\ payout'[s].amount = payout[s].amount
    BY DEF PayoutKept
  <2>3. QED BY <1>1, <1>2, <2>1, <2>2, TakeStays DEF TakeKept, MInv
<1>7. NetInv' /\ RecoveryInv'
  BY DEF NetInv, RecoveryInv, MInv
<1>8. QED BY <1>3, <1>4, <1>5, <1>6, <1>7 DEF MInv

\* The record of the caller that attributes is in order: so is the invariant.
LEMMA BankGoesOn ==
  ASSUME MInv, NEW c \in Callers, Only(c), UNCHANGED events,
         \A f \in {"sent", "where"} : stripe'[f] = stripe[f],
         stripe.guessed => stripe'.guessed,
         BankShape(c)',
         \A s \in Settlements : PaidThrough(s)' => PaidThrough(s) \/ Reached(s) \/ stripe'.guessed
  PROVE  BankInv'
<1>1. \A s \in Settlements : (Reached(s))' <=> Reached(s)
  BY DEF Reached
<1>2. ASSUME NEW d \in Callers PROVE BankShape(d)'
  <2>1. CASE d = c
    BY <2>1
  <2>2. CASE d # c
    <3>1. BankShape(d) /\ call'[d] = call[d]
      BY <2>2 DEF MInv, BankInv, Only
    <3>2. QED BY <1>1, <3>1 DEF BankShape
  <2>3. QED BY <2>1, <2>2
<1>3. PaidOutReachedBank'
  BY <1>1 DEF MInv, BankInv, PaidOutReachedBank, PaidThrough, Status, Reached
<1>4. \A e \in events' : e.kind = "payout" /\ e.full => (Reached(e.s))'
  BY DEF MInv, BankInv, Reached
<1>5. \A s \in Settlements : (Reached(s))' => stripe'.sent[s] > 0
  BY DEF MInv, BankInv, Reached
<1>6. QED BY <1>2, <1>3, <1>4, <1>5 DEF BankInv

LEMMA PayoutPaidKeeps ==
  ASSUME MInv, NEW c \in Callers, NEW e \in events, PayoutPaid(c, e)
  PROVE  MInv'
<1>1. /\ Typed' /\ Only(c) /\ UNCHANGED <<Rows, events, refund, mirrored>>
      /\ call[c].pc = "idle" /\ e.kind = "payout" /\ e.full
      /\ call'[c].pc = "payout" /\ call'[c].todo \subseteq Settlements
      /\ \A f \in {"sent", "reversals", "where", "refunds", "lost"} : stripe'[f] = stripe[f]
      /\ \/ call'[c].todo \subseteq {e.s} /\ UNCHANGED stripe
         \/ stripe'.guessed
  BY PayoutPaidTyped DEF MInv
<1>2. UNCHANGED <<settlement, payout, recoveries>>
  BY <1>1 DEF Rows
<1>3. stripe.guessed => stripe'.guessed
  BY <1>1
<1>4. BankShape(c)'
  <2>1. Reached(e.s)
    BY <1>1 DEF MInv, BankInv
  <2>2. stripe'.guessed \/ \A s \in call'[c].todo : (Reached(s))'
    BY <1>1, <2>1 DEF Reached
  <2>3. QED BY <1>1, <2>2 DEF BankShape
<1>5. BankInv'
  BY <1>1, <1>2, <1>3, <1>4, BankGoesOn, SameSettlement
<1>6. QED
  <2>1. \A s \in Settlements : StatusKept(s) /\ PayoutKept(s)
    BY <1>2, SameSettlement DEF PayoutKept
  <2>2. \A s \in Settlements : Status(s)' = Status(s) /\ settlement'[s].net >= 0
    BY <1>2 DEF Status, MInv, NetInv
  <2>3. QED BY <1>1, <1>2, <1>5, <2>1, <2>2, AttributingKeeps DEF Attributing

LEMMA PayoutRowKeeps ==
  ASSUME MInv, NEW c \in Callers, NEW s \in Settlements, PayoutRow(c, s)
  PROVE  MInv'
<1>1. /\ Typed' /\ Only(c)
      /\ UNCHANGED <<settlement, recoveries, payable, recoverable, World>>
      /\ call[c].pc = "payout" /\ s \in call[c].todo
      /\ call'[c].pc = "paid" /\ call'[c].s = s /\ call'[c].todo = call[c].todo
      /\ payout' = [payout EXCEPT ![s].status = "PAID_OUT", ![s].bank = TRUE]
  BY PayoutRowTyped DEF MInv
<1>2. UNCHANGED <<stripe, events, refund>>
  BY <1>1 DEF World
<1>3. BankShape(c)'
  <2>1. BankShape(c)
    BY DEF MInv, BankInv
  <2>2. QED BY <1>1, <1>2, <2>1 DEF BankShape, Attributing, Reached
<1>4. BankInv'
  BY <1>1, <1>2, <1>3, BankGoesOn, SameSettlement
<1>5. \A t \in Settlements : StatusKept(t) /\ PayoutKept(t)
  <2>1. payout \in [Settlements -> PayoutRows]
    BY DEF MInv, Typed, RowsOK
  <2>2. \A t \in Settlements : PayoutKept(t)
    BY <1>1, <2>1 DEF PayoutKept, PayoutRows
  <2>3. QED BY <1>1, <2>2, SameSettlement
<1>6. \A t \in Settlements : Status(t)' = Status(t) /\ settlement'[t].net >= 0
  BY <1>1 DEF Status, MInv, NetInv
<1>7. QED BY <1>1, <1>2, <1>4, <1>5, <1>6, AttributingKeeps DEF Attributing

LEMMA PayoutMoveKeeps ==
  ASSUME MInv, NEW c \in Callers, PayoutMove(c)
  PROVE  MInv'
<1>1. /\ Typed' /\ Only(c) /\ UNCHANGED <<payout, recoveries, payable, recoverable, World>>
      /\ call[c].pc = "paid" /\ call'[c].pc = "payout"
      /\ call'[c].todo \subseteq call[c].todo
      /\ \/ /\ Status(call[c].s) = "TRANSFERRED"
            /\ MovesTo(call[c].s, "PAID_OUT", settlement[call[c].s].method)
         \/ UNCHANGED settlement
  BY PayoutMoveTyped DEF MInv
<1>2. UNCHANGED <<stripe, events, refund>> /\ call[c].s \in Settlements
  BY <1>1 DEF World, MInv, Typed, CallsOK
<1>3. /\ call[c].todo \subseteq Settlements /\ call[c].s \in call[c].todo
      /\ stripe.guessed \/ \A s \in call[c].todo : Reached(s)
  BY <1>1 DEF MInv, BankInv, BankShape, Attributing
<1>4. BankShape(c)'
  BY <1>1, <1>2, <1>3 DEF BankShape, Reached
<1>5. \A s \in Settlements :
        /\ StatusKept(s)
        /\ Status(s) # "none" => Status(s)' # "none"
        /\ Status(s) \in Paid => Status(s)' \in Paid
        /\ settlement'[s].net >= 0
        /\ PaidThrough(s)' => PaidThrough(s) \/ s = call[c].s
  BY <1>1, <1>2 DEF MovesTo, StatusKept, Status, Paid, PaidThrough, MInv, NetInv
<1>6. BankInv'
  <2>1. \A s \in Settlements : PaidThrough(s)' => PaidThrough(s) \/ Reached(s) \/ stripe'.guessed
    BY <1>2, <1>3, <1>5
  <2>2. QED BY <1>1, <1>2, <1>4, <2>1, BankGoesOn
<1>7. \A s \in Settlements : PayoutKept(s)
  BY <1>1 DEF PayoutKept
<1>8. QED BY <1>1, <1>2, <1>5, <1>6, <1>7, AttributingKeeps DEF Attributing

LEMMA BankKeeps ==
  ASSUME MInv, Typed', NEW s \in Settlements, BankMoved(s),
         UNCHANGED <<settlement, recoveries, payable, recoverable, refund, mirrored, call>>
  PROVE  MInv'
<1>1. PICK e \in Events :
        /\ e.kind = "payout" /\ e.s = s
        /\ UNCHANGED payout /\ events' = events \cup {e}
        /\ \A f \in {"sent", "reversals", "refunds", "lost", "guessed"} : stripe'[f] = stripe[f]
        /\ \A t \in Settlements \ {s} : stripe'.where[t] = stripe.where[t]
        /\ \/ /\ stripe.where[s] = "balance" /\ stripe'.where[s] = "bank"
              /\ ReversedAt(s) < stripe.sent[s]
           \/ stripe.where[s] = "bank" /\ stripe'.where[s] = "bounced" /\ ~ e.full
  BY DEF BankMoved
<1>2. \A pcs : Aside(pcs)
  BY DEF Aside
<1>3. /\ stripe'.sent = stripe.sent /\ stripe'.reversals = stripe.reversals
      /\ stripe'.refunds = stripe.refunds /\ stripe'.guessed = stripe.guessed
  BY <1>1
<1>4. AskInv'
  BY <1>2, <1>3, AskStays DEF AskKept, MInv
<1>5. KnownInv'
  BY <1>1, KnownStays DEF KnownKept, Status, MInv
<1>6. PayInv'
  BY <1>1, <1>2, <1>3, SameSettlement, PayStays DEF PayKept, PayoutKept, MInv
<1>7. TakeInv'
  <2>1. \A t \in Settlements : stripe.sent[t] <= stripe'.sent[t]
    BY <1>3 DEF MInv, Typed, StripeOK, StripeStates
  <2>2. QED BY <1>1, <1>2, <1>3, <2>1, SameSettlement, TakeStays DEF TakeKept, MInv
<1>8. BankInv'
  <2>1. (Reached(s))' /\ \A t \in Settlements : Reached(t) => (Reached(t))'
    BY <1>1 DEF Reached
  <2>2. \A t \in Settlements \ {s} : (Reached(t))' => Reached(t)
    BY <1>1 DEF Reached
  <2>3. stripe'.sent[s] > 0
    <3>1. ReversedAt(s) \in Nat /\ stripe.sent[s] \in Int
      BY ReversedNat DEF MInv, Typed, TakeInv, StripeOK, StripeStates
    <3>2. CASE ReversedAt(s) < stripe.sent[s]
      BY <1>3, <3>1, <3>2
    <3>3. CASE stripe.where[s] = "bank"
      BY <1>3, <3>3 DEF MInv, BankInv, Reached
    <3>4. QED BY <1>1, <3>2, <3>3
  <2>4. ASSUME NEW d \in Callers PROVE BankShape(d)'
    <3>1. BankShape(d)
      BY DEF MInv, BankInv
    <3>2. stripe'.guessed <=> stripe.guessed
      BY <1>3
    <3>3. call[d].pc \in Attributing => call[d].todo \subseteq Settlements
      BY <3>1 DEF BankShape
    <3>4. QED BY <2>1, <3>1, <3>2, <3>3 DEF BankShape
  <2>5. ASSUME NEW f \in events', f.kind = "payout", f.full PROVE (Reached(f.s))'
    <3>1. CASE f \in events
      <4>1. f.s \in Settlements
        BY <3>1 DEF MInv, Typed, StripeOK, Events
      <4>2. Reached(f.s)
        BY <2>5, <3>1 DEF MInv, BankInv
      <4>3. QED BY <2>1, <4>1, <4>2
    <3>2. CASE f = e
      BY <1>1, <2>1, <3>2
    <3>3. QED BY <1>1, <3>1, <3>2
  <2>6. PaidOutReachedBank'
    BY <1>3, <2>1 DEF MInv, BankInv, PaidOutReachedBank, Reached, Status
  <2>7. \A t \in Settlements : (Reached(t))' => stripe'.sent[t] > 0
    BY <1>3, <2>2, <2>3 DEF MInv, BankInv
  <2>8. QED BY <2>4, <2>5, <2>6, <2>7 DEF BankInv
<1>9. NetInv' /\ RecoveryInv'
  BY DEF NetInv, RecoveryInv, MInv
<1>10. QED BY <1>4, <1>5, <1>6, <1>7, <1>8, <1>9 DEF MInv
-------------------------------------------------------------------------------
(***************************************************************************)
(* The steps that pay.                                                     *)
(***************************************************************************)
\* A caller that pays, of a settlement that was sold, refunds and takes nothing.
LEMMA PayingKeeps ==
  ASSUME MInv, Typed', NEW c \in Callers, Only(c), UNCHANGED <<refund, events>>,
         call'[c].pc \in {"idle", "claim", "withhold", "manualRow", "manual"} \cup Transferring,
         call'[c].pc # "idle" => call'[c].s \in Settlements /\ Status(call'[c].s) # "none",
         stripe'.refunds = stripe.refunds, stripe'.reversals = stripe.reversals,
         \A s \in Settlements : /\ Status(s) # "none" => Status(s)' # "none"
                                /\ Status(s) \in Paid => Status(s)' \in Paid
                                /\ settlement'[s].net >= 0
                                /\ stripe.sent[s] <= stripe'.sent[s]
                                /\ payout[s].sent => /\ payout'[s].sent
                                                     /\ payout'[s].amount = payout[s].amount,
         PayInv', BankInv', RecoveryInv'
  PROVE  MInv'
<1>1. Aside({"refund"} \cup Asking) /\ Aside({"recover", "open"} \cup Taking)
  BY OnlyAside DEF Transferring, Taking, Asking
<1>2. AskInv'
  BY <1>1, AskStays DEF AskKept, MInv
<1>3. KnownInv'
  <2>1. call'[c].pc # "idle" => settlement'[call'[c].s].status # "none"
    BY DEF Status
  <2>2. QED BY <2>1, KnownStays DEF KnownKept, Only, MInv
<1>4. TakeInv'
  BY <1>1, TakeStays DEF TakeKept, MInv
<1>5. NetInv'
  BY DEF NetInv
<1>6. QED BY <1>2, <1>3, <1>4, <1>5 DEF MInv

\* Only what is known of settlement s, and the record of c, changes.
LEMMA PayGoesOn ==
  ASSUME MInv, NEW c \in Callers, Only(c), NEW s \in Settlements,
         \A t \in Settlements \ {s} : /\ settlement'[t] = settlement[t] /\ payout'[t] = payout[t]
                                      /\ stripe'.sent[t] = stripe.sent[t],
         PayoutShape(s)', PayShape(c)',
         \A d \in Callers \ {c} :
           call[d].pc \in Transferring /\ call[d].s = s => PayShape(d)',
         call'[c].pc \in Transferring =>
           /\ call'[c].s = s
           /\ \A d \in Callers \ {c} : ~ (call[d].pc \in Transferring /\ call[d].s = s)
  PROVE  PayInv'
<1>1. ASSUME NEW t \in Settlements PROVE PayoutShape(t)'
  <2>1. CASE t = s
    BY <2>1
  <2>2. CASE t # s
    BY <2>2 DEF MInv, PayInv, PayoutShape, Status
  <2>3. QED BY <2>1, <2>2
<1>2. ASSUME NEW d \in Callers PROVE PayShape(d)'
  <2>1. CASE d = c
    BY <2>1
  <2>2. CASE d # c /\ call[d].pc \in Transferring
    <3>1. call'[d] = call[d] /\ PayShape(d) /\ call[d].s \in Settlements
      BY <2>2 DEF MInv, Typed, CallsOK, PayInv, Only, Transferring
    <3>2. CASE call[d].s # s
      BY <3>1, <3>2 DEF PayShape, Status
    <3>3. QED BY <2>2, <3>2
  <2>3. CASE d # c /\ call[d].pc \notin Transferring
    BY <2>3 DEF MInv, PayInv, Only, PayShape, Transferring
  <2>4. QED BY <2>1, <2>2, <2>3
<1>3. ASSUME NEW d \in Callers, NEW e \in Callers,
             call'[d].pc \in Transferring, call'[e].pc \in Transferring, call'[d].s = call'[e].s
      PROVE  d = e
  BY <1>3 DEF MInv, PayInv, Only
<1>4. QED BY <1>1, <1>2, <1>3 DEF PayInv

\* Nobody else transfers a settlement that c transfers.
LEMMA Alone ==
  ASSUME MInv, NEW c \in Callers, call[c].pc \in Transferring
  PROVE  \A d \in Callers \ {c} : ~ (call[d].pc \in Transferring /\ call[d].s = call[c].s)
BY DEF MInv, PayInv

\* A call begins or goes on with a settlement, and nothing else changes.
LEMMA ReadKeeps ==
  ASSUME MInv, Typed', NEW c \in Callers, Only(c), UNCHANGED <<Rows, World>>,
         call'[c].pc \in {"idle", "claim", "withhold", "manualRow", "manual"},
         call'[c].pc # "idle" => call'[c].s \in Settlements /\ Status(call'[c].s) # "none",
         PayShape(c)'
  PROVE  MInv'
<1>1. UNCHANGED <<settlement, payout, recoveries, stripe, events, refund>>
  BY DEF Rows, World
<1>2. PayInv'
  <2>1. ASSUME NEW d \in Callers PROVE PayShape(d)'
    <3>1. CASE d = c
      BY <3>1
    <3>2. CASE d # c
      BY <1>1, <3>2 DEF MInv, PayInv, PayShape, Only, Status
    <3>3. QED BY <3>1, <3>2
  <2>2. \A s \in Settlements : PayoutShape(s)'
    BY <1>1 DEF MInv, PayInv, PayoutShape, Status
  <2>3. QED BY <2>1, <2>2 DEF MInv, PayInv, Only, Transferring
<1>3. BankInv'
  <2>1. Aside(Attributing)
    BY OnlyAside DEF Attributing
  <2>2. QED BY <1>1, <2>1, SameSettlement, BankStays DEF BankKept, MInv
<1>4. \A s \in Settlements : /\ Status(s)' = Status(s) /\ settlement'[s].net >= 0
                             /\ stripe.sent[s] <= stripe'.sent[s]
  BY <1>1 DEF Status, MInv, NetInv, Typed, StripeOK, StripeStates
<1>5. RecoveryInv'
  BY <1>1 DEF MInv, RecoveryInv
<1>6. QED BY <1>1, <1>2, <1>3, <1>4, <1>5, PayingKeeps

LEMMA TransferReadKeeps ==
  ASSUME MInv, NEW c \in Callers, NEW s \in Settlements, TransferRead(c, s)
  PROVE  MInv'
<1>1. /\ Typed' /\ Only(c) /\ UNCHANGED <<Rows, World>>
      /\ call[c].pc = "idle" /\ Status(s) = "ELIGIBLE" /\ call'[c].s = s
      /\ \E net, offset \in Int :
           /\ net = settlement[s].net /\ offset = Offset(net)
           /\ call'[c].net = net /\ call'[c].offset = offset /\ call'[c].amount = net - offset
           /\ \/ net - offset <= 0 /\ call'[c].pc = "withhold"
              \/ net - offset > 0 /\ call'[c].pc = "claim"
  BY TransferReadTyped DEF MInv
<1>2. /\ call'[c].pc \in {"withhold", "claim"}
      /\ call'[c].pc = "claim" => call'[c].amount > 0
  BY <1>1
<1>3. PayShape(c)'
  BY <1>2 DEF PayShape, Transferring
<1>4. QED BY <1>1, <1>2, <1>3, ReadKeeps

LEMMA ManualReadKeeps ==
  ASSUME MInv, NEW c \in Callers, NEW s \in Settlements, ManualRead(c, s)
  PROVE  MInv'
<1>1. /\ Typed' /\ Only(c) /\ UNCHANGED <<Rows, World>>
      /\ call[c].pc = "idle" /\ Status(s) \in {"ELIGIBLE", "TRANSFER_FAILED"}
      /\ call'[c].pc = "manualRow" /\ call'[c].s = s /\ call'[c].net = settlement[s].net
  BY ManualReadTyped DEF MInv
<1>2. PayShape(c)'
  BY <1>1 DEF PayShape, Transferring, MInv, NetInv
<1>3. QED BY <1>1, <1>2, ReadKeeps

LEMMA ClaimKeeps ==
  ASSUME MInv, NEW c \in Callers, Claim(c)
  PROVE  MInv'
<1>1. /\ Typed' /\ Only(c) /\ UNCHANGED <<payout, recoveries, payable, recoverable, World>>
      /\ call[c].pc = "claim"
      /\ \E s \in Settlements : s = call[c].s
  BY ClaimTyped DEF MInv, Typed, CallsOK
<1>2. PICK s \in Settlements : s = call[c].s
  BY <1>1
<1>3. \/ /\ Status(s) = "ELIGIBLE"
         /\ MovesTo(s, "TRANSFER_PENDING", "STRIPE_CONNECT")
         /\ call'[c] = [call[c] EXCEPT !.pc = "row"]
      \/ UNCHANGED settlement /\ call'[c] = Idle
  BY <1>2, ClaimTyped DEF MInv
<1>4. UNCHANGED <<stripe, events, refund>> /\ call[c] \in Calls
  BY <1>1 DEF World, MInv, Typed, CallsOK
<1>5. CASE UNCHANGED settlement /\ call'[c] = Idle
  <2>1. PayShape(c)' /\ call'[c].pc = "idle" /\ UNCHANGED Rows
    BY <1>1, <1>5, IdleTyped DEF PayShape, Transferring, Rows
  <2>2. QED BY <1>1, <2>1, ReadKeeps
<1>6. CASE /\ Status(s) = "ELIGIBLE"
           /\ MovesTo(s, "TRANSFER_PENDING", "STRIPE_CONNECT")
           /\ call'[c] = [call[c] EXCEPT !.pc = "row"]
  <2>1. call'[c].pc = "row" /\ call'[c].s = s /\ call'[c].amount = call[c].amount
    BY <1>2, <1>4, <1>6 DEF Calls
  <2>2. \A d \in Callers : ~ (call[d].pc \in Transferring /\ call[d].s = s)
    BY <1>6 DEF MInv, PayInv, PayShape
  <2>3. PayoutShape(s) /\ ~ payout[s].sent /\ stripe.sent[s] = 0
    <3>1. stripe.sent[s] \in Int
      BY <1>1 DEF MInv, Typed, StripeOK, StripeStates
    <3>2. QED BY <1>6, <3>1 DEF MInv, PayInv, PayoutShape, Paid
  <2>4. Status(s)' = "TRANSFER_PENDING"
    BY <1>6 DEF MovesTo, Status
  <2>5. PayoutShape(s)'
    BY <1>1, <1>4, <2>3, <2>4 DEF PayoutShape
  <2>6. call[c].amount > 0
    BY <1>1 DEF MInv, PayInv, PayShape
  <2>7. PayShape(c)'
    BY <1>1, <1>4, <2>1, <2>3, <2>4, <2>6 DEF PayShape, Transferring, Status
  <2>8. PayInv'
    BY <1>1, <1>4, <1>6, <2>1, <2>2, <2>5, <2>7, PayGoesOn DEF MovesTo
  <2>9. \A t \in Settlements : /\ Status(t) # "none" => Status(t)' # "none"
                               /\ Status(t) \in Paid => Status(t)' \in Paid
                               /\ PaidThrough(t)' => PaidThrough(t)
                               /\ settlement'[t].net >= 0
                               /\ stripe.sent[t] <= stripe'.sent[t]
    BY <1>4, <1>6 DEF MovesTo, Status, Paid, PaidThrough, MInv, NetInv, Typed, StripeOK, StripeStates
  <2>10. BankInv'
    <3>1. Aside(Attributing)
      BY <1>1, <2>1, OnlyAside DEF Attributing
    <3>2. QED BY <1>4, <2>9, <3>1, BankStays DEF BankKept, MInv
  <2>11. RecoveryInv'
    BY <1>1 DEF MInv, RecoveryInv
  <2>12. Status(s) # "none"
    BY <1>6
  <2>13. Status(call'[c].s) # "none" /\ call'[c].s \in Settlements
    BY <2>1, <2>12
  <2>14. QED BY <1>1, <1>4, <2>1, <2>8, <2>9, <2>10, <2>11, <2>13, PayingKeeps DEF Transferring
<1>7. QED BY <1>3, <1>5, <1>6

LEMMA TransferRowKeeps ==
  ASSUME MInv, NEW c \in Callers, TransferRow(c)
  PROVE  MInv'
<1>1. /\ Typed' /\ Only(c) /\ UNCHANGED <<settlement, recoveries, payable, recoverable, World>>
      /\ call[c].pc = "row" /\ call[c] \in Calls
      /\ \E s \in Settlements : s = call[c].s
  BY TransferRowTyped DEF MInv, Typed, CallsOK
<1>2. PICK s \in Settlements : s = call[c].s
  BY <1>1
<1>3. \/ UNCHANGED payout /\ call'[c] = Idle
      \/ /\ call'[c] = [call[c] EXCEPT !.pc = "send"]
         /\ payout' = [payout EXCEPT ![s].provider = "STRIPE_CONNECT", ![s].status = "PENDING",
                                     ![s].amount = call[c].amount]
  BY <1>2, TransferRowTyped DEF MInv
<1>4. UNCHANGED <<stripe, events, refund>>
  BY <1>1 DEF World
<1>5. CASE UNCHANGED payout /\ call'[c] = Idle
  <2>1. PayShape(c)' /\ call'[c].pc = "idle" /\ UNCHANGED Rows
    BY <1>1, <1>5, IdleTyped DEF PayShape, Transferring, Rows
  <2>2. QED BY <1>1, <2>1, ReadKeeps
<1>6. CASE /\ call'[c] = [call[c] EXCEPT !.pc = "send"]
           /\ payout' = [payout EXCEPT ![s].provider = "STRIPE_CONNECT", ![s].status = "PENDING",
                                       ![s].amount = call[c].amount]
  <2>1. call'[c].pc = "send" /\ call'[c].s = s /\ call'[c].amount = call[c].amount
    BY <1>1, <1>2, <1>6 DEF Calls
  <2>2. /\ Status(s) = "TRANSFER_PENDING" /\ ~ payout[s].sent /\ stripe.sent[s] = 0
        /\ call[c].amount > 0 /\ call[c].amount \in Int /\ payout[s].reversed = 0
    BY <1>1, <1>2 DEF MInv, PayInv, PayShape, PayoutShape, Transferring, Calls
  <2>3. \A d \in Callers \ {c} : ~ (call[d].pc \in Transferring /\ call[d].s = s)
    BY <1>1, <1>2, Alone DEF Transferring
  <2>4. PayoutShape(s) /\ payout \in [Settlements -> PayoutRows]
    BY DEF MInv, PayInv, Typed, RowsOK
  <2>5. /\ \A t \in Settlements \ {s} : payout'[t] = payout[t]
        /\ payout'[s].provider = "STRIPE_CONNECT" /\ payout'[s].amount = call[c].amount
        /\ payout'[s].sent = payout[s].sent /\ payout'[s].reversed = payout[s].reversed
    BY <1>6, <2>4 DEF PayoutRows
  <2>6. PayoutShape(s)'
    <3>1. Status(s)' = "TRANSFER_PENDING" /\ ~ payout'[s].sent /\ stripe'.sent[s] = 0
      BY <1>1, <1>4, <2>2, <2>5 DEF Status
    <3>2. 0 <= payout'[s].reversed /\ payout'[s].reversed <= payout'[s].amount
      BY <2>2, <2>5
    <3>3. QED BY <2>2, <2>5, <3>1, <3>2 DEF PayoutShape
  <2>7. PayShape(c)'
    BY <1>1, <1>4, <2>1, <2>2, <2>5 DEF PayShape, Transferring, Status
  <2>8. PayInv'
    BY <1>1, <1>4, <2>1, <2>3, <2>5, <2>6, <2>7, PayGoesOn
  <2>9. \A t \in Settlements : /\ Status(t)' = Status(t)
                               /\ settlement'[t].net >= 0
                               /\ stripe.sent[t] <= stripe'.sent[t]
                               /\ payout[t].sent => /\ payout'[t].sent
                                                    /\ payout'[t].amount = payout[t].amount
    BY <1>1, <1>4, <2>2, <2>5 DEF Status, MInv, NetInv, Typed, StripeOK, StripeStates
  <2>10. BankInv'
    <3>1. Aside(Attributing)
      BY <1>1, <2>1, OnlyAside DEF Attributing
    <3>2. QED BY <1>1, <1>4, <3>1, SameSettlement, BankStays DEF BankKept, MInv
  <2>11. RecoveryInv'
    BY <1>1 DEF MInv, RecoveryInv
  <2>12. Status(call'[c].s) # "none" /\ call'[c].s \in Settlements
    BY <2>1, <2>2
  <2>13. QED BY <1>1, <1>4, <2>1, <2>8, <2>9, <2>10, <2>11, <2>12, PayingKeeps DEF Transferring
<1>7. QED BY <1>3, <1>5, <1>6

LEMMA SendKeeps ==
  ASSUME MInv, NEW c \in Callers, Send(c)
  PROVE  MInv'
<1>1. /\ Typed' /\ Only(c) /\ UNCHANGED <<Rows, events, refund, mirrored>>
      /\ call[c].pc = "send" /\ call[c] \in Calls
      /\ \E s \in Settlements : s = call[c].s
  BY SendTyped DEF MInv, Typed, CallsOK
<1>2. PICK s \in Settlements : s = call[c].s
  BY <1>1
<1>3. /\ Status(s) = "TRANSFER_PENDING" /\ ~ payout[s].sent /\ stripe.sent[s] = 0
      /\ call[c].amount > 0 /\ payout[s].amount = call[c].amount
      /\ payout[s].provider = "STRIPE_CONNECT"
  BY <1>1, <1>2 DEF MInv, PayInv, PayShape, Transferring
<1>4. /\ \/ UNCHANGED stripe
         \/ /\ stripe'.sent = [stripe.sent EXCEPT ![s] = call[c].amount]
            /\ stripe'.where = [stripe.where EXCEPT ![s] = "balance"]
            /\ \A f \in {"reversals", "refunds", "lost", "guessed"} : stripe'[f] = stripe[f]
      /\ \/ call'[c] = Idle
         \/ call'[c] = [call[c] EXCEPT !.pc = "failed"] /\ UNCHANGED stripe
         \/ call'[c] = [call[c] EXCEPT !.pc = "sent"] /\ stripe'.sent[s] = call[c].amount
  BY <1>2, <1>3, SendTyped DEF MInv
<1>5. UNCHANGED <<settlement, payout, recoveries>>
  BY <1>1 DEF Rows
<1>6. /\ stripe.sent \in [Settlements -> Int] /\ stripe.where \in [Settlements -> Places]
      /\ call[c].amount \in Int
  BY <1>1 DEF MInv, Typed, StripeOK, StripeStates, Calls
<1>7. /\ \A t \in Settlements \ {s} : /\ stripe'.sent[t] = stripe.sent[t]
                                      /\ stripe'.where[t] = stripe.where[t]
      /\ stripe'.reversals = stripe.reversals /\ stripe'.refunds = stripe.refunds
      /\ stripe'.guessed = stripe.guessed
      /\ \/ stripe'.sent[s] = 0 /\ stripe'.where[s] = stripe.where[s]
         \/ stripe'.sent[s] = call[c].amount /\ stripe'.where[s] = "balance"
  <2>1. CASE UNCHANGED stripe
    BY <1>3, <2>1
  <2>2. CASE /\ stripe'.sent = [stripe.sent EXCEPT ![s] = call[c].amount]
             /\ stripe'.where = [stripe.where EXCEPT ![s] = "balance"]
             /\ \A f \in {"reversals", "refunds", "lost", "guessed"} : stripe'[f] = stripe[f]
    BY <1>6, <2>2
  <2>3. QED BY <1>4, <2>1, <2>2
<1>8. /\ call'[c].pc \in {"idle", "failed", "sent"}
      /\ call'[c].pc # "idle" => call'[c].s = s /\ call'[c].amount = call[c].amount
      /\ call'[c].pc = "failed" => stripe'.sent[s] = 0
      /\ call'[c].pc = "sent" => stripe'.sent[s] = call[c].amount
  BY <1>1, <1>2, <1>3, <1>4, IdleTyped DEF Calls
<1>9. \A d \in Callers \ {c} : ~ (call[d].pc \in Transferring /\ call[d].s = s)
  BY <1>1, <1>2, Alone DEF Transferring
<1>10. PayoutShape(s)'
  <2>1. PayoutShape(s)
    BY DEF MInv, PayInv
  <2>2. QED BY <1>3, <1>5, <1>6, <1>7, <2>1 DEF PayoutShape, Status
<1>11. PayShape(c)'
  <2>1. CASE call'[c].pc = "idle"
    BY <2>1 DEF PayShape, Transferring
  <2>2. CASE call'[c].pc \in {"failed", "sent"}
    <3>1. call'[c].s = s /\ call'[c].amount = call[c].amount
      BY <1>8, <2>2
    <3>2. Status(s)' = "TRANSFER_PENDING" /\ payout'[s] = payout[s]
      BY <1>3, <1>5 DEF Status
    <3>3. CASE call'[c].pc = "failed"
      BY <1>3, <1>8, <3>1, <3>2, <3>3 DEF PayShape, Transferring, Status
    <3>4. CASE call'[c].pc = "sent"
      BY <1>3, <1>8, <3>1, <3>2, <3>4 DEF PayShape, Transferring, Status
    <3>5. QED BY <2>2, <3>3, <3>4
  <2>3. QED BY <1>8, <2>1, <2>2
<1>12. PayInv'
  <2>1. \A t \in Settlements \ {s} : /\ settlement'[t] = settlement[t] /\ payout'[t] = payout[t]
                                     /\ stripe'.sent[t] = stripe.sent[t]
    BY <1>5, <1>7
  <2>2. call'[c].pc \in Transferring => call'[c].s = s
    BY <1>8 DEF Transferring
  <2>3. QED BY <1>1, <1>9, <1>10, <1>11, <2>1, <2>2, PayGoesOn
<1>13. \A t \in Settlements : /\ Status(t)' = Status(t)
                              /\ settlement'[t].net >= 0
                              /\ stripe.sent[t] <= stripe'.sent[t]
  BY <1>3, <1>5, <1>6, <1>7 DEF Status, MInv, NetInv
<1>14. BankInv'
  <2>1. \A t \in Settlements : (Reached(t))' <=> Reached(t)
    <3>1. ~ Reached(s)
      BY <1>3 DEF MInv, BankInv
    <3>2. QED BY <1>7, <3>1 DEF Reached
  <2>2. stripe'.guessed <=> stripe.guessed
    BY <1>7
  <2>3. ASSUME NEW d \in Callers PROVE BankShape(d)'
    <3>1. CASE d = c
      BY <1>8, <3>1 DEF BankShape, Attributing
    <3>2. CASE d # c
      <4>1. BankShape(d) /\ call'[d] = call[d]
        BY <1>1, <3>2 DEF MInv, BankInv, Only
      <4>2. QED BY <2>1, <2>2, <4>1 DEF BankShape
    <3>3. QED BY <3>1, <3>2
  <2>4. PaidOutReachedBank'
    BY <1>5, <2>1, <2>2 DEF MInv, BankInv, PaidOutReachedBank, Reached, Status
  <2>5. ASSUME NEW e \in events', e.kind = "payout", e.full PROVE (Reached(e.s))'
    BY <1>1, <2>1, <2>5 DEF MInv, BankInv, Typed, StripeOK, Events
  <2>6. \A t \in Settlements : (Reached(t))' => stripe'.sent[t] > 0
    BY <1>3, <1>7, <2>1 DEF MInv, BankInv
  <2>7. QED BY <2>3, <2>4, <2>5, <2>6 DEF BankInv
<1>15. RecoveryInv'
  BY <1>5 DEF MInv, RecoveryInv
<1>16. call'[c].pc # "idle" => call'[c].s \in Settlements /\ Status(call'[c].s) # "none"
  BY <1>3, <1>8
<1>17. QED BY <1>1, <1>5, <1>7, <1>8, <1>12, <1>13, <1>14, <1>15, <1>16, PayingKeeps DEF Transferring

LEMMA SentKeeps ==
  ASSUME MInv, NEW c \in Callers, Sent(c)
  PROVE  MInv'
<1>1. /\ Typed' /\ RecoveryInv' /\ Only(c) /\ UNCHANGED World
      /\ call[c].pc = "sent" /\ call'[c] = Idle
      /\ \E s \in Settlements : s = call[c].s
  BY SentTyped DEF MInv, Typed, CallsOK
<1>2. PICK s \in Settlements : s = call[c].s
  BY <1>1
<1>3. /\ Status(s) = "TRANSFER_PENDING" /\ ~ payout[s].sent
      /\ payout[s].provider = "STRIPE_CONNECT" /\ payout[s].amount = stripe.sent[s]
  BY <1>1, <1>2 DEF MInv, PayInv, PayShape, Transferring
<1>4. /\ payout' = [payout EXCEPT ![s].status = "TRANSFERRED", ![s].sent = TRUE]
      /\ MovesTo(s, "TRANSFERRED", settlement[s].method)
  BY <1>2, <1>3, SentTyped DEF MInv
<1>5. UNCHANGED <<stripe, events, refund>>
  BY <1>1 DEF World
<1>6. PayoutShape(s) /\ payout \in [Settlements -> PayoutRows]
  BY DEF MInv, PayInv, Typed, RowsOK
<1>7. /\ \A t \in Settlements \ {s} : payout'[t] = payout[t]
      /\ payout'[s].provider = payout[s].provider /\ payout'[s].amount = payout[s].amount
      /\ payout'[s].sent /\ payout'[s].reversed = payout[s].reversed
  BY <1>4, <1>6 DEF PayoutRows
<1>8. \A t \in Settlements : /\ Status(t) # "none" => Status(t)' # "none"
                             /\ Status(t) \in Paid => Status(t)' \in Paid
                             /\ PaidThrough(t)' => PaidThrough(t)
                             /\ settlement'[t].net >= 0
                             /\ stripe.sent[t] <= stripe'.sent[t]
                             /\ payout[t].sent => /\ payout'[t].sent
                                                  /\ payout'[t].amount = payout[t].amount
  <2>1. ASSUME NEW t \in Settlements
        PROVE  /\ Status(t) # "none" => Status(t)' # "none"
               /\ Status(t) \in Paid => Status(t)' \in Paid
               /\ PaidThrough(t)' => PaidThrough(t)
               /\ settlement'[t].net >= 0
    BY <1>4 DEF MovesTo, Status, Paid, PaidThrough, MInv, NetInv
  <2>2. \A t \in Settlements : stripe.sent[t] <= stripe'.sent[t]
    BY <1>5 DEF MInv, Typed, StripeOK, StripeStates
  <2>3. \A t \in Settlements :
          payout[t].sent => payout'[t].sent /\ payout'[t].amount = payout[t].amount
    BY <1>3, <1>7
  <2>4. QED BY <2>1, <2>2, <2>3
<1>9. Status(s)' \in Paid
  BY <1>4 DEF MovesTo, Status, Paid
<1>10. PayoutShape(s)'
  BY <1>3, <1>5, <1>6, <1>7, <1>9 DEF PayoutShape
<1>11. PayShape(c)' /\ call'[c].pc = "idle"
  BY <1>1, IdleTyped DEF PayShape, Transferring
<1>12. \A d \in Callers \ {c} : ~ (call[d].pc \in Transferring /\ call[d].s = s)
  BY <1>1, <1>2, Alone DEF Transferring
<1>13. PayInv'
  <2>1. call'[c].pc \notin Transferring
    BY <1>11 DEF Transferring
  <2>2. \A t \in Settlements \ {s} : /\ settlement'[t] = settlement[t] /\ payout'[t] = payout[t]
                                     /\ stripe'.sent[t] = stripe.sent[t]
    BY <1>4, <1>5, <1>7 DEF MovesTo
  <2>3. QED BY <1>1, <1>10, <1>11, <1>12, <2>1, <2>2, PayGoesOn
<1>14. BankInv'
  <2>1. Aside(Attributing)
    BY <1>1, <1>11, OnlyAside DEF Attributing
  <2>2. QED BY <1>5, <1>8, <2>1, BankStays DEF BankKept, MInv
<1>15. QED BY <1>1, <1>5, <1>8, <1>11, <1>13, <1>14, PayingKeeps

LEMMA FailedKeeps ==
  ASSUME MInv, NEW c \in Callers, Failed(c)
  PROVE  MInv'
<1>1. /\ Typed' /\ Only(c) /\ UNCHANGED <<settlement, recoveries, payable, recoverable, World>>
      /\ call[c].pc = "failed" /\ call[c] \in Calls
      /\ call'[c] = [call[c] EXCEPT !.pc = "giveUp"]
      /\ \E s \in Settlements : s = call[c].s
  BY FailedTyped DEF MInv, Typed, CallsOK
<1>2. PICK s \in Settlements : s = call[c].s
  BY <1>1
<1>3. payout' = [payout EXCEPT ![s].status = "FAILED"]
  BY <1>2, FailedTyped DEF MInv
<1>4. UNCHANGED <<stripe, events, refund>>
  BY <1>1 DEF World
<1>5. call'[c].pc = "giveUp" /\ call'[c].s = s /\ call'[c].amount = call[c].amount
  BY <1>1, <1>2 DEF Calls
<1>6. /\ Status(s) = "TRANSFER_PENDING" /\ ~ payout[s].sent /\ stripe.sent[s] = 0
      /\ call[c].amount > 0
  BY <1>1, <1>2 DEF MInv, PayInv, PayShape, Transferring
<1>7. \A d \in Callers \ {c} : ~ (call[d].pc \in Transferring /\ call[d].s = s)
  BY <1>1, <1>2, Alone DEF Transferring
<1>8. PayoutShape(s) /\ payout \in [Settlements -> PayoutRows]
  BY DEF MInv, PayInv, Typed, RowsOK
<1>9. /\ \A t \in Settlements \ {s} : payout'[t] = payout[t]
      /\ payout'[s].provider = payout[s].provider /\ payout'[s].amount = payout[s].amount
      /\ payout'[s].sent = payout[s].sent /\ payout'[s].reversed = payout[s].reversed
  BY <1>3, <1>8 DEF PayoutRows
<1>10. PayoutShape(s)'
  BY <1>1, <1>4, <1>8, <1>9 DEF PayoutShape, Status
<1>11. PayShape(c)'
  BY <1>1, <1>4, <1>5, <1>6, <1>9 DEF PayShape, Transferring, Status
<1>12. PayInv'
  <2>1. \A t \in Settlements \ {s} : /\ settlement'[t] = settlement[t] /\ payout'[t] = payout[t]
                                     /\ stripe'.sent[t] = stripe.sent[t]
    BY <1>1, <1>4, <1>9
  <2>2. QED BY <1>1, <1>5, <1>7, <1>10, <1>11, <2>1, PayGoesOn
<1>13. \A t \in Settlements : /\ Status(t)' = Status(t)
                              /\ settlement'[t].net >= 0
                              /\ stripe.sent[t] <= stripe'.sent[t]
                              /\ payout[t].sent => /\ payout'[t].sent
                                                   /\ payout'[t].amount = payout[t].amount
  BY <1>1, <1>4, <1>6, <1>9 DEF Status, MInv, NetInv, Typed, StripeOK, StripeStates
<1>14. BankInv'
  <2>1. Aside(Attributing)
    BY <1>1, <1>5, OnlyAside DEF Attributing
  <2>2. QED BY <1>1, <1>4, <2>1, SameSettlement, BankStays DEF BankKept, MInv
<1>15. RecoveryInv'
  BY <1>1 DEF MInv, RecoveryInv
<1>16. Status(call'[c].s) # "none" /\ call'[c].s \in Settlements
  BY <1>5, <1>6
<1>17. QED BY <1>1, <1>4, <1>5, <1>12, <1>13, <1>14, <1>15, <1>16, PayingKeeps DEF Transferring

LEMMA GiveUpKeeps ==
  ASSUME MInv, NEW c \in Callers, GiveUp(c)
  PROVE  MInv'
<1>1. /\ Typed' /\ Only(c) /\ UNCHANGED <<payout, recoveries, payable, recoverable, World>>
      /\ call[c].pc = "giveUp" /\ call'[c] = Idle
      /\ \E s \in Settlements : s = call[c].s
  BY GiveUpTyped DEF MInv, Typed, CallsOK
<1>2. PICK s \in Settlements : s = call[c].s
  BY <1>1
<1>3. Status(s) = "TRANSFER_PENDING" /\ ~ payout[s].sent /\ stripe.sent[s] = 0
  BY <1>1, <1>2 DEF MInv, PayInv, PayShape, Transferring
<1>4. MovesTo(s, "TRANSFER_FAILED", settlement[s].method)
  BY <1>2, <1>3, GiveUpTyped DEF MInv
<1>5. UNCHANGED <<stripe, events, refund>>
  BY <1>1 DEF World
<1>6. \A d \in Callers \ {c} : ~ (call[d].pc \in Transferring /\ call[d].s = s)
  BY <1>1, <1>2, Alone DEF Transferring
<1>7. PayoutShape(s)'
  <2>1. PayoutShape(s)
    BY DEF MInv, PayInv
  <2>2. QED BY <1>1, <1>3, <1>5, <2>1 DEF PayoutShape
<1>8. PayShape(c)' /\ call'[c].pc = "idle"
  BY <1>1, IdleTyped DEF PayShape, Transferring
<1>9. PayInv'
  <2>1. \A t \in Settlements \ {s} : /\ settlement'[t] = settlement[t] /\ payout'[t] = payout[t]
                                     /\ stripe'.sent[t] = stripe.sent[t]
    BY <1>1, <1>4, <1>5 DEF MovesTo
  <2>2. call'[c].pc \notin Transferring
    BY <1>8 DEF Transferring
  <2>3. QED BY <1>1, <1>6, <1>7, <1>8, <2>1, <2>2, PayGoesOn
<1>10. \A t \in Settlements : /\ Status(t) # "none" => Status(t)' # "none"
                              /\ Status(t) \in Paid => Status(t)' \in Paid
                              /\ PaidThrough(t)' => PaidThrough(t)
                              /\ settlement'[t].net >= 0
  BY <1>3, <1>4 DEF MovesTo, Status, Paid, PaidThrough, MInv, NetInv
<1>11. \A t \in Settlements : stripe.sent[t] <= stripe'.sent[t]
  BY <1>5 DEF MInv, Typed, StripeOK, StripeStates
<1>12. BankInv'
  <2>1. Aside(Attributing)
    BY <1>1, <1>8, OnlyAside DEF Attributing
  <2>2. QED BY <1>5, <1>10, <2>1, BankStays DEF BankKept, MInv
<1>13. RecoveryInv'
  BY <1>1 DEF MInv, RecoveryInv
<1>14. QED BY <1>1, <1>5, <1>8, <1>9, <1>10, <1>11, <1>12, <1>13, PayingKeeps

\* The row of a manual payout may overtake a transfer that was claimed before.
LEMMA ManualRowKeeps ==
  ASSUME MInv, NEW c \in Callers, ManualRow(c)
  PROVE  MInv'
<1>1. /\ Typed' /\ Only(c) /\ UNCHANGED <<settlement, recoveries, payable, recoverable, World>>
      /\ call[c].pc = "manualRow" /\ call[c] \in Calls
      /\ \E s \in Settlements : s = call[c].s
  BY ManualRowTyped DEF MInv, Typed, CallsOK
<1>2. PICK s \in Settlements : s = call[c].s
  BY <1>1
<1>3. \/ call'[c] = Idle /\ UNCHANGED payout
      \/ /\ call'[c] = [call[c] EXCEPT !.pc = "manual"]
         /\ \/ UNCHANGED payout
            \/ /\ payout[s].provider = "none"
               /\ payout' = [payout EXCEPT ![s].provider = "MANUAL", ![s].status = "PAID_OUT",
                                           ![s].amount = call[c].net]
  BY <1>2, ManualRowTyped DEF MInv
<1>4. UNCHANGED <<stripe, events, refund>>
  BY <1>1 DEF World
<1>5. call[c].net >= 0 /\ call[c].net \in Int /\ Status(s) # "none"
  BY <1>1, <1>2 DEF MInv, PayInv, PayShape, Calls, KnownInv, Attributing
<1>6. /\ call'[c].pc \in {"idle", "manual"}
      /\ call'[c].pc # "idle" => call'[c].s = s /\ call'[c].net = call[c].net
  BY <1>1, <1>2, <1>3, IdleTyped DEF Calls
<1>7. PayShape(c)'
  BY <1>5, <1>6 DEF PayShape, Transferring
<1>8. CASE UNCHANGED payout
  <2>1. UNCHANGED Rows
    BY <1>1, <1>8 DEF Rows
  <2>2. QED BY <1>1, <1>5, <1>6, <1>7, <2>1, ReadKeeps
<1>9. CASE /\ payout[s].provider = "none"
           /\ payout' = [payout EXCEPT ![s].provider = "MANUAL", ![s].status = "PAID_OUT",
                                       ![s].amount = call[c].net]
  <2>1. PayoutShape(s) /\ payout \in [Settlements -> PayoutRows]
    BY DEF MInv, PayInv, Typed, RowsOK
  <2>2. ~ payout[s].sent /\ payout[s].reversed = 0
    BY <1>9, <2>1 DEF PayoutShape
  <2>3. /\ \A t \in Settlements \ {s} : payout'[t] = payout[t]
        /\ payout'[s].amount = call[c].net
        /\ payout'[s].sent = payout[s].sent /\ payout'[s].reversed = payout[s].reversed
    BY <1>9, <2>1 DEF PayoutRows
  <2>4. PayoutShape(s)'
    <3>1. Status(s)' = Status(s) /\ stripe'.sent[s] = stripe.sent[s] /\ ~ payout'[s].sent
      BY <1>1, <1>4, <2>2, <2>3 DEF Status
    <3>2. 0 <= payout'[s].reversed /\ payout'[s].reversed <= payout'[s].amount
          /\ payout'[s].reversed = 0
      BY <1>5, <2>2, <2>3
    <3>3. QED BY <2>1, <3>1, <3>2 DEF PayoutShape
  <2>5. ASSUME NEW d \in Callers \ {c}, call[d].pc \in Transferring, call[d].s = s
        PROVE  PayShape(d)'
    <3>1. call'[d] = call[d] /\ PayShape(d)
      BY <1>1 DEF Only, MInv, PayInv
    <3>2. call[d].pc \notin {"send", "sent"}
      BY <1>9, <2>5, <3>1 DEF PayShape
    <3>3. QED BY <1>1, <1>4, <2>3, <2>5, <3>1, <3>2 DEF PayShape, Transferring, Status
  <2>6. PayInv'
    <3>1. \A t \in Settlements \ {s} : /\ settlement'[t] = settlement[t] /\ payout'[t] = payout[t]
                                       /\ stripe'.sent[t] = stripe.sent[t]
      BY <1>1, <1>4, <2>3
    <3>2. call'[c].pc \notin Transferring
      BY <1>6 DEF Transferring
    <3>3. QED BY <1>1, <1>7, <2>4, <2>5, <3>1, <3>2, PayGoesOn
  <2>7. \A t \in Settlements : /\ Status(t)' = Status(t)
                               /\ settlement'[t].net >= 0
                               /\ stripe.sent[t] <= stripe'.sent[t]
                               /\ payout[t].sent => /\ payout'[t].sent
                                                    /\ payout'[t].amount = payout[t].amount
    BY <1>1, <1>4, <2>2, <2>3 DEF Status, MInv, NetInv, Typed, StripeOK, StripeStates
  <2>8. BankInv'
    <3>1. Aside(Attributing)
      BY <1>1, <1>6, OnlyAside DEF Attributing
    <3>2. QED BY <1>1, <1>4, <3>1, SameSettlement, BankStays DEF BankKept, MInv
  <2>9. RecoveryInv'
    BY <1>1 DEF MInv, RecoveryInv
  <2>10. QED BY <1>1, <1>4, <1>5, <1>6, <2>6, <2>7, <2>8, <2>9, PayingKeeps
<1>10. QED BY <1>3, <1>8, <1>9
-------------------------------------------------------------------------------
(***************************************************************************)
(* The invariant holds at first and every step keeps it.                   *)
(***************************************************************************)
LEMMA InitMoney ==
  ASSUME Init
  PROVE  MInv
<1>1. RowsOK
  <2>1. settlement \in [Settlements -> SettlementRows]
    BY DEF Init, SettlementRows, Statuses, Methods
  <2>2. payout \in [Settlements -> PayoutRows]
    BY DEF Init, PayoutRows, PayoutStatuses
  <2>3. recoveries \in Seq(RecoveryRows)
    BY EmptySeq DEF Init
  <2>4. payable \in [Settlements -> Int] /\ recoverable \in Int
    BY DEF Init
  <2>5. QED BY <2>1, <2>2, <2>3, <2>4 DEF RowsOK
<1>2. StripeOK
  <2>1. stripe \in StripeStates
    BY DEF Init, StripeStates, Places
  <2>2. IsFiniteSet(stripe.reversals)
    BY FS_EmptySet DEF Init
  <2>3. refund \in [Refunds -> RefundRows]
    BY DEF Init, RefundRows
  <2>4. events \subseteq Events /\ mirrored \subseteq Refunds
    BY DEF Init
  <2>5. QED BY <2>1, <2>2, <2>3, <2>4 DEF StripeOK
<1>3. \A c \in Callers : call[c] = Idle
  BY DEF Init
<1>4. CallsOK
  BY <1>3, IdleTyped DEF Init, CallsOK
<1>5. \A c \in Callers : call[c].pc = "idle"
  BY <1>3, IdleTyped
<1>6. events = {} /\ recoveries = <<>>
  BY DEF Init
<1>7. \A i \in Refunds : ~ refund[i].linked
  BY DEF Init
<1>8. AskInv
  BY <1>5, <1>7 DEF AskInv, AskShape, Asking
<1>9. KnownInv
  BY <1>5, <1>6 DEF KnownInv
<1>10. \A s \in Settlements :
         /\ Status(s) = "none" /\ settlement[s].net = 0
         /\ ~ payout[s].sent /\ payout[s].amount = 0 /\ payout[s].reversed = 0
         /\ stripe.sent[s] = 0 /\ stripe.where[s] = "none"
  BY DEF Init, Status
<1>11. PayInv
  <2>1. \A s \in Settlements : PayoutShape(s)
    BY <1>10 DEF PayoutShape
  <2>2. \A c \in Callers : PayShape(c)
    BY <1>5 DEF PayShape, Transferring
  <2>3. QED BY <1>5, <2>1, <2>2 DEF PayInv, Transferring
<1>12. TakeInv
  <2>1. stripe.reversals = {}
    BY DEF Init
  <2>2. QED BY <1>5, <1>6, <2>1 DEF TakeInv, TakeShape, Taking
<1>13. BankInv
  BY <1>5, <1>6, <1>10 DEF BankInv, BankShape, Attributing, Reached, PaidOutReachedBank
<1>14. NetInv /\ RecoveryInv
  BY <1>6, <1>10 DEF NetInv, RecoveryInv
<1>15. QED BY <1>1, <1>2, <1>4, <1>8, <1>9, <1>11, <1>12, <1>13, <1>14 DEF MInv, Typed

LEMMA StripeKeeps ==
  ASSUME MInv, Stripe
  PROVE  MInv'
<1>1. /\ Typed'
      /\ UNCHANGED <<settlement, recoveries, payable, recoverable, refund, mirrored, call>>
      /\ \/ \E i \in Refunds : DashboardGave(i)
         \/ \E s \in Settlements : BankMoved(s)
         \/ \E e \in events : TransferTold(e) \/ BounceTold(e)
  BY StripeMoves DEF MInv
<1>2. CASE \E i \in Refunds : DashboardGave(i)
  BY <1>1, <1>2, DashboardKeeps
<1>3. CASE \E s \in Settlements : BankMoved(s)
  BY <1>1, <1>3, BankKeeps
<1>4. CASE \E e \in events : TransferTold(e) \/ BounceTold(e)
  BY <1>1, <1>4, EventsKeep
<1>5. QED BY <1>1, <1>2, <1>3, <1>4

LEMMA RefundingKeeps ==
  ASSUME MInv, NEW c \in Callers, Refunding(c)
  PROVE  MInv'
<1>1. CASE \E s \in Settlements : \E n \in Parts \cup {Total - AlreadyRefunded(s)} :
             RefundRead(c, s, n)
  BY <1>1, RefundReadKeeps
<1>2. CASE RefundInsert(c) \/ RefundAsk(c) \/ RefundLink(c)
  BY <1>2, RefundInsertKeeps, RefundAskKeeps, RefundLinkKeeps
<1>3. CASE \E e \in events : RefundEvent(c, e)
  BY <1>3, RefundEventKeeps
<1>4. CASE \E i \in Refunds : RefundPost(c, i)
  BY <1>4, RefundPostKeeps
<1>5. CASE RefundEventDone(c) \/ ApplyRead(c)
  BY <1>5, EndingKeeps, ApplyReadKeeps
<1>6. CASE WriteOff(c) \/ Reduce(c) \/ Lose(c)
  BY <1>6, WriteOffKeeps, ReduceKeeps
<1>7. CASE \E s \in Settlements : DisputeLost(c, s)
  BY <1>7, DisputeLostKeeps
<1>8. CASE \E s \in Settlements : \E n \in Changes : Adjust(c, s, n)
  BY <1>8, AdjustKeeps
<1>9. CASE Recover(c) \/ Reverse(c) \/ Reversed(c) \/ OpenRecovery(c)
  BY <1>9, RecoverKeeps, ReverseKeeps, ReversedKeeps, OpenRecoveryKeeps
<1>10. QED BY <1>1, <1>2, <1>3, <1>4, <1>5, <1>6, <1>7, <1>8, <1>9 DEF Refunding

LEMMA PayingSteps ==
  ASSUME MInv, NEW c \in Callers, Paying(c)
  PROVE  MInv'
<1>1. CASE \E s \in Settlements : TransferRead(c, s) \/ ManualRead(c, s) \/ PayoutRow(c, s)
  BY <1>1, TransferReadKeeps, ManualReadKeeps, PayoutRowKeeps
<1>2. CASE Withhold(c) \/ Manual(c)
  BY <1>2, WithholdKeeps, ManualKeeps
<1>3. CASE Claim(c) \/ TransferRow(c) \/ Send(c)
  BY <1>3, ClaimKeeps, TransferRowKeeps, SendKeeps
<1>4. CASE Sent(c) \/ Failed(c) \/ GiveUp(c) \/ ManualRow(c)
  BY <1>4, SentKeeps, FailedKeeps, GiveUpKeeps, ManualRowKeeps
<1>5. CASE \E e \in events : PayoutPaid(c, e)
  BY <1>5, PayoutPaidKeeps
<1>6. CASE PayoutMove(c) \/ PayoutDone(c)
  BY <1>6, PayoutMoveKeeps, EndingKeeps
<1>7. QED BY <1>1, <1>2, <1>3, <1>4, <1>5, <1>6 DEF Paying

LEMMA NextKeeps ==
  ASSUME MInv, [Next]_vars
  PROVE  MInv'
<1>1. CASE Sales
  BY <1>1, SalesKeep
<1>2. CASE Stripe
  BY <1>2, StripeKeeps
<1>3. CASE \E c \in Callers : Refunding(c) \/ Paying(c) \/ Die(c)
  BY <1>3, RefundingKeeps, PayingSteps, EndingKeeps
<1>4. CASE UNCHANGED vars
  <2>1. UNCHANGED <<settlement, payout, recoveries, refund, mirrored, payable, recoverable,
                    stripe, events, call>>
    BY <1>4 DEF vars
  <2>2. Typed' /\ RecoveryInv'
    BY <2>1 DEF MInv, Typed, RowsOK, StripeOK, CallsOK, RecoveryInv
  <2>3. Calmly
    BY <2>1 DEF Calmly
  <2>4. QED BY <2>1, <2>2, <2>3, SameIsMild, CalmKeeps
<1>5. QED BY <1>1, <1>2, <1>3, <1>4 DEF Next

\* The invariant holds in every state, whatever the number of callers.
THEOREM Invariance == Spec => []MInv
<1>1. Init => MInv
  BY InitMoney
<1>2. MInv /\ [Next]_vars => MInv'
  BY NextKeeps
<1>3. QED BY <1>1, <1>2, PTL DEF Spec

\* A net is never negative, no more is reversed than was paid out, a row of a
\* transfer says what Stripe sent, no recovery gets more than it asks for and a
\* refund row linked to Stripe says what Stripe gave back, whatever the callers.
THEOREM TypeCorrectness == Spec => []TypeOK
<1>1. MInv => TypeOK
  <2> SUFFICES ASSUME MInv PROVE TypeOK
    OBVIOUS
  <2>1. settlement \in [Settlements ->
          [status : {"none", "REFUNDED", "CANCELLED"} \cup Paid \cup Outstanding, net : Nat,
           method : {"none", "STRIPE_CONNECT", "MANUAL", "RECOVERY_OFFSET", "TRADEAUCT_OWNED"}]]
    <3>1. settlement \in [Settlements -> SettlementRows]
      BY DEF MInv, Typed, RowsOK
    <3>2. \A s \in Settlements : settlement[s].net \in Nat
      BY <3>1 DEF SettlementRows, MInv, NetInv
    <3>3. QED BY <3>1, <3>2 DEF SettlementRows, Statuses, Methods
  <2>2. \A s \in Settlements :
          /\ 0 <= payout[s].reversed /\ payout[s].reversed <= payout[s].amount
          /\ payout[s].sent => payout[s].amount = stripe.sent[s]
    BY DEF MInv, PayInv, PayoutShape
  <2>3. \A k \in DOMAIN recoveries :
          0 <= recoveries[k].recovered /\ recoveries[k].recovered <= recoveries[k].amount
    BY DEF MInv, RecoveryInv, RecoveryShape
  <2>4. \A i \in Refunds : refund[i].linked => refund[i].amount = stripe.refunds[i]
    BY DEF MInv, AskInv
  <2>5. QED BY <2>1, <2>2, <2>3, <2>4 DEF TypeOK
<1>2. QED BY <1>1, Invariance, PTL

\* A settlement paid out by transfer has reached the bank, unless Stripe listed
\* nothing of a payout and the server guessed.
THEOREM ReachedBank == Spec => []PaidOutReachedBank
<1>1. MInv => PaidOutReachedBank
  BY DEF MInv, BankInv
<1>2. QED BY <1>1, Invariance, PTL
-------------------------------------------------------------------------------
(***************************************************************************)
(* What is credited, in all.                                               *)
(***************************************************************************)
LEMMA DebtNat ==
  ASSUME RowsOK, RecoveryInv
  PROVE  Debt \in Nat
<1>1. IsFiniteSet(1..Len(recoveries))
  BY OwesInt, FS_Interval
<1>2. \A k \in 1..Len(recoveries) : Owes[k] \in Nat
  BY OwesInt DEF RecoveryInv, RecoveryShape
<1>3. QED BY <1>1, <1>2, OwesInt, DebtIsSum, SumIsNat

\* The oldest k recoveries take all of n, or all they ask for.
LEMMA CreditsOfOldest ==
  ASSUME RowsOK, RecoveryInv, NEW n \in Int, 0 <= n, NEW credits,
         \A k \in 1..Len(recoveries) : credits[k] = Credit(k, n)
  PROVE  \A k \in 0..Len(recoveries) :
           SumFunctionOnSet(credits, 1..k) = Smaller(SumFunctionOnSet(Owes, 1..k), n)
<1> DEFINE N == Len(recoveries)
           Taken(k) == SumFunctionOnSet(credits, 1..k)
           Asked(k) == SumFunctionOnSet(Owes, 1..k)
           S == {k \in Nat : k <= N => Taken(k) = Smaller(Asked(k), n)}
<1>1. N \in Nat /\ \A k \in 1..N : /\ Owes[k] \in Int /\ Owes[k] >= 0
                                   /\ Owes[k] = Owed(recoveries[k])
  BY OwesInt DEF RecoveryInv, RecoveryShape, Owed
<1>2. \A k \in 1..N : credits[k] \in Int
  BY CreditBounds
<1>3. 0 \in S
  <2>1. 1..0 = {}
    OBVIOUS
  <2>2. Taken(0) = 0 /\ Asked(0) = 0
    BY <2>1, SumOfNothing
  <2>3. QED BY <2>2 DEF Smaller
<1>4. ASSUME NEW k \in Nat, k \in S
      PROVE  k + 1 \in S
  <2>1. CASE k + 1 <= N
    <3>1. /\ 1..k+1 = (1..k) \cup {k + 1} /\ k + 1 \notin 1..k /\ k + 1 \in 1..N
          /\ 1..k \subseteq 1..N
      BY <1>1, <2>1
    <3>2. IsFiniteSet(1..k)
      BY FS_Interval
    <3>3. PICK a \in Int : a = Asked(k)
      <4>1. \A j \in 1..k : Owes[j] \in Int
        BY <1>1, <3>1
      <4>2. QED BY <3>2, <4>1, SumIsInt
    <3>4. Taken(k) = Smaller(a, n)
      BY <2>1, <3>3, <1>1, <1>4
    <3>5. PICK o \in Int : o = Owes[k + 1] /\ o = Owed(recoveries[k + 1]) /\ o >= 0
      BY <1>1, <3>1
    <3>6. Asked(k + 1) = a + o
      <4>1. Owes[k + 1] \in Int /\ \A j \in 1..k : Owes[j] \in Int
        BY <1>1, <3>1
      <4>2. SumFunctionOnSet(Owes, (1..k) \cup {k + 1}) = SumFunctionOnSet(Owes, 1..k) + Owes[k + 1]
        BY <3>1, <3>2, <4>1, SumWith
      <4>3. QED BY <3>1, <3>3, <3>5, <4>2
    <3>7. Taken(k + 1) = Taken(k) + credits[k + 1]
      <4>1. credits[k + 1] \in Int /\ \A j \in 1..k : credits[j] \in Int
        BY <1>2, <3>1
      <4>2. SumFunctionOnSet(credits, (1..k) \cup {k + 1})
              = SumFunctionOnSet(credits, 1..k) + credits[k + 1]
        BY <3>1, <3>2, <4>1, SumWith
      <4>3. QED BY <3>1, <4>2
    <3>8. credits[k + 1] = Smaller(o, AtLeast0(n - a))
      <4>1. (k + 1) - 1 = k
        OBVIOUS
      <4>2. Before(k + 1) = a
        BY <3>3, <4>1 DEF Before
      <4>3. QED BY <3>1, <3>5, <4>2 DEF Credit
    <3>9. Taken(k + 1) = Smaller(a, n) + Smaller(o, AtLeast0(n - a))
      BY <3>4, <3>7, <3>8
    <3>10. Smaller(a, n) + Smaller(o, AtLeast0(n - a)) = Smaller(a + o, n)
      BY <3>5 DEF Smaller, AtLeast0
    <3> HIDE DEF Taken, Asked
    <3>11. QED BY <3>6, <3>9, <3>10
  <2>2. CASE ~ (k + 1 <= N)
    BY <2>2
  <2>3. QED BY <2>1, <2>2
<1>5. Nat \subseteq S
  <2> HIDE DEF S
  <2>1. QED BY <1>3, <1>4, NatSetInduction
<1>6. QED BY <1>1, <1>5

\* An amount that the debt covers is credited in full.
LEMMA CreditsInAll ==
  ASSUME RowsOK, RecoveryInv, NEW n \in Int, 0 <= n, n <= Debt, NEW credits,
         \A k \in 1..Len(recoveries) : credits[k] = Credit(k, n)
  PROVE  SumFunctionOnSet(credits, 1..Len(recoveries)) = n
<1>1. Len(recoveries) \in 0..Len(recoveries) /\ DOMAIN recoveries = 1..Len(recoveries)
  BY OwesInt
<1>2. SumFunctionOnSet(credits, 1..Len(recoveries)) = Smaller(Debt, n)
  BY <1>1, CreditsOfOldest, DebtIsSum
<1>3. QED BY <1>2, DebtInt DEF Smaller

\* What was recovered so far.
Recovered(q) == SumFunction([k \in DOMAIN q |-> q[k].recovered])
StillOwed(q) == SumFunction([k \in DOMAIN q |-> Owed(q[k])])

\* Crediting n takes n off the debt.
LEMMA CreditedMoney ==
  ASSUME RowsOK, RecoveryInv, NEW n \in Int, 0 <= n, n <= Debt,
         NEW q, q = Credited(n)
  PROVE  /\ StillOwed(q) = Debt - n
         /\ Recovered(q) = Recovered(recoveries) + n
<1> DEFINE N == Len(recoveries)
           credits == [k \in 1..N |-> Credit(k, n)]
           before == [k \in DOMAIN recoveries |-> recoveries[k].recovered]
           after == [k \in DOMAIN q |-> q[k].recovered]
           left == [k \in DOMAIN q |-> Owed(q[k])]
<1>1. IsFiniteSet(1..N) /\ DOMAIN recoveries = 1..N /\ DOMAIN q = 1..N
  BY OwesInt, CreditedRows, FS_Interval
<1>2. SumFunctionOnSet(credits, 1..N) = n
  <2>1. \A k \in 1..N : credits[k] = Credit(k, n)
    OBVIOUS
  <2> HIDE DEF credits, N
  <2>2. QED BY <2>1, CreditsInAll DEF N
<1>3. ASSUME NEW k \in 1..N
      PROVE  /\ credits[k] \in Int
             /\ before[k] \in Int /\ after[k] = before[k] + credits[k]
             /\ left[k] \in Int /\ Owes[k] = left[k] + credits[k]
  <2>1. PICK a \in Int : a = Credit(k, n)
    BY CreditBounds
  <2>2. /\ q[k].recovered = recoveries[k].recovered + a
        /\ q[k].amount = recoveries[k].amount
    BY <1>1, <2>1, CreditedRows
  <2>3. /\ recoveries[k].amount \in Int /\ recoveries[k].recovered \in Int
        /\ Owes[k] = recoveries[k].amount - recoveries[k].recovered
    BY OwesInt
  <2>4. left[k] = q[k].amount - q[k].recovered
    BY <1>1 DEF Owed
  <2>5. credits[k] = a /\ before[k] = recoveries[k].recovered /\ after[k] = q[k].recovered
    BY <1>1, <2>1
  <2>6. QED BY <2>2, <2>3, <2>4, <2>5
<1>4. DOMAIN before = 1..N /\ DOMAIN after = 1..N /\ DOMAIN left = 1..N
  BY <1>1
<1> HIDE DEF credits, before, after, left, N
<1>5. SumFunctionOnSet(after, 1..N) = SumFunctionOnSet(before, 1..N) + n
  <2>1. \A k \in 1..N : before[k] \in Int /\ credits[k] \in Int /\ after[k] = before[k] + credits[k]
    BY <1>3
  <2>2. SumFunctionOnSet(after, 1..N)
          = SumFunctionOnSet(before, 1..N) + SumFunctionOnSet(credits, 1..N)
    <3>1. PICK S, f, g, h : S = 1..N /\ f = before /\ g = credits /\ h = after
      OBVIOUS
    <3>2. IsFiniteSet(S) /\ \A k \in S : f[k] \in Int /\ g[k] \in Int /\ h[k] = f[k] + g[k]
      BY <1>1, <2>1, <3>1
    <3>3. SumFunctionOnSet(h, S) = SumFunctionOnSet(f, S) + SumFunctionOnSet(g, S)
      BY <3>2, SumOfSum
    <3>4. QED BY <3>1, <3>3
  <2>3. QED BY <1>2, <2>2
<1>6. SumFunctionOnSet(Owes, 1..N) = SumFunctionOnSet(left, 1..N) + n
  <2>1. \A k \in 1..N : left[k] \in Int /\ credits[k] \in Int /\ Owes[k] = left[k] + credits[k]
    BY <1>3
  <2>2. SumFunctionOnSet(Owes, 1..N)
          = SumFunctionOnSet(left, 1..N) + SumFunctionOnSet(credits, 1..N)
    <3>1. PICK S, f, g, h : S = 1..N /\ f = left /\ g = credits /\ h = Owes
      OBVIOUS
    <3>2. IsFiniteSet(S) /\ \A k \in S : f[k] \in Int /\ g[k] \in Int /\ h[k] = f[k] + g[k]
      BY <1>1, <2>1, <3>1
    <3>3. SumFunctionOnSet(h, S) = SumFunctionOnSet(f, S) + SumFunctionOnSet(g, S)
      BY <3>2, SumOfSum
    <3>4. QED BY <3>1, <3>3
  <2>3. QED BY <1>2, <2>2
<1>7. SumFunctionOnSet(left, 1..N) \in Int
  BY <1>1, <1>3, SumIsInt
<1>8. StillOwed(q) = SumFunctionOnSet(left, 1..N)
  BY <1>4, SumOfAll DEF StillOwed, left
<1>9. Debt = SumFunctionOnSet(Owes, 1..N)
  BY <1>1, DebtIsSum
<1>10. /\ Recovered(q) = SumFunctionOnSet(after, 1..N)
       /\ Recovered(recoveries) = SumFunctionOnSet(before, 1..N)
  BY <1>4, SumOfAll DEF Recovered, after, before
<1>11. QED BY <1>5, <1>6, <1>7, <1>8, <1>9, <1>10

\* A recovery that is opened adds its amount to the debt.
LEMMA OpenedMoney ==
  ASSUME RowsOK, RecoveryInv, NEW r \in RecoveryRows, r.recovered = 0,
         NEW q, q = Append(recoveries, r)
  PROVE  /\ StillOwed(q) = Debt + r.amount
         /\ Recovered(q) = Recovered(recoveries)
<1> DEFINE N == Len(recoveries)
           before == [k \in DOMAIN recoveries |-> recoveries[k].recovered]
           after == [k \in DOMAIN q |-> q[k].recovered]
           left == [k \in DOMAIN q |-> Owed(q[k])]
<1>1. /\ N \in Nat /\ IsFiniteSet(1..N) /\ DOMAIN recoveries = 1..N
      /\ 1..N+1 = (1..N) \cup {N + 1} /\ N + 1 \notin 1..N
  <2>1. N \in Nat /\ DOMAIN recoveries = 1..N
    BY OwesInt
  <2> HIDE DEF N
  <2>2. IsFiniteSet(1..N)
    BY <2>1, FS_Interval
  <2>3. 1..N+1 = (1..N) \cup {N + 1} /\ N + 1 \notin 1..N
    BY <2>1
  <2>4. QED BY <2>1, <2>2, <2>3
<1>2. /\ DOMAIN q = 1..N+1 /\ q[N + 1] = r
      /\ \A k \in 1..N : q[k] = recoveries[k]
  BY <1>1 DEF RowsOK
<1>3. /\ \A k \in 1..N : /\ before[k] \in Int /\ after[k] = before[k] /\ after[k] \in Int
                         /\ Owes[k] \in Int /\ left[k] = Owes[k] /\ left[k] \in Int
      /\ after[N + 1] = 0 /\ left[N + 1] = r.amount /\ r.amount \in Int
  <2>1. ASSUME NEW k \in 1..N
        PROVE  /\ before[k] \in Int /\ after[k] = before[k] /\ after[k] \in Int
               /\ Owes[k] \in Int /\ left[k] = Owes[k] /\ left[k] \in Int
    <3>1. k \in 1..N+1 /\ q[k] = recoveries[k]
      BY <1>1, <1>2
    <3>2. after[k] = recoveries[k].recovered /\ left[k] = Owed(recoveries[k])
      BY <1>2, <3>1
    <3>3. /\ recoveries[k].recovered \in Int /\ Owes[k] \in Int
          /\ Owes[k] = Owed(recoveries[k])
      BY OwesInt DEF Owed
    <3>4. before[k] = recoveries[k].recovered
      BY <1>1
    <3>5. QED BY <3>2, <3>3, <3>4
  <2>2. r.amount \in Int /\ r.recovered \in Int
    BY DEF RecoveryRows
  <2>3. N + 1 \in DOMAIN q
    BY <1>1, <1>2
  <2>4. after[N + 1] = 0 /\ left[N + 1] = r.amount
    BY <1>2, <2>2, <2>3 DEF Owed
  <2>5. QED BY <2>1, <2>2, <2>4
<1>4. DOMAIN before = 1..N /\ DOMAIN after = 1..N+1 /\ DOMAIN left = 1..N+1
  BY <1>1, <1>2
<1> HIDE DEF before, after, left, N
<1>5. SumFunctionOnSet(before, 1..N) = SumFunctionOnSet(after, 1..N)
  BY <1>1, <1>3, SumOfSame
<1>6. SumFunctionOnSet(Owes, 1..N) = SumFunctionOnSet(left, 1..N)
  BY <1>1, <1>3, SumOfSame
<1>7. SumFunctionOnSet(after, 1..N+1) = SumFunctionOnSet(after, 1..N) + 0
  <2>1. after[N + 1] \in Int /\ \A k \in 1..N : after[k] \in Int
    BY <1>3
  <2>2. SumFunctionOnSet(after, (1..N) \cup {N + 1}) = SumFunctionOnSet(after, 1..N) + after[N + 1]
    BY <1>1, <2>1, SumWith
  <2>3. QED BY <1>1, <1>3, <2>2
<1>8. SumFunctionOnSet(left, 1..N+1) = SumFunctionOnSet(left, 1..N) + r.amount
  <2>1. left[N + 1] \in Int /\ \A k \in 1..N : left[k] \in Int
    BY <1>3
  <2>2. SumFunctionOnSet(left, (1..N) \cup {N + 1}) = SumFunctionOnSet(left, 1..N) + left[N + 1]
    BY <1>1, <2>1, SumWith
  <2>3. QED BY <1>1, <1>3, <2>2
<1>9. SumFunctionOnSet(after, 1..N) \in Int
  BY <1>1, <1>3, SumIsInt
<1>10. StillOwed(q) = SumFunctionOnSet(left, 1..N+1)
  BY <1>4, SumOfAll DEF StillOwed, left
<1>11. /\ Recovered(q) = SumFunctionOnSet(after, 1..N+1)
       /\ Recovered(recoveries) = SumFunctionOnSet(before, 1..N)
  BY <1>4, SumOfAll DEF Recovered, after, before
<1>12. Debt = SumFunctionOnSet(Owes, 1..N)
  BY <1>1, DebtIsSum
<1>13. QED BY <1>5, <1>6, <1>7, <1>8, <1>9, <1>10, <1>11, <1>12
-------------------------------------------------------------------------------
(***************************************************************************)
(* The books, when the calls run one at a time.                            *)
(***************************************************************************)
OneAtATime == \A c, d \in Callers : c = d

\* What a call read of its settlement still holds when it uses it.
Busy == {"writeOff", "lose", "withhold", "claim", "manualRow", "manual"} \cup Transferring
OneShape(c) ==
  LET x == call[c]  s == call[c].s IN
  /\ x.pc \in {"writeOff", "lose"} /\ Status(s) # "CANCELLED" => x.net = settlement[s].net
  /\ x.pc \in {"withhold", "claim"} => Status(s) = "ELIGIBLE"
  /\ x.pc \in {"manualRow", "manual"} => Status(s) \in {"ELIGIBLE", "TRANSFER_FAILED"}
  /\ x.pc \in Busy \ {"writeOff", "lose"} => x.net = settlement[s].net
  /\ x.pc = "withhold" => x.net <= Debt
  /\ x.pc \in Transferring => settlement[s].method = "STRIPE_CONNECT"
  /\ x.pc \in {"claim"} \cup Transferring =>
       0 <= x.offset /\ x.offset <= Debt /\ x.net = x.offset + x.amount

OneShapes == \A c \in Callers : OneShape(c)

\* The settlements that were paid through Stripe, what was sent for them and
\* what they were worth.
InThrough(s) ==
  Status(s) \in Paid /\ settlement[s].method \in {"STRIPE_CONNECT", "RECOVERY_OFFSET"}
Through == {s \in Settlements : InThrough(s)}
SentThrough == SumFunctionOnSet(stripe.sent, Through)
NetThrough == SumFunction([s \in Through |-> settlement[s].net])

PaysNet(s) ==
  Status(s) # "CANCELLED" =>
    payable[s] = IF Status(s) \in Paid \cup {"none"} THEN 0 ELSE settlement[s].net

Books == PayableIsNet /\ RecoverableIsDebt /\ SellerPaidNetLessDebt

LEMMA BooksAre ==
  Books <=> /\ \A s \in Settlements : PaysNet(s)
            /\ recoverable = StillOwed(recoveries)
            /\ SentThrough = NetThrough - Recovered(recoveries)
BY DEF Books, PayableIsNet, PaysNet, RecoverableIsDebt, Debt, StillOwed, SellerPaidNetLessDebt,
       SentThrough, NetThrough, Recovered, Through, InThrough

LEMMA BooksAreLater ==
  Books' <=> /\ \A s \in Settlements : PaysNet(s)'
             /\ recoverable' = StillOwed(recoveries')
             /\ SentThrough' = NetThrough' - Recovered(recoveries')
BY DEF Books, PayableIsNet, PaysNet, RecoverableIsDebt, Debt, StillOwed, SellerPaidNetLessDebt,
       SentThrough, NetThrough, Recovered, Through, InThrough

\* The sums over the settlements paid through Stripe, from their parts.
LEMMA SumsThrough ==
  ASSUME Typed
  PROVE  /\ IsFiniteSet(Through)
         /\ \A s \in Through : stripe.sent[s] \in Int /\ settlement[s].net \in Int
         /\ SentThrough \in Int /\ NetThrough \in Int /\ Recovered(recoveries) \in Int
<1>1. IsFiniteSet(Through)
  BY SettlementsAssumption, FS_Subset DEF Through
<1>2. \A s \in Through : stripe.sent[s] \in Int /\ settlement[s].net \in Int
  BY DEF Through, Typed, StripeOK, StripeStates, RowsOK, SettlementRows
<1>3. SentThrough \in Int
  BY <1>1, <1>2, SumIsInt DEF SentThrough
<1>4. NetThrough \in Int
  <2> DEFINE nets == [s \in Through |-> settlement[s].net]
  <2>1. DOMAIN nets = Through /\ \A s \in Through : nets[s] \in Int
    BY <1>2
  <2> HIDE DEF nets
  <2>2. SumFunctionOnSet(nets, Through) \in Int
    BY <1>1, <2>1, SumIsInt
  <2>3. QED BY <2>1, <2>2, SumOfAll DEF NetThrough, nets
<1>5. Recovered(recoveries) \in Int
  <2> DEFINE done == [k \in DOMAIN recoveries |-> recoveries[k].recovered]
             N == Len(recoveries)
  <2>1. DOMAIN done = 1..N /\ IsFiniteSet(1..N) /\ \A k \in 1..N : done[k] \in Int
    BY OwesInt, FS_Interval DEF Typed
  <2> HIDE DEF done, N
  <2>2. SumFunctionOnSet(done, 1..N) \in Int
    BY <2>1, SumIsInt
  <2>3. QED BY <2>1, <2>2, SumOfAll DEF Recovered, done
<1>6. QED BY <1>1, <1>2, <1>3, <1>4, <1>5

LEMMA ThroughStays ==
  ASSUME Typed, Typed',
         \A s \in Settlements : InThrough(s)' <=> InThrough(s),
         \A s \in Settlements : InThrough(s) =>
           stripe'.sent[s] = stripe.sent[s] /\ settlement'[s].net = settlement[s].net
  PROVE  SentThrough' = SentThrough /\ NetThrough' = NetThrough
<1>1. PICK T, before, after, net, newNet :
        /\ T = Through /\ before = stripe.sent /\ after = stripe'.sent
        /\ net = [s \in Through |-> settlement[s].net]
        /\ newNet = [s \in Through |-> settlement'[s].net]
  OBVIOUS
<1>2. Through' = T
  BY <1>1 DEF Through
<1>3. IsFiniteSet(T) /\ \A s \in T : /\ before[s] \in Int /\ after[s] = before[s]
                                     /\ net[s] \in Int /\ newNet[s] = net[s]
  BY <1>1, SumsThrough DEF Through
<1>4. SumFunctionOnSet(before, T) = SumFunctionOnSet(after, T)
  BY <1>3, SumOfSame
<1>5. SumFunctionOnSet(net, T) = SumFunctionOnSet(newNet, T)
  BY <1>3, SumOfSame
<1>6. SentThrough = SumFunctionOnSet(before, T) /\ SentThrough' = SumFunctionOnSet(after, T)
  BY <1>1, <1>2 DEF SentThrough
<1>7. NetThrough = SumFunction(net) /\ NetThrough' = SumFunction(newNet)
  BY <1>1, <1>2 DEF NetThrough
<1>8. DOMAIN net = T /\ DOMAIN newNet = T
  BY <1>1
<1>9. SumFunction(net) = SumFunctionOnSet(net, T) /\ SumFunction(newNet) = SumFunctionOnSet(newNet, T)
  BY <1>8, SumOfAll
<1>10. QED BY <1>4, <1>5, <1>6, <1>7, <1>9

LEMMA ThroughGrows ==
  ASSUME Typed, Typed', NEW s \in Settlements, ~ InThrough(s), InThrough(s)',
         \A t \in Settlements \ {s} : InThrough(t)' <=> InThrough(t),
         \A t \in Settlements \ {s} : InThrough(t) =>
           stripe'.sent[t] = stripe.sent[t] /\ settlement'[t].net = settlement[t].net
  PROVE  /\ SentThrough' = SentThrough + stripe'.sent[s]
         /\ NetThrough' = NetThrough + settlement'[s].net
<1>1. PICK T, before, after, net, newNet :
        /\ T = Through /\ before = stripe.sent /\ after = stripe'.sent
        /\ net = [t \in Through |-> settlement[t].net]
        /\ newNet = [t \in Through \cup {s} |-> settlement'[t].net]
  OBVIOUS
<1>2. Through' = T \cup {s} /\ s \notin T
  BY <1>1 DEF Through
<1>3. IsFiniteSet(T)
  BY <1>1, SumsThrough
<1>4. \A t \in T : before[t] \in Int /\ after[t] = before[t]
  BY <1>1, SumsThrough DEF Through
<1>5. \A t \in T : net[t] \in Int /\ newNet[t] = net[t]
  BY <1>1, SumsThrough DEF Through
<1>6. after[s] \in Int /\ newNet[s] \in Int /\ newNet[s] = settlement'[s].net
  BY <1>1 DEF Typed, StripeOK, StripeStates, RowsOK, SettlementRows
<1>7. SumFunctionOnSet(before, T) = SumFunctionOnSet(after, T)
  BY <1>3, <1>4, SumOfSame
<1>8. SumFunctionOnSet(net, T) = SumFunctionOnSet(newNet, T)
  BY <1>3, <1>5, SumOfSame
<1>9. SumFunctionOnSet(after, T \cup {s}) = SumFunctionOnSet(after, T) + after[s]
  <2>1. \A t \in T : after[t] \in Int
    BY <1>4
  <2>2. QED BY <1>2, <1>3, <1>6, <2>1, SumWith
<1>10. SumFunctionOnSet(newNet, T \cup {s}) = SumFunctionOnSet(newNet, T) + newNet[s]
  <2>1. \A t \in T : newNet[t] \in Int
    BY <1>5
  <2>2. QED BY <1>2, <1>3, <1>6, <2>1, SumWith
<1>11. SentThrough = SumFunctionOnSet(before, T) /\ SentThrough' = SumFunctionOnSet(after, T \cup {s})
  BY <1>1, <1>2 DEF SentThrough
<1>12. NetThrough = SumFunction(net)
  BY <1>1 DEF NetThrough
<1>13. NetThrough' = SumFunction(newNet)
  BY <1>1, <1>2 DEF NetThrough
<1>14. DOMAIN net = T /\ DOMAIN newNet = T \cup {s}
  BY <1>1
<1>15. /\ SumFunction(net) = SumFunctionOnSet(net, T)
       /\ SumFunction(newNet) = SumFunctionOnSet(newNet, T \cup {s})
  BY <1>14, SumOfAll
<1>16. QED BY <1>1, <1>6, <1>7, <1>8, <1>9, <1>10, <1>11, <1>12, <1>13, <1>15

LEMMA BooksStay ==
  ASSUME Typed, Typed', Books, UNCHANGED <<recoveries, recoverable>>,
         \A s \in Settlements : PaysNet(s)',
         \A s \in Settlements : InThrough(s)' <=> InThrough(s),
         \A s \in Settlements : InThrough(s) =>
           stripe'.sent[s] = stripe.sent[s] /\ settlement'[s].net = settlement[s].net
  PROVE  Books'
BY BooksAre, BooksAreLater, ThroughStays

LEMMA QuietBooks ==
  ASSUME Typed, Typed', Books, UNCHANGED <<settlement, recoveries, payable, recoverable>>,
         \A s \in Settlements : InThrough(s) => stripe'.sent[s] = stripe.sent[s]
  PROVE  Books'
<1>1. \A s \in Settlements : PaysNet(s)'
  BY BooksAre DEF PaysNet, Status
<1>2. \A s \in Settlements : InThrough(s)' <=> InThrough(s)
  BY DEF InThrough, Status
<1>3. QED BY <1>1, <1>2, BooksStay

LEMMA FreeShape ==
  ASSUME NEW c, call'[c].pc \notin Busy
  PROVE  OneShape(c)'
BY DEF OneShape, Busy

LEMMA IdleIsFree ==
  ASSUME NEW c, call'[c] = Idle
  PROVE  call'[c].pc \notin Busy
BY IdleTyped DEF Busy, Transferring

LEMMA OnlyOne ==
  ASSUME OneAtATime, NEW c \in Callers, OneShape(c)'
  PROVE  OneShapes'
BY DEF OneAtATime, OneShapes

\* Steps that touch no settlement, no debt and no account, and whose caller
\* holds on to nothing it read.
Quiet(c) ==
  /\ UNCHANGED <<settlement, recoveries, payable, recoverable>>
  /\ stripe'.sent = stripe.sent
  /\ call'[c].pc \notin Busy

LEMMA QuietKeeps ==
  ASSUME OneAtATime, Typed, Typed', Books, NEW c \in Callers, Quiet(c)
  PROVE  OneShapes' /\ Books'
<1>1. OneShapes'
  BY FreeShape, OnlyOne DEF Quiet
<1>2. Books'
  BY QuietBooks DEF Quiet
<1>3. QED BY <1>1, <1>2

LEMMA RefundsAreQuiet ==
  ASSUME Typed, AskInv, NEW c \in Callers
  PROVE  /\ RefundInsert(c) \/ RefundAsk(c) \/ RefundLink(c) \/ RefundEventDone(c) => Quiet(c)
         /\ \A s \in Settlements : \A n \in Parts \cup {Total - AlreadyRefunded(s)} :
              RefundRead(c, s, n) => Quiet(c)
         /\ \A e \in events : RefundEvent(c, e) => Quiet(c)
         /\ \A i \in Refunds : RefundPost(c, i) => Quiet(c)
<1>1. call[c] \in Calls
  BY DEF Typed, CallsOK
<1>2. ASSUME RefundInsert(c) PROVE Quiet(c)
  <2>1. call'[c].pc = "ask" /\ UNCHANGED <<Rows, stripe>>
    BY <1>2, RefundInsertTyped
  <2>2. QED BY <2>1 DEF Quiet, Busy, Transferring, Rows
<1>3. ASSUME RefundAsk(c) PROVE Quiet(c)
  <2>1. /\ UNCHANGED Rows
        /\ GivenBack(c) \/ UNCHANGED stripe
        /\ call'[c] = [call[c] EXCEPT !.pc = "link"] \/ call'[c] = Idle
    BY <1>3, RefundAskTyped
  <2>2. stripe'.sent = stripe.sent
    BY <2>1 DEF GivenBack
  <2>3. call'[c].pc \in {"link", "idle"}
    BY <1>1, <2>1, IdleTyped DEF Calls
  <2>4. QED BY <2>1, <2>2, <2>3 DEF Quiet, Busy, Transferring, Rows
<1>4. ASSUME RefundLink(c) PROVE Quiet(c)
  <2>1. /\ UNCHANGED <<Rows, stripe>>
        /\ call'[c] = [call[c] EXCEPT !.pc = "apply"] \/ call'[c] = Idle
    BY <1>4, RefundLinkTyped
  <2>2. call'[c].pc \in {"apply", "idle"}
    BY <1>1, <2>1, IdleTyped DEF Calls
  <2>3. QED BY <2>1, <2>2 DEF Quiet, Busy, Transferring, Rows
<1>5. ASSUME RefundEventDone(c) PROVE Quiet(c)
  <2>1. UNCHANGED <<Rows, stripe>> /\ call'[c] = Idle
    BY <1>5, RefundEventDoneTyped
  <2>2. QED BY <2>1, IdleIsFree DEF Quiet, Rows
<1>6. ASSUME NEW s \in Settlements, NEW n \in Parts \cup {Total - AlreadyRefunded(s)},
             RefundRead(c, s, n)
      PROVE  Quiet(c)
  <2>1. UNCHANGED <<Rows, World>> /\ call'[c].pc = "refund"
    BY <1>6, RefundReadTyped
  <2>2. QED BY <2>1 DEF Quiet, Busy, Transferring, Rows, World
<1>7. ASSUME NEW e \in events, RefundEvent(c, e) PROVE Quiet(c)
  <2>1. UNCHANGED <<Rows, World>> /\ call'[c].pc = "event"
    BY <1>7, RefundEventTyped
  <2>2. QED BY <2>1 DEF Quiet, Busy, Transferring, Rows, World
<1>8. ASSUME NEW i \in Refunds, RefundPost(c, i) PROVE Quiet(c)
  <2>1. UNCHANGED <<Rows, stripe>> /\ call'[c].pc \in {"event", "apply"}
    BY <1>8, RefundPostTyped
  <2>2. QED BY <2>1 DEF Quiet, Busy, Transferring, Rows
<1>9. QED BY <1>2, <1>3, <1>4, <1>5, <1>6, <1>7, <1>8

LEMMA OthersAreQuiet ==
  ASSUME Typed, TakeInv, NEW c \in Callers
  PROVE  /\ Recover(c) \/ Reverse(c) \/ Reversed(c) \/ PayoutDone(c) \/ Die(c) => Quiet(c)
         /\ \A e \in events : PayoutPaid(c, e) => Quiet(c)
         /\ \A s \in Settlements : PayoutRow(c, s) => Quiet(c)
<1>1. call[c] \in Calls
  BY DEF Typed, CallsOK
<1>2. ASSUME Recover(c) PROVE Quiet(c)
  <2>1. UNCHANGED <<Rows, World>> /\ (ToldOf(c) \/ call'[c].pc \in {"reverse", "open"})
    BY <1>2, RecoverTyped
  <2>2. call'[c].pc \in {"reverse", "open", "idle", "event"}
    BY <1>1, <2>1, IdleTyped DEF ToldOf, Calls
  <2>3. QED BY <2>1, <2>2 DEF Quiet, Busy, Transferring, Rows, World
<1>3. ASSUME Reverse(c) PROVE Quiet(c)
  <2>1. /\ UNCHANGED Rows
        /\ TakenBack(c) \/ UNCHANGED stripe
        /\ \/ call'[c] = Idle
           \/ call'[c] = [call[c] EXCEPT !.pc = "reversed"]
           \/ call'[c] = [call[c] EXCEPT !.pc = "open"]
    BY <1>3, ReverseTyped DEF TakeInv
  <2>2. stripe'.sent = stripe.sent
    BY <2>1 DEF TakenBack
  <2>3. call'[c].pc \in {"reversed", "open", "idle"}
    BY <1>1, <2>1, IdleTyped DEF Calls
  <2>4. QED BY <2>1, <2>2, <2>3 DEF Quiet, Busy, Transferring, Rows
<1>4. ASSUME Reversed(c) PROVE Quiet(c)
  <2>1. /\ UNCHANGED <<settlement, recoveries, payable, recoverable, World>>
        /\ ToldOf(c)
    BY <1>4, ReversedTyped
  <2>2. call'[c].pc \in {"idle", "event"}
    BY <1>1, <2>1, IdleTyped DEF ToldOf, Calls
  <2>3. QED BY <2>1, <2>2 DEF Quiet, Busy, Transferring, World
<1>5. ASSUME PayoutDone(c) \/ Die(c) PROVE Quiet(c)
  <2>1. UNCHANGED <<Rows, stripe>> /\ call'[c] = Idle
    BY <1>5, PayoutDoneTyped, DieTyped DEF World
  <2>2. QED BY <2>1, IdleIsFree DEF Quiet, Rows
<1>6. ASSUME NEW e \in events, PayoutPaid(c, e) PROVE Quiet(c)
  <2>1. /\ UNCHANGED Rows /\ call'[c].pc = "payout"
        /\ \A f \in {"sent", "reversals", "where", "refunds", "lost"} : stripe'[f] = stripe[f]
    BY <1>6, PayoutPaidTyped
  <2>2. stripe'.sent = stripe.sent
    BY <2>1
  <2>3. QED BY <2>1, <2>2 DEF Quiet, Busy, Transferring, Rows
<1>7. ASSUME NEW s \in Settlements, PayoutRow(c, s) PROVE Quiet(c)
  <2>1. /\ UNCHANGED <<settlement, recoveries, payable, recoverable, World>>
        /\ call'[c].pc = "paid"
    BY <1>7, PayoutRowTyped
  <2>2. QED BY <2>1 DEF Quiet, Busy, Transferring, World
<1>8. QED BY <1>2, <1>3, <1>4, <1>5, <1>6, <1>7

\* What the buyer's bank, Stripe and its events do touches no account.
LEMMA StripeIsQuiet ==
  ASSUME MInv, MInv', OneShapes, Books, Stripe
  PROVE  OneShapes' /\ Books'
<1>1. UNCHANGED <<settlement, recoveries, payable, recoverable, call>>
  BY StripeMoves DEF MInv
<1>2. stripe'.sent = stripe.sent
  <2>1. CASE \E i \in Refunds : DashboardGave(i)
    BY <2>1 DEF DashboardGave
  <2>2. CASE \E s \in Settlements : BankMoved(s)
    BY <2>2 DEF BankMoved
  <2>3. CASE \E e \in events : TransferTold(e) \/ BounceTold(e)
    BY <2>3 DEF TransferTold, BounceTold
  <2>4. QED BY <2>1, <2>2, <2>3, StripeMoves DEF MInv
<1>3. Debt' = Debt
  BY <1>1 DEF Debt
<1>4. OneShapes'
  BY <1>1, <1>3 DEF OneShapes, OneShape, Status
<1>5. Books'
  BY <1>1, <1>2, QuietBooks DEF MInv
<1>6. QED BY <1>4, <1>5
\* What a call holds on to is as true after a step that leaves the settlements
\* and the recoveries alone.
LEMMA ShapeGoesOn ==
  ASSUME CallsOK, NEW c \in Callers, OneShape(c), UNCHANGED <<settlement, recoveries>>,
         NEW pc, call'[c] = [call[c] EXCEPT !.pc = pc],
         \/ call[c].pc \in Transferring /\ pc \in Transferring
         \/ call[c].pc = "manualRow" /\ pc = "manual"
  PROVE  OneShape(c)'
<1>1. Debt' = Debt
  BY DEF Debt
<1>2. /\ call'[c].pc = pc /\ call'[c].s = call[c].s /\ call'[c].net = call[c].net
      /\ call'[c].offset = call[c].offset /\ call'[c].amount = call[c].amount
  BY DEF CallsOK, Calls
<1>3. Status(call[c].s)' = Status(call[c].s) /\ UNCHANGED settlement
  BY DEF Status
<1>4. CASE call[c].pc \in Transferring /\ pc \in Transferring
  BY <1>1, <1>2, <1>3, <1>4 DEF OneShape, Transferring, Busy, Status
<1>5. CASE call[c].pc = "manualRow" /\ pc = "manual"
  BY <1>1, <1>2, <1>3, <1>5 DEF OneShape, Transferring, Busy, Status
<1>6. QED BY <1>4, <1>5

LEMMA ReadsKeep ==
  ASSUME OneAtATime, MInv, MInv', OneShapes, Books, NEW c \in Callers
  PROVE  /\ ApplyRead(c) => OneShapes' /\ Books'
         /\ \A s \in Settlements :
              DisputeLost(c, s) \/ TransferRead(c, s) \/ ManualRead(c, s) => OneShapes' /\ Books'
<1>1. call[c] \in Calls /\ Debt \in Nat
  BY DebtNat DEF MInv, Typed, CallsOK
<1>2. ASSUME ApplyRead(c)
      PROVE  OneShapes' /\ Books'
  <2>1. /\ UNCHANGED <<Rows, World>>
        /\ \/ ToldOf(c)
           \/ call'[c] = [call[c] EXCEPT !.pc = "recover"]
           \/ call'[c] = [call[c] EXCEPT !.pc = "writeOff", !.net = settlement[call[c].s].net]
           \/ \E n \in Int : call'[c] = [call[c] EXCEPT !.pc = "reduce", !.net = n]
    BY <1>2, ApplyReadTyped DEF MInv
  <2>2. \/ call'[c].pc \in {"idle", "event", "recover", "reduce"}
        \/ /\ call'[c].pc = "writeOff" /\ call'[c].s = call[c].s
           /\ call'[c].net = settlement[call[c].s].net
    BY <1>1, <2>1, IdleTyped DEF ToldOf, Calls
  <2>3. OneShape(c)'
    BY <2>1, <2>2 DEF OneShape, Busy, Transferring, Rows
  <2>4. QED BY <2>1, <2>3, OnlyOne, QuietBooks DEF MInv, Rows, World
<1>3. ASSUME NEW s \in Settlements, DisputeLost(c, s)
      PROVE  OneShapes' /\ Books'
  <2>1. /\ UNCHANGED Rows /\ call'[c].s = s /\ call'[c].net = settlement[s].net
        /\ call'[c].pc \in {"recover", "lose"}
        /\ \A f \in {"sent", "reversals", "where", "refunds", "guessed"} : stripe'[f] = stripe[f]
    BY <1>3, DisputeLostTyped DEF MInv
  <2>2. stripe'.sent = stripe.sent
    BY <2>1
  <2>3. OneShape(c)'
    BY <2>1 DEF OneShape, Busy, Transferring, Rows
  <2>4. QED BY <2>1, <2>2, <2>3, OnlyOne, QuietBooks DEF MInv, Rows
<1>4. ASSUME NEW s \in Settlements, TransferRead(c, s)
      PROVE  OneShapes' /\ Books'
  <2>1. /\ UNCHANGED <<Rows, World>> /\ Status(s) = "ELIGIBLE" /\ call'[c].s = s
        /\ \E net, offset \in Int :
             /\ net = settlement[s].net /\ offset = Offset(net)
             /\ call'[c].net = net /\ call'[c].offset = offset /\ call'[c].amount = net - offset
             /\ \/ net - offset <= 0 /\ call'[c].pc = "withhold"
                \/ net - offset > 0 /\ call'[c].pc = "claim"
    BY <1>4, TransferReadTyped DEF MInv
  <2>2. PICK net \in Int, offset \in Int :
          /\ net = settlement[s].net /\ offset = Offset(net)
          /\ call'[c].net = net /\ call'[c].offset = offset /\ call'[c].amount = net - offset
          /\ \/ net - offset <= 0 /\ call'[c].pc = "withhold"
             \/ net - offset > 0 /\ call'[c].pc = "claim"
    BY <2>1
  <2>3. net >= 0
    BY <2>2 DEF MInv, NetInv
  <2>4. Debt' = Debt /\ settlement' = settlement
    BY <2>1 DEF Debt, Rows
  <2>5. 0 <= offset /\ offset <= Debt /\ net = offset + (net - offset)
    BY <1>1, <2>2, <2>3 DEF Offset, Smaller
  <2>6. net - offset <= 0 => net <= Debt
    BY <1>1, <2>2, <2>5
  <2>7. OneShape(c)'
    <3>1. CASE net - offset <= 0 /\ call'[c].pc = "withhold"
      BY <2>1, <2>2, <2>4, <2>6, <3>1 DEF OneShape, Busy, Transferring, Status
    <3>2. CASE net - offset > 0 /\ call'[c].pc = "claim"
      BY <2>1, <2>2, <2>4, <2>5, <3>2 DEF OneShape, Busy, Transferring, Status
    <3>3. QED BY <2>2, <3>1, <3>2
  <2>8. QED BY <2>1, <2>7, OnlyOne, QuietBooks DEF MInv, Rows, World
<1>5. ASSUME NEW s \in Settlements, ManualRead(c, s)
      PROVE  OneShapes' /\ Books'
  <2>1. /\ UNCHANGED <<Rows, World>> /\ Status(s) \in {"ELIGIBLE", "TRANSFER_FAILED"}
        /\ call'[c].pc = "manualRow" /\ call'[c].s = s /\ call'[c].net = settlement[s].net
    BY <1>5, ManualReadTyped DEF MInv
  <2>2. OneShape(c)'
    BY <2>1 DEF OneShape, Busy, Transferring, Rows, Status
  <2>3. QED BY <2>1, <2>2, OnlyOne, QuietBooks DEF MInv, Rows, World
<1>6. QED BY <1>2, <1>3, <1>4, <1>5

LEMMA TransferStepsKeep ==
  ASSUME OneAtATime, MInv, MInv', OneShapes, Books, NEW c \in Callers,
         TransferRow(c) \/ Failed(c) \/ ManualRow(c) \/ Send(c)
  PROVE  OneShapes' /\ Books'
<1>1. CallsOK /\ Typed /\ Typed' /\ OneShape(c)
  BY DEF MInv, Typed, OneShapes
<1>2. UNCHANGED <<settlement, recoveries, payable, recoverable>>
  BY <1>1, TransferRowTyped, FailedTyped, ManualRowTyped, SendTyped DEF Rows
<1>3. \/ call'[c] = Idle
      \/ \E pc \in PCs : /\ call'[c] = [call[c] EXCEPT !.pc = pc]
                         /\ \/ call[c].pc \in Transferring /\ pc \in Transferring
                            \/ call[c].pc = "manualRow" /\ pc = "manual"
  <2>1. CASE TransferRow(c)
    BY <1>1, <2>1, TransferRowTyped DEF PCs, Transferring
  <2>2. CASE Failed(c)
    BY <1>1, <2>2, FailedTyped DEF PCs, Transferring
  <2>3. CASE ManualRow(c)
    BY <1>1, <2>3, ManualRowTyped DEF PCs, Others
  <2>4. CASE Send(c)
    BY <1>1, <2>4, SendTyped DEF PCs, Transferring
  <2>5. QED BY <2>1, <2>2, <2>3, <2>4
<1>4. OneShape(c)'
  BY <1>1, <1>2, <1>3, ShapeGoesOn, IdleIsFree, FreeShape
<1>5. \A s \in Settlements : InThrough(s) => stripe'.sent[s] = stripe.sent[s]
  <2>1. CASE UNCHANGED stripe
    BY <2>1
  <2>2. CASE Send(c) /\ stripe'.sent = [stripe.sent EXCEPT ![call[c].s] = call[c].amount]
    <3>1. Status(call[c].s) = "TRANSFER_PENDING"
      BY <1>1, <2>2, SendTyped DEF MInv, PayInv, PayShape, Transferring
    <3>2. ~ InThrough(call[c].s)
      BY <3>1 DEF InThrough, Paid
    <3>3. QED BY <1>1, <2>2, <3>2 DEF Typed, StripeOK, StripeStates
  <2>3. \/ UNCHANGED stripe
        \/ Send(c) /\ stripe'.sent = [stripe.sent EXCEPT ![call[c].s] = call[c].amount]
    BY <1>1, TransferRowTyped, FailedTyped, ManualRowTyped, SendTyped DEF World
  <2>4. QED BY <2>1, <2>2, <2>3
<1>6. QED BY <1>1, <1>2, <1>4, <1>5, OnlyOne, QuietBooks
\* A step that changes one settlement, and not how it was paid.
LEMMA OneChanges ==
  ASSUME Typed, Typed', Books, NEW s \in Settlements,
         UNCHANGED <<recoveries, recoverable>>, stripe'.sent = stripe.sent,
         \A t \in Settlements \ {s} : settlement'[t] = settlement[t] /\ payable'[t] = payable[t],
         PaysNet(s)',
         \/ ~ InThrough(s) /\ ~ InThrough(s)'
         \/ InThrough(s) /\ InThrough(s)' /\ settlement'[s].net = settlement[s].net
  PROVE  Books'
<1>1. \A t \in Settlements : PaysNet(t)'
  <2>1. ASSUME NEW t \in Settlements \ {s} PROVE PaysNet(t)'
    BY <2>1, BooksAre DEF PaysNet, Status
  <2>2. QED BY <2>1
<1>2. \A t \in Settlements \ {s} : InThrough(t)' <=> InThrough(t)
  BY DEF InThrough, Status
<1>3. \A t \in Settlements : InThrough(t)' <=> InThrough(t)
  BY <1>2
<1>4. \A t \in Settlements : InThrough(t) =>
        stripe'.sent[t] = stripe.sent[t] /\ settlement'[t].net = settlement[t].net
  OBVIOUS
<1>5. QED BY <1>1, <1>3, <1>4, BooksStay

LEMMA ToldIsFree ==
  ASSUME Typed, NEW c \in Callers, ToldOf(c)
  PROVE  OneShape(c)'
<1>1. call'[c].pc \in {"idle", "event"}
  BY IdleTyped DEF ToldOf, Typed, CallsOK, Calls
<1>2. QED BY <1>1, FreeShape DEF Busy, Transferring

LEMMA WrittenOffBooks ==
  ASSUME Typed, Typed', Books, NEW s \in Settlements, WrittenOff(s, settlement[s].net),
         UNCHANGED <<recoveries, recoverable, stripe>>
  PROVE  Books'
<1>1. payable[s] = settlement[s].net /\ settlement[s].net \in Int
  BY BooksAre DEF PaysNet, WrittenOff, Typed, RowsOK, SettlementRows, Paid
<1>2. Status(s)' = "REFUNDED" /\ settlement'[s].net = 0 /\ payable'[s] = 0
  BY <1>1 DEF WrittenOff, Status
<1>3. PaysNet(s)'
  BY <1>2 DEF PaysNet, Paid
<1>4. ~ InThrough(s) /\ ~ InThrough(s)'
  BY <1>2 DEF InThrough, WrittenOff, Paid
<1>5. QED BY <1>3, <1>4, OneChanges DEF WrittenOff

LEMMA AdjustedBooks ==
  ASSUME Typed, Typed', Books, NEW s \in Settlements, Adjusted(s), Adjustable(s),
         UNCHANGED <<recoveries, recoverable, stripe>>
  PROVE  Books'
<1>1. PICK net \in Nat :
        /\ settlement'[s] = [status |-> Status(s), net |-> net, method |-> settlement[s].method]
        /\ \A t \in Settlements \ {s} : settlement'[t] = settlement[t]
        /\ payable'[s] = payable[s] + (net - settlement[s].net)
        /\ \A t \in Settlements \ {s} : payable'[t] = payable[t]
  BY DEF Adjusted
<1>2. Status(s) \notin Paid \cup {"none"} /\ Status(s)' = Status(s) /\ settlement'[s].net = net
  BY <1>1 DEF Adjustable, Status
<1>3. PaysNet(s)'
  <2>1. settlement[s].net \in Int
    BY DEF Typed, RowsOK, SettlementRows
  <2>2. Status(s) # "CANCELLED" => payable[s] = settlement[s].net
    BY <1>2, BooksAre DEF PaysNet
  <2>3. Status(s) # "CANCELLED" => payable'[s] = net
    BY <1>1, <2>1, <2>2
  <2>4. QED BY <1>2, <2>3 DEF PaysNet
<1>4. ~ InThrough(s) /\ ~ InThrough(s)'
  BY <1>2 DEF InThrough
<1>5. QED BY <1>1, <1>3, <1>4, OneChanges

LEMMA RefundedKeep ==
  ASSUME OneAtATime, MInv, MInv', OneShapes, Books, NEW c \in Callers,
         WriteOff(c) \/ Lose(c) \/ Reduce(c)
  PROVE  OneShapes' /\ Books'
<1>1. /\ Typed /\ Typed' /\ OneShape(c) /\ call[c].pc \in {"writeOff", "lose", "reduce"}
  BY WriteOffTyped, LoseTyped, ReduceTyped DEF MInv, OneShapes
<1>2. call[c].s \in Settlements
  BY <1>1 DEF Typed, CallsOK
<1>3. PICK s \in Settlements : s = call[c].s
  BY <1>2
<1>4. ToldOf(c) /\ UNCHANGED <<recoveries, recoverable, stripe>>
  BY <1>1, WriteOffTyped, LoseTyped, ReduceTyped DEF ToldOf, World
<1>5. \/ UNCHANGED <<settlement, payable>>
      \/ Adjusted(s) /\ Adjustable(s)
      \/ call[c].pc \in {"writeOff", "lose"} /\ WrittenOff(s, call[c].net)
  BY <1>1, <1>3, WriteOffTyped, LoseTyped, ReduceTyped
<1>6. OneShapes'
  BY <1>1, <1>4, ToldIsFree, OnlyOne
<1>7. CASE UNCHANGED <<settlement, payable>>
  BY <1>1, <1>4, <1>6, <1>7, QuietBooks
<1>8. CASE Adjusted(s) /\ Adjustable(s)
  BY <1>1, <1>4, <1>6, <1>8, AdjustedBooks
<1>9. CASE call[c].pc \in {"writeOff", "lose"} /\ WrittenOff(s, call[c].net)
  <2>1. Status(s) # "CANCELLED"
    BY <1>9 DEF WrittenOff
  <2>2. call[c].net = settlement[s].net
    BY <1>1, <1>3, <1>9, <2>1 DEF OneShape
  <2>3. WrittenOff(s, settlement[s].net)
    BY <1>9, <2>2
  <2>4. QED BY <1>1, <1>4, <1>6, <2>3, WrittenOffBooks
<1>10. QED BY <1>5, <1>7, <1>8, <1>9

\* An adjustment is made by a caller that is idle, and so is everybody else.
LEMMA AdjustedKeeps ==
  ASSUME OneAtATime, MInv, MInv', OneShapes, Books, NEW c \in Callers,
         NEW s \in Settlements, NEW n \in Changes, Adjust(c, s, n)
  PROVE  OneShapes' /\ Books'
<1>1. /\ Typed /\ Typed' /\ UNCHANGED <<recoveries, recoverable, stripe, call>>
      /\ Adjusted(s) /\ Adjustable(s) /\ call[c].pc = "idle"
  BY AdjustTyped DEF MInv, World
<1>2. OneShape(c)'
  BY <1>1, FreeShape DEF Busy, Transferring
<1>3. QED BY <1>1, <1>2, OnlyOne, AdjustedBooks
-------------------------------------------------------------------------------
LEMMA MovesBooks ==
  ASSUME Typed, Typed', Books, NEW s \in Settlements, NEW st, NEW m, MovesTo(s, st, m),
         UNCHANGED <<payable, recoveries, recoverable, stripe>>,
         \/ Status(s) \notin Paid \cup {"none", "CANCELLED"} /\ st \notin Paid \cup {"none", "CANCELLED"}
         \/ Status(s) \in Paid /\ st \in Paid /\ m = settlement[s].method
  PROVE  Books'
<1>1. /\ Status(s)' = st /\ settlement'[s].net = settlement[s].net /\ settlement'[s].method = m
      /\ \A t \in Settlements \ {s} : settlement'[t] = settlement[t]
  BY DEF MovesTo, Status
<1>2. PaysNet(s)
  BY BooksAre
<1>3. CASE /\ Status(s) \notin Paid \cup {"none", "CANCELLED"}
           /\ st \notin Paid \cup {"none", "CANCELLED"}
  <2>1. PaysNet(s)'
    BY <1>1, <1>2, <1>3 DEF PaysNet
  <2>2. ~ InThrough(s) /\ ~ InThrough(s)'
    BY <1>1, <1>3 DEF InThrough
  <2>3. QED BY <1>1, <2>1, <2>2, OneChanges
<1>4. CASE Status(s) \in Paid /\ st \in Paid /\ m = settlement[s].method
  <2>1. PaysNet(s)'
    BY <1>1, <1>2, <1>4 DEF PaysNet, Paid
  <2>2. InThrough(s)' <=> InThrough(s)
    BY <1>1, <1>4 DEF InThrough
  <2>3. QED BY <1>1, <2>1, <2>2, OneChanges
<1>5. QED BY <1>3, <1>4

LEMMA MovingKeeps ==
  ASSUME OneAtATime, MInv, MInv', OneShapes, Books, NEW c \in Callers,
         Claim(c) \/ GiveUp(c) \/ PayoutMove(c)
  PROVE  OneShapes' /\ Books'
<1>1. /\ Typed /\ Typed' /\ OneShape(c) /\ call[c] \in Calls
      /\ call[c].pc \in {"claim", "giveUp", "paid"}
  BY ClaimTyped, GiveUpTyped, PayoutMoveTyped DEF MInv, OneShapes, Typed, CallsOK
<1>2. PICK s \in Settlements : s = call[c].s
  BY <1>1 DEF Typed, CallsOK
<1>3. UNCHANGED <<payable, recoveries, recoverable, stripe>>
  BY <1>1, ClaimTyped, GiveUpTyped, PayoutMoveTyped DEF World
<1>4. Debt' = Debt
  BY <1>3 DEF Debt
<1>5. CASE Claim(c)
  <2>1. /\ Status(s) = "ELIGIBLE" /\ MovesTo(s, "TRANSFER_PENDING", "STRIPE_CONNECT")
        /\ call'[c] = [call[c] EXCEPT !.pc = "row"] /\ call[c].pc = "claim"
    BY <1>1, <1>2, <1>5, ClaimTyped DEF OneShape
  <2>2. Books'
    BY <1>1, <1>3, <2>1, MovesBooks DEF Paid
  <2>3. /\ call'[c].pc = "row" /\ call'[c].s = s /\ call'[c].net = call[c].net
        /\ call'[c].offset = call[c].offset /\ call'[c].amount = call[c].amount
    BY <1>1, <1>2, <2>1 DEF Calls
  <2>4. settlement'[s].net = settlement[s].net /\ settlement'[s].method = "STRIPE_CONNECT"
    BY <2>1 DEF MovesTo
  <2>5. OneShape(c)'
    BY <1>1, <1>2, <1>4, <2>1, <2>3, <2>4 DEF OneShape, Busy, Transferring
  <2>6. QED BY <2>2, <2>5, OnlyOne
<1>6. CASE GiveUp(c)
  <2>1. /\ call[c].pc = "giveUp" /\ call'[c] = Idle
        /\ \/ /\ Status(s) = "TRANSFER_PENDING"
              /\ MovesTo(s, "TRANSFER_FAILED", settlement[s].method)
           \/ UNCHANGED settlement
    BY <1>1, <1>2, <1>6, GiveUpTyped
  <2>2. Books'
    BY <1>1, <1>3, <2>1, MovesBooks, QuietBooks DEF Paid
  <2>3. QED BY <2>1, <2>2, IdleIsFree, FreeShape, OnlyOne
<1>7. CASE PayoutMove(c)
  <2>1. /\ call'[c].pc = "payout"
        /\ \/ /\ Status(s) = "TRANSFERRED"
              /\ MovesTo(s, "PAID_OUT", settlement[s].method)
           \/ UNCHANGED settlement
    BY <1>1, <1>2, <1>7, PayoutMoveTyped
  <2>2. Books'
    BY <1>1, <1>3, <2>1, MovesBooks, QuietBooks DEF Paid
  <2>3. call'[c].pc \notin Busy
    BY <2>1 DEF Busy, Transferring
  <2>4. QED BY <2>2, <2>3, FreeShape, OnlyOne
<1>8. QED BY <1>5, <1>6, <1>7

LEMMA ManualPays ==
  ASSUME OneAtATime, MInv, MInv', OneShapes, Books, NEW c \in Callers, Manual(c)
  PROVE  OneShapes' /\ Books'
<1>1. /\ Typed /\ Typed' /\ OneShape(c) /\ call[c].pc = "manual" /\ call'[c] = Idle
      /\ UNCHANGED <<recoveries, recoverable, stripe>>
  BY ManualTyped DEF MInv, OneShapes, World
<1>2. PICK s \in Settlements : s = call[c].s
  BY <1>1 DEF Typed, CallsOK
<1>3. OneShapes'
  BY <1>1, IdleIsFree, FreeShape, OnlyOne
<1>4. CASE UNCHANGED <<settlement, payable>>
  BY <1>1, <1>3, <1>4, QuietBooks
<1>5. CASE /\ Status(s) \in {"ELIGIBLE", "TRANSFER_FAILED"}
           /\ MovesTo(s, "PAID_OUT", "MANUAL")
           /\ payable'[s] = payable[s] - call[c].net
           /\ \A t \in Settlements \ {s} : payable'[t] = payable[t]
  <2>1. call[c].net = settlement[s].net /\ settlement[s].net \in Int
    BY <1>1, <1>2 DEF OneShape, Busy, Typed, RowsOK, SettlementRows
  <2>2. payable[s] = settlement[s].net
    BY <1>5, BooksAre DEF PaysNet, Paid
  <2>3. payable'[s] = 0
    BY <1>5, <2>1, <2>2
  <2>4. Status(s)' = "PAID_OUT" /\ settlement'[s].method = "MANUAL"
    BY <1>5 DEF MovesTo, Status
  <2>5. PaysNet(s)'
    BY <2>3, <2>4 DEF PaysNet, Paid
  <2>6. ~ InThrough(s) /\ ~ InThrough(s)'
    BY <1>5, <2>4 DEF InThrough, Paid
  <2>7. \A t \in Settlements \ {s} : settlement'[t] = settlement[t] /\ payable'[t] = payable[t]
    BY <1>5 DEF MovesTo
  <2>8. Books'
    BY <1>1, <2>5, <2>6, <2>7, OneChanges
  <2>9. QED BY <1>3, <2>8
<1>6. QED BY <1>1, <1>2, <1>4, <1>5, ManualTyped
\* A settlement that is sold, released or cancelled is one no call holds the
\* net of.
LEMMA SalesBooks ==
  ASSUME Typed, Typed', Books, NEW s \in Settlements,
         UNCHANGED <<recoveries, recoverable, stripe>>,
         \A t \in Settlements \ {s} : settlement'[t] = settlement[t] /\ payable'[t] = payable[t],
         Booked(s) \/ Advanced(s) \/ Cancelled(s)
  PROVE  Books'
<1>1. PaysNet(s)
  BY BooksAre
<1>2. PaysNet(s)' /\ ~ InThrough(s) /\ ~ InThrough(s)'
  <2>1. CASE Booked(s)
    <3>1. Status(s) = "none" /\ payable[s] = 0
      BY <1>1, <2>1 DEF PaysNet, Booked
    <3>2. \/ /\ Status(s)' = "PENDING" /\ payable'[s] = settlement'[s].net
          \/ /\ Status(s)' = "PAID_OUT" /\ payable'[s] = payable[s]
             /\ settlement'[s].method = "TRADEAUCT_OWNED"
      BY <2>1 DEF Booked, Status
    <3>3. QED BY <3>1, <3>2 DEF PaysNet, InThrough, Paid
  <2>2. CASE Advanced(s)
    <3>1. /\ Status(s) \in {"PENDING", "ON_HOLD"} /\ Status(s)' \in {"ON_HOLD", "ELIGIBLE"}
          /\ settlement'[s].net = settlement[s].net /\ payable'[s] = payable[s]
      BY <2>2 DEF Advanced, MovesTo, Status
    <3>2. QED BY <1>1, <3>1 DEF PaysNet, InThrough, Paid
  <2>3. CASE Cancelled(s)
    BY <2>3 DEF Cancelled, PaysNet, InThrough, Paid, Status
  <2>4. QED BY <2>1, <2>2, <2>3
<1>3. QED BY <1>2, OneChanges

LEMMA SalesShape ==
  ASSUME MInv, NEW s \in Settlements, NEW c \in Callers, OneShape(c),
         UNCHANGED <<recoveries, call>>,
         \A t \in Settlements \ {s} : settlement'[t] = settlement[t],
         Booked(s) \/ Advanced(s) \/ Cancelled(s)
  PROVE  OneShape(c)'
<1>1. SUFFICES ASSUME call[c].pc \in Busy PROVE OneShape(c)'
  BY FreeShape
<1>2. PICK t \in Settlements : t = call[c].s
  BY <1>1 DEF MInv, Typed, CallsOK, Busy, Transferring
<1>3. Status(t) # "none"
  BY <1>1, <1>2 DEF MInv, KnownInv, Busy, Transferring, Attributing
<1>4. Debt' = Debt
  BY DEF Debt
<1>5. CASE t # s
  BY <1>2, <1>4, <1>5 DEF OneShape, Status
<1>6. CASE t = s
  <2>1. Status(s) \in {"PENDING", "ON_HOLD"}
    BY <1>3, <1>6 DEF Booked, Advanced, Cancelled
  <2>2. call[c].pc \notin Transferring
    BY <1>2, <1>6, <2>1 DEF MInv, PayInv, PayShape
  <2>3. call[c].pc \in {"writeOff", "lose"}
    BY <1>1, <1>2, <1>6, <2>1, <2>2 DEF OneShape, Busy
  <2>4. \/ Status(s)' = "CANCELLED"
        \/ settlement'[s].net = settlement[s].net
    BY <1>3, <1>6 DEF Booked, Advanced, Cancelled, MovesTo, Status
  <2>5. Status(s) # "CANCELLED"
    BY <2>1
  <2>6. QED BY <1>2, <1>6, <2>3, <2>4, <2>5 DEF OneShape, Transferring, Busy
<1>7. QED BY <1>5, <1>6

LEMMA SalesAreBooked ==
  ASSUME MInv, OneShapes, Books, Sales
  PROVE  OneShapes' /\ Books'
<1>1. /\ Typed /\ Typed' /\ UNCHANGED <<recoveries, recoverable, stripe, call>>
  BY SalesMove DEF MInv, World
<1>2. PICK s \in Settlements :
        /\ Booked(s) \/ Advanced(s) \/ Cancelled(s)
        /\ \A t \in Settlements \ {s} :
             settlement'[t] = settlement[t] /\ payable'[t] = payable[t]
  BY SalesMove DEF MInv
<1>3. Books'
  BY <1>1, <1>2, SalesBooks
<1>4. ASSUME NEW c \in Callers PROVE OneShape(c)'
  BY <1>1, <1>2, SalesShape DEF OneShapes
<1>5. QED BY <1>3, <1>4 DEF OneShapes
-------------------------------------------------------------------------------
\* The net of s is paid: n of it pays the seller's debt, the rest was sent.
LEMMA PaidBooks ==
  ASSUME Typed, Typed', RecoveryInv, Books, NEW s \in Settlements,
         Status(s) \in {"ELIGIBLE", "TRANSFER_PENDING"}, UNCHANGED stripe,
         NEW st \in Paid, NEW m \in {"STRIPE_CONNECT", "RECOVERY_OFFSET"}, MovesTo(s, st, m),
         NEW n \in Int, 0 <= n, n <= Debt, settlement[s].net = n + stripe.sent[s],
         payable'[s] = payable[s] - settlement[s].net,
         \A t \in Settlements \ {s} : payable'[t] = payable[t],
         recoveries' = Credited(n), recoverable' = recoverable - n
  PROVE  Books'
<1>1. /\ Status(s)' = st /\ settlement'[s].method = m
      /\ settlement'[s].net = settlement[s].net
      /\ \A t \in Settlements \ {s} : settlement'[t] = settlement[t]
  BY DEF MovesTo, Status
<1>2. PICK a, x \in Int : a = settlement[s].net /\ x = stripe.sent[s]
  BY DEF Typed, RowsOK, SettlementRows, StripeOK, StripeStates
<1>3. payable[s] = a /\ payable'[s] = 0
  BY <1>2, BooksAre DEF PaysNet, Paid
<1>4. \A t \in Settlements : PaysNet(t)'
  <2>1. ASSUME NEW t \in Settlements \ {s} PROVE PaysNet(t)'
    BY <1>1, <2>1, BooksAre DEF PaysNet, Status
  <2>2. PaysNet(s)'
    BY <1>1, <1>3 DEF PaysNet
  <2>3. QED BY <2>1, <2>2
<1>5. ~ InThrough(s) /\ InThrough(s)'
  BY <1>1 DEF InThrough, Paid
<1>6. \A t \in Settlements \ {s} : InThrough(t)' <=> InThrough(t)
  BY <1>1 DEF InThrough, Status
<1>7. SentThrough' = SentThrough + x /\ NetThrough' = NetThrough + a
  BY <1>1, <1>2, <1>5, <1>6, ThroughGrows
<1>8. PICK q : q = recoveries'
  OBVIOUS
<1>9. StillOwed(q) = Debt - n /\ Recovered(q) = Recovered(recoveries) + n
  BY <1>8, CreditedMoney DEF Typed
<1>10. recoverable = Debt /\ SentThrough = NetThrough - Recovered(recoveries)
  BY BooksAre DEF Books, RecoverableIsDebt
<1>11. SentThrough \in Int /\ NetThrough \in Int /\ Recovered(recoveries) \in Int
  BY SumsThrough
<1>12. recoverable' = StillOwed(recoveries')
  BY <1>8, <1>9, <1>10
<1>13. SentThrough' = NetThrough' - Recovered(recoveries')
  <2>1. PICK sent, net, done \in Int :
          sent = SentThrough /\ net = NetThrough /\ done = Recovered(recoveries)
    BY <1>11
  <2>2. SentThrough' = sent + x /\ NetThrough' = net + a /\ Recovered(recoveries') = done + n
    BY <1>7, <1>8, <1>9, <2>1
  <2>3. sent = net - done /\ a = n + x
    BY <1>2, <1>10, <2>1
  <2>4. sent + x = (net + a) - (done + n)
    BY <1>2, <2>1, <2>3
  <2>5. QED BY <2>2, <2>4
<1>14. QED BY <1>4, <1>12, <1>13, BooksAreLater

LEMMA WithholdPays ==
  ASSUME OneAtATime, MInv, MInv', OneShapes, Books, NEW c \in Callers, Withhold(c)
  PROVE  OneShapes' /\ Books'
<1>1. /\ Typed /\ Typed' /\ RecoveryInv /\ OneShape(c) /\ call[c].pc = "withhold"
      /\ call'[c] = Idle /\ UNCHANGED stripe /\ recoveries' = Credited(call[c].net)
  BY WithholdTyped DEF MInv, OneShapes, World
<1>2. PICK s \in Settlements : s = call[c].s
  BY <1>1 DEF Typed, CallsOK
<1>3. PICK n \in Int : n = settlement[s].net
  BY <1>1 DEF Typed, RowsOK, SettlementRows
<1>4. Status(s) = "ELIGIBLE" /\ call[c].net = n /\ n <= Debt
  BY <1>1, <1>2, <1>3 DEF OneShape, Busy
<1>5. 0 <= n
  BY <1>3 DEF MInv, NetInv
<1>6. stripe.sent[s] = 0
  <2>1. stripe.sent[s] \in Int /\ 0 <= stripe.sent[s] /\ ~ (stripe.sent[s] > 0)
    BY <1>1, <1>4 DEF MInv, PayInv, PayoutShape, Paid, Typed, StripeOK, StripeStates
  <2>2. QED BY <2>1
<1>7. /\ MovesTo(s, "PAID_OUT", "RECOVERY_OFFSET")
      /\ payable'[s] = payable[s] - settlement[s].net
      /\ \A t \in Settlements \ {s} : payable'[t] = payable[t]
      /\ recoverable' = recoverable - n /\ recoveries' = Credited(n)
  BY <1>1, <1>2, <1>3, <1>4, WithholdTyped
<1>8. settlement[s].net = n + stripe.sent[s]
  BY <1>3, <1>6
<1>9. "PAID_OUT" \in Paid
  BY DEF Paid
<1>10. Books'
  BY <1>1, <1>4, <1>5, <1>7, <1>8, <1>9, PaidBooks
<1>11. QED BY <1>1, <1>10, IdleIsFree, FreeShape, OnlyOne

LEMMA SentPays ==
  ASSUME OneAtATime, MInv, MInv', OneShapes, Books, NEW c \in Callers, Sent(c)
  PROVE  OneShapes' /\ Books'
<1>1. /\ Typed /\ Typed' /\ RecoveryInv /\ OneShape(c) /\ PayShape(c) /\ call[c].pc = "sent"
      /\ call'[c] = Idle /\ UNCHANGED stripe
  BY SentTyped DEF MInv, PayInv, OneShapes, World
<1>2. PICK s \in Settlements : s = call[c].s
  BY <1>1 DEF Typed, CallsOK
<1>3. PICK n, x \in Int : n = call[c].offset /\ x = call[c].amount
  BY <1>1 DEF Typed, CallsOK, Calls
<1>4. /\ Status(s) = "TRANSFER_PENDING" /\ stripe.sent[s] = x
      /\ settlement[s].method = "STRIPE_CONNECT"
      /\ settlement[s].net = n + x /\ 0 <= n /\ n <= Debt
  BY <1>1, <1>2, <1>3 DEF OneShape, PayShape, Busy, Transferring
<1>5. /\ MovesTo(s, "TRANSFERRED", "STRIPE_CONNECT")
      /\ payable'[s] = payable[s] - settlement[s].net
      /\ \A t \in Settlements \ {s} : payable'[t] = payable[t]
      /\ recoverable' = recoverable - n /\ recoveries' = Credited(n)
  <2>1. /\ recoveries' = Credited(n) /\ recoverable' = recoverable - n
        /\ \A t \in Settlements \ {s} : payable'[t] = payable[t]
        /\ \/ /\ MovesTo(s, "TRANSFERRED", settlement[s].method)
              /\ payable'[s] = payable[s] - (n + x)
           \/ Status(s) # "TRANSFER_PENDING"
    BY <1>1, <1>2, <1>3, SentTyped
  <2>2. /\ MovesTo(s, "TRANSFERRED", "STRIPE_CONNECT")
        /\ payable'[s] = payable[s] - settlement[s].net
    BY <1>4, <2>1
  <2>3. QED BY <2>1, <2>2
<1>6. settlement[s].net = n + stripe.sent[s]
  BY <1>4
<1>7. "TRANSFERRED" \in Paid
  BY DEF Paid
<1>8. Books'
  BY <1>1, <1>4, <1>5, <1>6, <1>7, PaidBooks
<1>9. QED BY <1>1, <1>8, IdleIsFree, FreeShape, OnlyOne

LEMMA OpenedBooks ==
  ASSUME OneAtATime, MInv, MInv', OneShapes, Books, NEW c \in Callers, OpenRecovery(c)
  PROVE  OneShapes' /\ Books'
<1>1. /\ Typed /\ Typed' /\ RecoveryInv /\ ToldOf(c)
      /\ UNCHANGED <<settlement, payable, stripe>>
  BY OpenRecoveryTyped DEF MInv, World
<1>2. PICK r \in RecoveryRows : /\ recoveries' = Append(recoveries, r)
                                /\ r.amount = call[c].amount /\ r.recovered = 0
  BY <1>1, OpenRecoveryTyped
<1>3. recoverable' = recoverable + r.amount
  BY <1>1, <1>2, OpenRecoveryTyped
<1>4. PICK q : q = recoveries'
  OBVIOUS
<1>5. StillOwed(q) = Debt + r.amount /\ Recovered(q) = Recovered(recoveries)
  BY <1>1, <1>2, <1>4, OpenedMoney DEF Typed
<1>6. SentThrough' = SentThrough /\ NetThrough' = NetThrough
  <2>1. \A s \in Settlements : InThrough(s)' <=> InThrough(s)
    BY <1>1 DEF InThrough, Status
  <2>2. QED BY <1>1, <2>1, ThroughStays
<1>7. recoverable = Debt /\ SentThrough = NetThrough - Recovered(recoveries)
  BY BooksAre DEF Books, RecoverableIsDebt
<1>8. \A s \in Settlements : PaysNet(s)'
  BY <1>1, BooksAre DEF PaysNet, Status
<1>9. recoverable' = StillOwed(recoveries')
  BY <1>3, <1>4, <1>5, <1>7
<1>10. SentThrough' = NetThrough' - Recovered(recoveries')
  BY <1>4, <1>5, <1>6, <1>7
<1>11. Books'
  BY <1>8, <1>9, <1>10, BooksAreLater
<1>12. QED BY <1>1, <1>11, ToldIsFree, OnlyOne
-------------------------------------------------------------------------------
LEMMA InitBooks ==
  ASSUME Init
  PROVE  OneShapes /\ Books
<1>1. MInv
  BY InitMoney
<1>2. OneShapes
  BY IdleTyped DEF Init, OneShapes, OneShape, Busy, Transferring
<1>3. \A s \in Settlements : PaysNet(s)
  BY DEF Init, PaysNet, Status
<1>4. Through = {}
  BY DEF Init, Through, InThrough, Status, Paid
<1>5. SentThrough = 0
  BY <1>4, SumOfNothing DEF SentThrough
<1>6. NetThrough = 0
  <2>1. PICK f : f = [s \in Through |-> settlement[s].net]
    OBVIOUS
  <2>2. DOMAIN f = {}
    BY <1>4, <2>1
  <2>3. QED BY <2>1, <2>2, SumOfAll, SumOfNothing DEF NetThrough
<1>7. DOMAIN recoveries = {}
  BY DEF Init
<1>8. Recovered(recoveries) = 0
  <2>1. PICK f : f = [k \in DOMAIN recoveries |-> recoveries[k].recovered]
    OBVIOUS
  <2>2. DOMAIN f = {}
    BY <1>7, <2>1
  <2>3. QED BY <2>1, <2>2, SumOfAll, SumOfNothing DEF Recovered
<1>9. StillOwed(recoveries) = 0
  <2>1. PICK f : f = [k \in DOMAIN recoveries |-> Owed(recoveries[k])]
    OBVIOUS
  <2>2. DOMAIN f = {}
    BY <1>7, <2>1
  <2>3. QED BY <2>1, <2>2, SumOfAll, SumOfNothing DEF StillOwed
<1>10. recoverable = 0
  BY DEF Init
<1>11. QED BY <1>2, <1>3, <1>5, <1>6, <1>8, <1>9, <1>10, BooksAre

LEMMA RefundingBooks ==
  ASSUME OneAtATime, MInv, MInv', OneShapes, Books, NEW c \in Callers, Refunding(c)
  PROVE  OneShapes' /\ Books'
<1>1. Typed /\ Typed' /\ AskInv /\ TakeInv
  BY DEF MInv
<1>2. CASE \/ \E s \in Settlements : \E n \in Parts \cup {Total - AlreadyRefunded(s)} :
                RefundRead(c, s, n)
           \/ RefundInsert(c) \/ RefundAsk(c) \/ RefundLink(c)
           \/ \E e \in events : RefundEvent(c, e)
           \/ \E i \in Refunds : RefundPost(c, i)
           \/ RefundEventDone(c)
  <2>1. Quiet(c)
    BY <1>1, <1>2, RefundsAreQuiet
  <2>2. QED BY <1>1, <2>1, QuietKeeps
<1>3. CASE ApplyRead(c) \/ \E s \in Settlements : DisputeLost(c, s)
  BY <1>3, ReadsKeep
<1>4. CASE WriteOff(c) \/ Reduce(c) \/ Lose(c)
  BY <1>4, RefundedKeep
<1>5. CASE \E s \in Settlements : \E n \in Changes : Adjust(c, s, n)
  BY <1>5, AdjustedKeeps
<1>6. CASE Recover(c) \/ Reverse(c) \/ Reversed(c)
  BY <1>1, <1>6, OthersAreQuiet, QuietKeeps
<1>7. CASE OpenRecovery(c)
  BY <1>7, OpenedBooks
<1>8. QED BY <1>2, <1>3, <1>4, <1>5, <1>6, <1>7 DEF Refunding

LEMMA PayingBooks ==
  ASSUME OneAtATime, MInv, MInv', OneShapes, Books, NEW c \in Callers, Paying(c) \/ Die(c)
  PROVE  OneShapes' /\ Books'
<1>1. Typed /\ Typed' /\ TakeInv
  BY DEF MInv
<1>2. CASE \E s \in Settlements : TransferRead(c, s) \/ ManualRead(c, s)
  BY <1>2, ReadsKeep
<1>3. CASE \/ \E s \in Settlements : PayoutRow(c, s)
           \/ \E e \in events : PayoutPaid(c, e)
           \/ PayoutDone(c) \/ Die(c)
  <2>1. Quiet(c)
    BY <1>1, <1>3, OthersAreQuiet
  <2>2. QED BY <1>1, <2>1, QuietKeeps
<1>4. CASE TransferRow(c) \/ Failed(c) \/ ManualRow(c) \/ Send(c)
  BY <1>4, TransferStepsKeep
<1>5. CASE Claim(c) \/ GiveUp(c) \/ PayoutMove(c)
  BY <1>5, MovingKeeps
<1>6. CASE Withhold(c)
  BY <1>6, WithholdPays
<1>7. CASE Sent(c)
  BY <1>7, SentPays
<1>8. CASE Manual(c)
  BY <1>8, ManualPays
<1>9. QED BY <1>2, <1>3, <1>4, <1>5, <1>6, <1>7, <1>8 DEF Paying

LEMMA NextBooks ==
  ASSUME OneAtATime, MInv, MInv', OneShapes, Books, [Next]_vars
  PROVE  OneShapes' /\ Books'
<1>1. CASE Sales
  BY <1>1, SalesAreBooked
<1>2. CASE Stripe
  BY <1>2, StripeIsQuiet
<1>3. ASSUME NEW c \in Callers, Refunding(c) \/ Paying(c) \/ Die(c)
      PROVE  OneShapes' /\ Books'
  BY <1>3, RefundingBooks, PayingBooks
<1>4. CASE UNCHANGED vars
  <2>1. /\ UNCHANGED <<settlement, recoveries, payable, recoverable, call, stripe>>
        /\ Debt' = Debt
    BY <1>4 DEF vars, Debt
  <2>2. OneShapes'
    BY <2>1 DEF OneShapes, OneShape, Status
  <2>3. Books'
    BY <2>1, QuietBooks DEF MInv
  <2>4. QED BY <2>2, <2>3
<1>5. QED BY <1>1, <1>2, <1>3, <1>4 DEF Next

\* While one execution follows another, what a call read is still so when it
\* uses it, and ledger, rows, recoveries and Stripe agree.
THEOREM BooksAgree == OneAtATime => (Spec => [](OneShapes /\ Books))
<1> SUFFICES ASSUME OneAtATime PROVE Spec => [](OneShapes /\ Books)
  OBVIOUS
<1>1. Init => OneShapes /\ Books
  BY InitBooks
<1>2. MInv /\ MInv' /\ OneShapes /\ Books /\ [Next]_vars => OneShapes' /\ Books'
  BY NextBooks
<1>3. QED BY <1>1, <1>2, Invariance, PTL DEF Spec

\* What SELLER_PAYABLE says of a settlement is its net while it is owed and
\* nothing once it is paid: what the sale's posting, every refund, write-off,
\* adjustment, transfer and manual payout leave behind.
THEOREM PayableInBooks == OneAtATime => (Spec => []PayableIsNet)
<1> SUFFICES ASSUME OneAtATime PROVE Spec => []PayableIsNet
  OBVIOUS
<1>1. OneShapes /\ Books => PayableIsNet
  BY DEF Books
<1>2. QED BY <1>1, BooksAgree, PTL

\* SELLER_RECOVERABLE is what the open recoveries still ask for, whatever was
\* opened and credited, oldest first.
THEOREM RecoverableInBooks == OneAtATime => (Spec => []RecoverableIsDebt)
<1> SUFFICES ASSUME OneAtATime PROVE Spec => []RecoverableIsDebt
  OBVIOUS
<1>1. OneShapes /\ Books => RecoverableIsDebt
  BY DEF Books
<1>2. QED BY <1>1, BooksAgree, PTL

\* Stripe sent the seller the nets of the settlements it paid, less what was
\* held back for the recoveries.
THEOREM SellerIsPaid == OneAtATime => (Spec => []SellerPaidNetLessDebt)
<1> SUFFICES ASSUME OneAtATime PROVE Spec => []SellerPaidNetLessDebt
  OBVIOUS
<1>1. OneShapes /\ Books => SellerPaidNetLessDebt
  BY DEF Books
<1>2. QED BY <1>1, BooksAgree, PTL
===============================================================================
