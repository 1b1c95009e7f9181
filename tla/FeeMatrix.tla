------------------------------- MODULE FeeMatrix -------------------------------
(***************************************************************************)
(* The fee engine: the matrix of percentages that administrators keep, the *)
(* rule a listing falls under, and the snapshot of it a listing carries.   *)
(*                                                                         *)
(* An administrator's change is a read of the row, a merge and a write,    *)
(* with nothing that notices another change in between; a read that fails  *)
(* answers the built-in matrix.  Amounts are in fils, rates in percent.    *)
(***************************************************************************)
EXTENDS Integers, FiniteSets

CONSTANTS
  Admins,      \* administrators at the settings page
  Updates,     \* changes they make: one cell of the matrix, or the least bid
  MaxUpdates   \* bound: changes in all

Rules == {"BUY_NOW", "RESERVE_AUCTION", "MINIMUM_START_NO_RESERVE", "CUSTOM_START_NO_RESERVE"}
Unset == -1    \* null in the code
Rates == 0..100

\* configBody: no rate is below 0 or above 100.
ASSUME UpdatesAssumption == \A u \in Updates :
  \/ u.part = "minimumBid" /\ u.to \in Nat
  \/ u.part \in {"seller", "buyer"} /\ u.rule \in Rules /\ u.to \in Rates
ASSUME MaxUpdatesAssumption == MaxUpdates \in Nat

VARIABLES
  feeRow,      \* PLATFORM_FEE_ENGINE_CONFIG and its mirror, written together
  admin,       \* the change each administrator is making
  updates,     \* changes so far
  calm         \* in this behaviour one change is made at a time and no read fails

feeVars == <<feeRow, admin, updates, calm>>

\* DEFAULT_FEE_ENGINE_CONFIG; 0 stands for version 1.0.0.
Matrix(buyNow, reserve, minimum, custom) ==
  [r \in Rules |-> CASE r = "BUY_NOW" -> buyNow [] r = "RESERVE_AUCTION" -> reserve
                     [] r = "MINIMUM_START_NO_RESERVE" -> minimum [] OTHER -> custom]
DefaultConfig ==
  [version |-> 0, seller |-> Matrix(6, 3, 0, 2), buyer |-> Matrix(0, 3, 6, 4), minimumBid |-> 1]

FeeInit ==
  /\ feeRow = DefaultConfig
  /\ admin = [a \in Admins |-> {}]
  /\ updates = 0
  /\ calm \in BOOLEAN
-------------------------------------------------------------------------------
(***************************************************************************)
(* The rule of a listing.                                                  *)
(***************************************************************************)
\* percentOf: to the fils, halves up.
PercentOf(amount, rate) == IF amount <= 0 \/ rate <= 0 THEN 0 ELSE (amount * rate + 50) \div 100

FirstSet(x, y) == IF x # Unset THEN x ELSE y

\* The order of the branches is the business rule.
FeeRule(x, c) ==
  LET least == IF c.minimumBid = 0 THEN 1 ELSE c.minimumBid
  IN CASE x.sale = "BUY_NOW" -> "BUY_NOW"
       [] x.sale # "BUY_NOW" /\ x.reserve > 0 -> "RESERVE_AUCTION"
       [] x.sale # "BUY_NOW" /\ x.reserve <= 0 /\ x.startingBid <= least -> "MINIMUM_START_NO_RESERVE"
       [] OTHER -> "CUSTOM_START_NO_RESERVE"

\* calculateListingFees and createListingFeeSnapshot: TradeAuct's own stock pays
\* no commission, an override wins over a seller's custom rate.
ListingFees(x, c) ==
  LET rule == FeeRule(x, c)
  IN [rule |-> rule,
      version |-> c.version,
      seller |-> FirstSet(x.sellerOverride,
                          IF x.owned THEN 0 ELSE FirstSet(x.sellerCustom, c.seller[rule])),
      buyer |-> FirstSet(x.premiumOverride, FirstSet(x.premiumCustom, c.buyer[rule]))]

NoSnapshot == [rule |-> "none", version |-> Unset, seller |-> Unset, buyer |-> Unset]

\* What a listing says of itself: of the special rates only its own premium.
OwnShape(x) ==
  [x EXCEPT !.sellerOverride = Unset, !.sellerCustom = Unset, !.premiumCustom = Unset]

\* *Mutant*: the rule is worked out again when it is asked for.
ResolvedLive(x, c) == ListingFees(x, c)

\* resolveListingFeeSnapshot: the auction's snapshot, or the listing's, or for a
\* listing older than the engine its own shape under the configuration of now.
Resolved(x, c) ==
  IF x.onAuction # NoSnapshot THEN x.onAuction
  ELSE IF x.onListing # NoSnapshot THEN x.onListing
  ELSE ListingFees(OwnShape(x), c)
-------------------------------------------------------------------------------
(***************************************************************************)
(* The configuration.                                                      *)
(***************************************************************************)
\* getAuthoritativeFeeConfig: what a read may answer.
ConfigReads == {feeRow} \cup IF calm THEN {} ELSE {DefaultConfig}

Merged(c, u) ==
  IF u.part = "minimumBid" THEN [c EXCEPT !.minimumBid = u.to]
  ELSE IF u.part = "seller" THEN [c EXCEPT !.seller[u.rule] = u.to]
  ELSE [c EXCEPT !.buyer[u.rule] = u.to]

\* *Mutant*: the version is not counted up.
NextConfigSameVersion(c, u) == Merged(c, u)

NextConfig(c, u) == [Merged(c, u) EXCEPT !.version = c.version + 1]

\* updateAuthoritativeFeeConfig: the read ...
UpdateRead(a) ==
  /\ admin[a] = {}
  /\ calm => \A b \in Admins : admin[b] = {}
  /\ updates < MaxUpdates
  /\ updates' = updates + 1
  /\ \E c \in ConfigReads, u \in Updates : admin' = [admin EXCEPT ![a] = {NextConfig(c, u)}]
  /\ UNCHANGED <<feeRow, calm>>

\* ... and the transaction that writes the row, its mirror and the audit.
UpdateWrite(a) ==
  /\ admin[a] # {}
  /\ feeRow' \in admin[a]
  /\ admin' = [admin EXCEPT ![a] = {}]
  /\ UNCHANGED <<updates, calm>>

\* The request dies, or the transaction fails.
UpdateLost(a) ==
  /\ admin[a] # {}
  /\ admin' = [admin EXCEPT ![a] = {}]
  /\ UNCHANGED <<feeRow, updates, calm>>
===============================================================================
