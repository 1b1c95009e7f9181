----------------------------- MODULE OrderPricing -----------------------------
(***************************************************************************)
(* The price of an order, from the listing's snapshot to the settlement:   *)
(* FeeMatrix and ShippingRates put together by the quote a buyer is        *)
(* charged, and later by the settlement the seller is paid.                *)
(*                                                                         *)
(* The two read the listing and the configuration apart, and administrators*)
(* may change the matrix or the rates, the main server the price or who    *)
(* pays for the shipping, between any two reads.  There is one listing;    *)
(* the kinds of listing are the initial states.                            *)
(***************************************************************************)
EXTENDS FeeMatrix, ShippingRates

CONSTANTS
  Shapes,      \* what a listing may be like
  Prices,      \* prices in fils, 0 for a listing without one
  VatRate,     \* the VAT setting, 0 for off
  Environments \* sets of what may change in a behaviour

MaybeRates == Rates \cup {Unset}

\* snapshotBody: rates again, amounts that are not negative; a listing starts
\* without snapshots.
ASSUME ShapesAssumption == Shapes \subseteq
  [sale : {"AUCTION", "BUY_NOW"}, reserve : Nat, startingBid : Nat, owned : BOOLEAN,
   sellerOverride : MaybeRates, sellerCustom : MaybeRates,
   premiumOverride : MaybeRates, premiumCustom : MaybeRates,
   payer : {"BUYER", "SELLER"}, coverage : {"UAE_ONLY", "GCC", "WORLDWIDE"},
   price : Nat, onListing : {NoSnapshot}, onAuction : {NoSnapshot}]
ASSUME PricesAssumption == Prices \subseteq Nat /\ VatRate \in Nat

VARIABLES
  about,       \* what may change in this behaviour: fees, rates, snapshots, price, payer
  listing,     \* the listing and its auction, with their snapshots
  order,       \* the order of each caller
  takenBy      \* the caller whose payment was booked, one for a listing

pricingVars == <<about, listing, order, takenBy>>
vars == <<feeVars, rateVars, pricingVars>>

\* payer and borneBy: who pays for the shipping, as the quote and as the
\* settlement read it.
Blank == [pc |-> "none", price |-> 0, to |-> "AE", shipping |-> 0,
          payer |-> "BUYER", borneBy |-> "BUYER",
          charged |-> NoSnapshot, settled |-> NoSnapshot]

Init ==
  /\ FeeInit
  /\ about \in Environments
  /\ RatesInit
  /\ rates = IF "rates" \in about THEN NoRates ELSE SeededRates
  /\ \E x \in Shapes, p \in Prices : listing = [x EXCEPT !.price = p]
  /\ order = [x \in Callers |-> Blank]
  /\ takenBy = {}
-------------------------------------------------------------------------------
(***************************************************************************)
(* The main server.                                                        *)
(***************************************************************************)
Unquoted == \A x \in Callers : order[x].pc = "none"

\* POST /fees/listing-snapshot, and what is answered is kept with the listing or
\* with its auction before anyone can buy it.
TakeSnapshot ==
  /\ "snapshots" \in about
  /\ Unquoted
  /\ listing.onListing = NoSnapshot
  /\ \E c \in ConfigReads : listing' = [listing EXCEPT !.onListing = ListingFees(listing, c)]
  /\ UNCHANGED <<feeVars, rateVars, about, order, takenBy>>

TakeAuctionSnapshot ==
  /\ "snapshots" \in about
  /\ Unquoted
  /\ listing.sale = "AUCTION"
  /\ listing.onAuction = NoSnapshot
  /\ \E c \in ConfigReads : listing' = [listing EXCEPT !.onAuction = ListingFees(listing, c)]
  /\ UNCHANGED <<feeVars, rateVars, about, order, takenBy>>

EditPrice ==
  /\ "price" \in about
  /\ listing.sale = "BUY_NOW"
  /\ \E p \in Prices \ {listing.price} : listing' = [listing EXCEPT !.price = p]
  /\ UNCHANGED <<feeVars, rateVars, about, order, takenBy>>

EditPayer ==
  /\ "payer" \in about
  /\ \E p \in {"BUYER", "SELLER"} \ {listing.payer} : listing' = [listing EXCEPT !.payer = p]
  /\ UNCHANGED <<feeVars, rateVars, about, order, takenBy>>
-------------------------------------------------------------------------------
(***************************************************************************)
(* buildOrderQuote.                                                        *)
(***************************************************************************)
\* The listing is read: a price, a destination it covers.  That it was paid
\* shows only when the main server has marked it sold.
QuoteRead(x) ==
  /\ order[x].pc = "none"
  /\ listing.price > 0
  /\ \E c \in {c \in Countries : Covered(listing.coverage, c)} :
       CountRates(x, order' = [order EXCEPT ![x] =
                       [Blank EXCEPT !.pc = "rate", !.price = listing.price, !.to = c,
                                     !.payer = listing.payer]])
  /\ UNCHANGED <<feeVars, listing, about, takenBy>>

Seed(x) == SeedOne(x) /\ UNCHANGED <<feeVars, pricingVars>>

QuoteDies(x) ==
  /\ ~ calm
  /\ SeederDies(x, order' = [order EXCEPT ![x].pc = "dead"])
  /\ UNCHANGED <<feeVars, listing, about, takenBy>>

\* *Mutant*: the seeding is not awaited.
SeededOrNot(x) == TRUE

Seeded(x) == seeding[x] = 0

\* Without a rate the buyer is refused.
QuoteRate(x) ==
  LET costs == CostsTo(order[x].to, order[x].payer)
  IN /\ order[x].pc = "rate" /\ Seeded(x)
     /\ IF costs = {} THEN order' = [order EXCEPT ![x] = [Blank EXCEPT !.pc = "refused"]]
        ELSE \E r \in costs : order' = [order EXCEPT ![x].pc = "fees", ![x].shipping = r]
     /\ UNCHANGED <<feeVars, rateVars, listing, about, takenBy>>

QuoteFees(x) ==
  /\ order[x].pc = "fees"
  /\ \E c \in ConfigReads :
       order' = [order EXCEPT ![x].pc = "quoted", ![x].charged = Resolved(listing, c)]
  /\ UNCHANGED <<feeVars, rateVars, listing, about, takenBy>>

\* chargeAuctionWinner prices in one go, with the rates of the auction settings,
\* to the Emirates.
PriceWinner(x) ==
  /\ order[x].pc = "none"
  /\ takenBy = {}
  /\ listing.sale = "AUCTION" /\ listing.price > 0
  /\ \E c \in ConfigReads :
       order' = [order EXCEPT ![x] =
                   [Blank EXCEPT !.pc = "quoted", !.price = listing.price,
                                 !.payer = listing.payer,
                                 !.shipping = IF listing.payer = "SELLER" THEN 0 ELSE 25,
                                 !.charged = Resolved(listing, c)]]
  /\ UNCHANGED <<feeVars, rateVars, listing, about, takenBy>>
-------------------------------------------------------------------------------
(***************************************************************************)
(* What was quoted, and what is settled.                                   *)
(***************************************************************************)
BuyerFee(o) == PercentOf(o.price, o.charged.buyer)
Vat(o) == PercentOf(o.price + BuyerFee(o), VatRate)
Total(o) == o.price + BuyerFee(o) + o.shipping + Vat(o)

SellerFee(o) == IF listing.owned THEN o.price ELSE PercentOf(o.price, o.settled.seller)

\* *Mutant*: the commission is a share of what the customer paid.
NetOfTotal(o) == o.price - PercentOf(Total(o), o.settled.seller)

\* The shipping that was quoted, off a seller who has to bear it.
Borne(o) == IF o.borneBy = "SELLER" THEN o.shipping ELSE 0

\* calculateSellerPayoutBreakdown, and 0 for TradeAuct's own stock.
Net(o) ==
  LET rest == o.price - SellerFee(o) - Borne(o)
  IN IF listing.owned \/ rest < 0 THEN 0 ELSE rest

\* The payment of a listing is booked once, and its settlement made with it; who
\* bears the shipping is read from the listing again.
Settle(x) ==
  /\ order[x].pc = "quoted"
  /\ takenBy = {}
  /\ takenBy' = {x}
  /\ \E c \in ConfigReads :
       order' = [order EXCEPT ![x].pc = "settled", ![x].settled = Resolved(listing, c),
                              ![x].borneBy = listing.payer]
  /\ UNCHANGED <<feeVars, rateVars, listing, about>>

ChangeFees ==
  /\ "fees" \in about
  /\ \E a \in Admins : UpdateRead(a) \/ UpdateWrite(a) \/ UpdateLost(a)
  /\ UNCHANGED <<rateVars, pricingVars>>

\* In a calm behaviour nobody changes the rates.
ChangeRates ==
  /\ "rates" \in about /\ ~ calm
  /\ \E c \in Countries : CreateRate(c) \/ UpdateRate(c) \/ ToggleRate(c) \/ DeleteRate(c)
  /\ UNCHANGED <<feeVars, pricingVars>>

Next ==
  \/ TakeSnapshot \/ TakeAuctionSnapshot \/ EditPrice \/ EditPayer
  \/ ChangeFees \/ ChangeRates
  \/ \E x \in Callers : \/ QuoteRead(x) \/ Seed(x) \/ QuoteDies(x) \/ QuoteRate(x)
                        \/ QuoteFees(x) \/ PriceWinner(x) \/ Settle(x)

Spec == Init /\ [][Next]_vars
-------------------------------------------------------------------------------
TypeOK ==
  /\ feeRow.version \in 0..MaxUpdates
  /\ \A a \in Admins : Cardinality(admin[a]) <= 1 /\ \A c \in admin[a] : c.version \in 1..MaxUpdates
  /\ \A c \in Countries : rates[c].zone \in {"none", "DOMESTIC", "GCC", "WORLDWIDE"}
  /\ \A x \in Callers :
       /\ order[x].pc \in {"none", "rate", "fees", "quoted", "settled", "refused", "dead"}
       /\ order[x].charged.rule \in Rules \cup {"none"}
       /\ seeding[x] > 0 => order[x].pc = "rate"
       /\ order[x].pc = "settled" <=> x \in takenBy

\* The snapshot a listing was put up under.
Shown == IF listing.onAuction # NoSnapshot THEN listing.onAuction ELSE listing.onListing

\* The shipping was moved to the seller after the buyer had been quoted it.
ShippingMoved(o) == o.payer = "BUYER" /\ o.borneBy = "SELLER"

\* Of what the buyer of a listing with a snapshot paid, whatever was changed of
\* the matrix and the price since, the platform keeps the two fees of that
\* snapshot and the seller is owed the rest of the price; nothing is left over,
\* unless the shipping was moved to the seller in between.
BothSidesUnderOneRule == \A x \in takenBy :
  LET o == order[x]
  IN Shown # NoSnapshot /\ ~ ShippingMoved(o) =>
       Total(o) - o.shipping - Vat(o) - Net(o)
         = PercentOf(o.price, Shown.buyer)
           + IF listing.owned THEN o.price ELSE PercentOf(o.price, Shown.seller)

Snapshots == {listing.onListing, listing.onAuction}
             \cup UNION {{order[x].charged, order[x].settled} : x \in Callers}

\* A version names one matrix: snapshots of one version agree, and agree with
\* the matrix as long as that has their version, if administrators take turns
\* and no read fails.
VersionNamesOneMatrix == calm =>
  /\ \A s, t \in Snapshots : s.version = t.version => s = t
  /\ \A s \in Snapshots : s.version = feeRow.version =>
       s \in {ListingFees(listing, feeRow), ListingFees(OwnShape(listing), feeRow)}

\* Once nobody seeds, the table holds every default country, if no request died
\* and no administrator changed it: of requests that seed at a time one goes
\* through and the others stop.
DefaultsComplete ==
  calm /\ Listed # {} /\ (\A x \in Callers : seeding[x] = 0) => Defaults \subseteq Listed
-------------------------------------------------------------------------------
\* What the code says of the seeding: "Ensures default shipping rates exist in
\* DB", before a destination is priced.
SeededBeforePricing == calm =>
  \A x \in Callers : order[x].pc = "rate" /\ Seeded(x) => Defaults \subseteq Listed

\* What the code says of every order: "a buyer charged under one rule and a
\* seller settled under another is the defect this replaces".
NeverUnderTwoRules == \A x \in takenBy : order[x].charged = order[x].settled

\* What the code says of the posting of the commission: "what is left in
\* SELLER_PAYABLE is exactly the sum of settlement net".
PayableIsTheNet == \A x \in takenBy : order[x].price - SellerFee(order[x]) = Net(order[x])
===============================================================================
