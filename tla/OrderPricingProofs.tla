-------------------------- MODULE OrderPricingProofs --------------------------
(***************************************************************************)
(* For any listing, any prices and rates, any number of buyers and         *)
(* administrators: both sides of an order are held to the snapshot its     *)
(* listing was put up under, unless the shipping moves to the seller in    *)
(* between, and a version names one matrix.                                *)
(***************************************************************************)
EXTENDS OrderPricing, FiniteSetTheorems, TLAPS

(***************************************************************************)
(* Types.                                                                  *)
(***************************************************************************)
ConfigType == [version : Nat, seller : [Rules -> Rates], buyer : [Rules -> Rates], minimumBid : Nat]

SnapshotType ==
  [rule : Rules \cup {"none"}, version : Nat \cup {Unset}, seller : MaybeRates, buyer : MaybeRates]

\* What ListingFees answers.
Taken == [rule : Rules, version : Nat, seller : Rates, buyer : Rates]

ListingType ==
  [sale : {"AUCTION", "BUY_NOW"}, reserve : Nat, startingBid : Nat, owned : BOOLEAN,
   sellerOverride : MaybeRates, sellerCustom : MaybeRates,
   premiumOverride : MaybeRates, premiumCustom : MaybeRates,
   payer : {"BUYER", "SELLER"}, coverage : {"UAE_ONLY", "GCC", "WORLDWIDE"},
   price : Nat, onListing : Taken \cup {NoSnapshot}, onAuction : Taken \cup {NoSnapshot}]

Places == {"none", "rate", "fees", "quoted", "settled", "refused", "dead"}

OrderType ==
  [pc : Places, price : Nat, to : Countries, shipping : Nat,
   payer : {"BUYER", "SELLER"}, borneBy : {"BUYER", "SELLER"},
   charged : Taken \cup {NoSnapshot}, settled : Taken \cup {NoSnapshot}]

RateType == [zone : {"none", "DOMESTIC", "GCC", "WORLDWIDE"}, rate : Nat, active : BOOLEAN]

FeeTypes ==
  /\ feeRow \in ConfigType
  /\ admin \in [Admins -> {{}} \cup {{c} : c \in ConfigType}]
  /\ updates \in 0..MaxUpdates
  /\ calm \in BOOLEAN
  /\ feeRow.version <= updates
  /\ \A a \in Admins : \A c \in admin[a] : 1 <= c.version /\ c.version <= updates

RateTypes ==
  /\ rates \in [Countries -> RateType]
  /\ seeding \in [Callers -> 0..Len(DefaultRates)]

OrderTypes ==
  /\ listing \in ListingType
  /\ order \in [Callers -> OrderType]
  /\ \A x \in Callers : seeding[x] > 0 => order[x].pc = "rate"
  /\ takenBy \subseteq Callers
  /\ \A x \in Callers : order[x].pc = "settled" <=> x \in takenBy

Types == FeeTypes /\ RateTypes /\ OrderTypes
-------------------------------------------------------------------------------
(***************************************************************************)
(* The operators of the fee engine.                                        *)
(***************************************************************************)
\* A listing is priced under one of the four rules, at rates.
LEMMA ListingFeesType ==
  ASSUME NEW x \in ListingType, NEW c \in ConfigType
  PROVE  ListingFees(x, c) \in Taken /\ ListingFees(x, c).version = c.version
<1>1. FeeRule(x, c) \in Rules
  BY DEF FeeRule, Rules
<1>2. c.seller[FeeRule(x, c)] \in Rates /\ c.buyer[FeeRule(x, c)] \in Rates /\ c.version \in Nat
  BY <1>1 DEF ConfigType
<1>3. /\ x.sellerOverride \in MaybeRates /\ x.sellerCustom \in MaybeRates
      /\ x.premiumOverride \in MaybeRates /\ x.premiumCustom \in MaybeRates
  BY DEF ListingType
<1> QED
  BY <1>1, <1>2, <1>3 DEF ListingFees, FirstSet, Taken, MaybeRates, Rates

LEMMA OwnShapeType ==
  ASSUME NEW x \in ListingType
  PROVE  OwnShape(x) \in ListingType
BY DEF OwnShape, ListingType, MaybeRates

LEMMA ResolvedType ==
  ASSUME NEW x \in ListingType, NEW c \in ConfigType
  PROVE  Resolved(x, c) \in Taken
<1>1. ListingFees(OwnShape(x), c) \in Taken
  BY ListingFeesType, OwnShapeType
<1>2. x.onAuction \in Taken \cup {NoSnapshot} /\ x.onListing \in Taken \cup {NoSnapshot}
  BY DEF ListingType
<1> QED
  BY <1>1, <1>2 DEF Resolved

LEMMA TakenIsASnapshot == NoSnapshot \notin Taken
BY DEF NoSnapshot, Taken, Rules

LEMMA PercentOfType ==
  ASSUME NEW a \in Int, NEW r \in Int
  PROVE  PercentOf(a, r) \in Nat
<1>1. CASE a <= 0 \/ r <= 0
  BY <1>1 DEF PercentOf
<1>2. CASE ~ (a <= 0 \/ r <= 0)
  <2>1. a * r \in Nat
    BY <1>2
  <2> QED
    BY <1>2, <2>1 DEF PercentOf
<1> QED
  BY <1>1, <1>2

\* No rate takes more than there is.
LEMMA PercentOfAtMost ==
  ASSUME NEW a \in Nat, NEW r \in Rates
  PROVE  PercentOf(a, r) <= a
<1>1. CASE a <= 0 \/ r <= 0
  BY <1>1 DEF PercentOf
<1>2. CASE ~ (a <= 0 \/ r <= 0)
  <2>1. a * r \in Nat /\ a * r <= a * 100
    BY <1>2 DEF Rates
  <2>2. (a * r + 50) \div 100 <= a
    BY <2>1
  <2> QED
    BY <1>2, <2>2 DEF PercentOf
<1> QED
  BY <1>1, <1>2

LEMMA DefaultConfigType == DefaultConfig \in ConfigType
BY DEF DefaultConfig, ConfigType, Matrix, Rates

LEMMA ConfigReadsType ==
  ASSUME FeeTypes, NEW c \in ConfigReads
  PROVE  c \in ConfigType /\ 0 <= c.version /\ c.version <= updates
BY DefaultConfigType DEF FeeTypes, ConfigReads, DefaultConfig, ConfigType

LEMMA NextConfigType ==
  ASSUME NEW c \in ConfigType, NEW u \in Updates
  PROVE  NextConfig(c, u) \in ConfigType /\ NextConfig(c, u).version = c.version + 1
<1>1. Merged(c, u) \in ConfigType
  <2>1. CASE u.part = "minimumBid"
    BY <2>1, UpdatesAssumption DEF Merged, ConfigType
  <2>2. CASE u.part = "seller"
    BY <2>2, UpdatesAssumption DEF Merged, ConfigType
  <2>3. CASE u.part = "buyer"
    BY <2>3, UpdatesAssumption DEF Merged, ConfigType
  <2> QED
    BY <2>1, <2>2, <2>3, UpdatesAssumption
<1> QED
  BY <1>1 DEF NextConfig, ConfigType
-------------------------------------------------------------------------------
(***************************************************************************)
(* The table of rates.                                                     *)
(***************************************************************************)
LEMMA DefaultsAre ==
  /\ Len(DefaultRates) = 4
  /\ DefaultRates[1].country = "AE" /\ DefaultRates[2].country = "SA"
  /\ DefaultRates[3].country = "KW" /\ DefaultRates[4].country = "GB"
  /\ DOMAIN DefaultRates = 1..4
  /\ \A i \in 1..4 : /\ DefaultRates[i].zone \in {"DOMESTIC", "GCC", "WORLDWIDE"}
                     /\ DefaultRates[i].rate \in Nat
BY DEF DefaultRates

LEMMA DefaultCountries == Defaults = {"AE", "SA", "KW", "GB"} /\ Defaults \subseteq Countries
<1>1. Defaults = {DefaultRates[i].country : i \in 1..4}
  BY DefaultsAre DEF Defaults
<1>2. Defaults = {"AE", "SA", "KW", "GB"}
  BY <1>1, DefaultsAre
<1> QED
  BY <1>2 DEF Countries

LEMMA SeededType == SeededRates \in [Countries -> RateType] /\ NoRates \in [Countries -> RateType]
<1>1. ASSUME NEW c \in Defaults
      PROVE  LET d == CHOOSE d \in {DefaultRates[i] : i \in DOMAIN DefaultRates} : d.country = c
             IN Rate(d.zone, d.rate) \in RateType
  <2> DEFINE D == {DefaultRates[i] : i \in DOMAIN DefaultRates}
             d == CHOOSE d \in D : d.country = c
  <2>1. \E e \in D : e.country = c
    BY DefaultsAre DEF Defaults
  <2>2. d \in D
    BY <2>1
  <2>3. d.zone \in {"DOMESTIC", "GCC", "WORLDWIDE"} /\ d.rate \in Nat
    BY <2>2, DefaultsAre
  <2> QED
    BY <2>3 DEF Rate, RateType
<1>2. NoRate \in RateType
  BY DEF NoRate, RateType
<1> QED
  BY <1>1, <1>2 DEF SeededRates, NoRates

LEMMA CostsType ==
  ASSUME RateTypes, NEW c \in Countries, NEW payer, NEW r \in CostsTo(c, payer)
  PROVE  r \in Nat
<1>1. rates[c].rate \in Nat
  BY DEF RateTypes, RateType
<1>2. \A z : \A d \in Active(z) : rates[d].rate \in Nat
  BY DEF RateTypes, RateType, Active, Listed
<1> QED
  BY <1>1, <1>2 DEF CostsTo

LEMMA InitTypes == Init => Types
<1> SUFFICES ASSUME Init PROVE Types
  OBVIOUS
<1>1. FeeTypes
  BY DefaultConfigType, MaxUpdatesAssumption DEF Init, FeeInit, FeeTypes, DefaultConfig
<1>2. RateTypes
  BY SeededType, DefaultsAre DEF Init, RatesInit, RateTypes
<1>3. PICK x \in Shapes, p \in Prices : listing = [x EXCEPT !.price = p]
  BY DEF Init
<1>4. listing \in ListingType
  BY <1>3, ShapesAssumption, PricesAssumption DEF ListingType
<1>5. order \in [Callers -> OrderType]
  BY DefaultCountries DEF Init, Blank, OrderType, Places
<1>6. OrderTypes
  BY <1>4, <1>5 DEF Init, RatesInit, Blank, OrderTypes
<1> QED
  BY <1>1, <1>2, <1>6 DEF Types
-------------------------------------------------------------------------------
(***************************************************************************)
(* Every step keeps the types.                                             *)
(***************************************************************************)
LEMMA ListingSteps ==
  ASSUME Types, TakeSnapshot \/ TakeAuctionSnapshot \/ EditPrice \/ EditPayer
  PROVE  Types'
<1>1. UNCHANGED <<feeVars, rateVars, order, takenBy>>
  BY DEF TakeSnapshot, TakeAuctionSnapshot, EditPrice, EditPayer
<1>2. listing' \in ListingType
  <2>1. \A c \in ConfigReads : ListingFees(listing, c) \in Taken
    BY ConfigReadsType, ListingFeesType DEF Types, OrderTypes
  <2>2. CASE TakeSnapshot
    BY <2>1, <2>2 DEF TakeSnapshot, Types, OrderTypes, ListingType
  <2>3. CASE TakeAuctionSnapshot
    BY <2>1, <2>3 DEF TakeAuctionSnapshot, Types, OrderTypes, ListingType
  <2>4. CASE EditPrice
    BY <2>4, PricesAssumption DEF EditPrice, Types, OrderTypes, ListingType
  <2>5. CASE EditPayer
    BY <2>5 DEF EditPayer, Types, OrderTypes, ListingType
  <2> QED
    BY <2>2, <2>3, <2>4, <2>5
<1> QED
  BY <1>1, <1>2 DEF Types, FeeTypes, RateTypes, OrderTypes, feeVars, rateVars

LEMMA ChangeFeesTypes ==
  ASSUME Types, ChangeFees
  PROVE  Types'
<1>1. UNCHANGED <<rateVars, pricingVars>>
  BY DEF ChangeFees
<1>2. PICK a \in Admins : UpdateRead(a) \/ UpdateWrite(a) \/ UpdateLost(a)
  BY DEF ChangeFees
<1>3. FeeTypes'
  <2>1. CASE UpdateRead(a)
    <3>1. PICK c \in ConfigReads, u \in Updates : admin' = [admin EXCEPT ![a] = {NextConfig(c, u)}]
      BY <2>1 DEF UpdateRead
    <3>2. /\ NextConfig(c, u) \in ConfigType
          /\ 1 <= NextConfig(c, u).version /\ NextConfig(c, u).version <= updates + 1
      <4>1. c \in ConfigType /\ c.version \in Nat /\ c.version <= updates
        BY ConfigReadsType DEF Types, ConfigType
      <4> QED
        BY <4>1, NextConfigType DEF Types, FeeTypes
    <3>3. updates' = updates + 1 /\ updates' \in 0..MaxUpdates /\ UNCHANGED <<feeRow, calm>>
      BY <2>1, MaxUpdatesAssumption DEF UpdateRead, Types, FeeTypes
    <3>4. admin' \in [Admins -> {{}} \cup {{d} : d \in ConfigType}]
      BY <3>1, <3>2 DEF Types, FeeTypes
    <3>5. \A b \in Admins : \A d \in admin'[b] : 1 <= d.version /\ d.version <= updates'
      <4>1. \A d \in ConfigType : d.version \in Nat
        BY DEF ConfigType
      <4>2. \A b \in Admins : \A d \in admin'[b] : d = NextConfig(c, u) \/ d \in admin[b]
        BY <3>1 DEF Types, FeeTypes
      <4>3. \A b \in Admins : \A d \in admin[b] : d \in ConfigType
        BY DEF Types, FeeTypes
      <4> QED
        BY <3>2, <3>3, <4>1, <4>2, <4>3 DEF Types, FeeTypes
    <3> QED
      BY <3>3, <3>4, <3>5 DEF Types, FeeTypes, ConfigType
  <2>2. CASE UpdateWrite(a)
    BY <2>2 DEF UpdateWrite, Types, FeeTypes
  <2>3. CASE UpdateLost(a)
    BY <2>3 DEF UpdateLost, Types, FeeTypes
  <2> QED
    BY <1>2, <2>1, <2>2, <2>3
<1> QED
  BY <1>1, <1>3 DEF Types, RateTypes, OrderTypes, rateVars, pricingVars

LEMMA ChangeRatesTypes ==
  ASSUME Types, ChangeRates
  PROVE  Types'
<1>1. UNCHANGED <<feeVars, pricingVars>>
  BY DEF ChangeRates
<1>2. PICK c \in Countries : CreateRate(c) \/ UpdateRate(c) \/ ToggleRate(c) \/ DeleteRate(c)
  BY DEF ChangeRates
<1>3. PICK to \in RateType : Edit(c, to)
  <2>1. Rate(FallbackZone(c), 90) \in RateType /\ NoRate \in RateType
    BY DEF Rate, NoRate, FallbackZone, RateType
  <2>2. [rates[c] EXCEPT !.rate = 90] \in RateType /\ [rates[c] EXCEPT !.active = ~ @] \in RateType
    BY DEF Types, RateTypes, RateType
  <2> QED
    BY <1>2, <2>1, <2>2 DEF CreateRate, UpdateRate, ToggleRate, DeleteRate
<1> QED
  BY <1>1, <1>3 DEF Edit, Types, FeeTypes, RateTypes, OrderTypes, feeVars, pricingVars

OrderMoved(x, pc) ==
  /\ order' \in [Callers -> OrderType]
  /\ order'[x].pc = pc
  /\ \A y \in Callers \ {x} : order'[y] = order[y]

\* An order moves on, and one of its fields is filled in.
LEMMA MovesOn ==
  ASSUME order \in [Callers -> OrderType], NEW x \in Callers, NEW pc \in Places,
         order' = [order EXCEPT ![x].pc = pc]
  PROVE  OrderMoved(x, pc)
BY DEF OrderType, OrderMoved

LEMMA ShippedFor ==
  ASSUME order \in [Callers -> OrderType], NEW x \in Callers, NEW pc \in Places,
         NEW v \in Nat, order' = [order EXCEPT ![x].pc = pc, ![x].shipping = v]
  PROVE  OrderMoved(x, pc) /\ order'[x].shipping = v /\ order'[x].payer = order[x].payer
<1> DEFINE o == [order[x] EXCEPT !.pc = pc, !.shipping = v]
<1>1. order' = [order EXCEPT ![x] = o]
  OBVIOUS
<1>2. o \in OrderType /\ o.pc = pc /\ o.shipping = v /\ o.payer = order[x].payer
  BY DEF OrderType
<1> HIDE DEF o
<1> QED
  BY <1>1, <1>2 DEF OrderMoved

LEMMA ChargedUnder ==
  ASSUME order \in [Callers -> OrderType], NEW x \in Callers, NEW pc \in Places,
         NEW v \in Taken \cup {NoSnapshot}, order' = [order EXCEPT ![x].pc = pc, ![x].charged = v]
  PROVE  /\ OrderMoved(x, pc) /\ order'[x].charged = v
         /\ order'[x].shipping = order[x].shipping /\ order'[x].payer = order[x].payer
<1> DEFINE o == [order[x] EXCEPT !.pc = pc, !.charged = v]
<1>1. order' = [order EXCEPT ![x] = o]
  OBVIOUS
<1>2. /\ o \in OrderType /\ o.pc = pc /\ o.charged = v
      /\ o.shipping = order[x].shipping /\ o.payer = order[x].payer
  BY DEF OrderType
<1> HIDE DEF o
<1> QED
  BY <1>1, <1>2 DEF OrderMoved

LEMMA SettledUnder ==
  ASSUME order \in [Callers -> OrderType], NEW x \in Callers, NEW pc \in Places,
         NEW v \in Taken \cup {NoSnapshot}, NEW p \in {"BUYER", "SELLER"},
         order' = [order EXCEPT ![x].pc = pc, ![x].settled = v, ![x].borneBy = p]
  PROVE  /\ OrderMoved(x, pc) /\ order'[x].settled = v /\ order'[x].charged = order[x].charged
         /\ order'[x].shipping = order[x].shipping /\ order'[x].payer = order[x].payer
<1> DEFINE o == [order[x] EXCEPT !.pc = pc, !.settled = v, !.borneBy = p]
<1>1. order' = [order EXCEPT ![x] = o]
  OBVIOUS
<1>2. /\ o \in OrderType /\ o.pc = pc /\ o.settled = v /\ o.charged = order[x].charged
      /\ o.shipping = order[x].shipping /\ o.payer = order[x].payer
  BY DEF OrderType
<1> HIDE DEF o
<1>3. order'[x] = o /\ \A y \in Callers \ {x} : order'[y] = order[y]
  BY <1>1
<1>4. order' \in [Callers -> OrderType]
  BY <1>1, <1>2
<1> QED
  BY <1>2, <1>3, <1>4 DEF OrderMoved

LEMMA QuoteTypes ==
  ASSUME Types, NEW x \in Callers,
         QuoteRead(x) \/ Seed(x) \/ QuoteDies(x) \/ QuoteRate(x)
  PROVE  Types'
<1>1. UNCHANGED <<feeVars, listing, takenBy>>
  BY DEF QuoteRead, Seed, QuoteDies, QuoteRate, pricingVars
<1>2. CASE QuoteRead(x)
  <2>1. PICK c \in Countries :
          CountRates(x, order' = [order EXCEPT ![x] =
                       [Blank EXCEPT !.pc = "rate", !.price = listing.price, !.to = c,
                                     !.payer = listing.payer]])
    BY <1>2 DEF QuoteRead
  <2>2. [Blank EXCEPT !.pc = "rate", !.price = listing.price, !.to = c,
                      !.payer = listing.payer] \in OrderType
    BY DEF Blank, OrderType, Places, Types, OrderTypes, ListingType
  <2>3. seeding' \in [Callers -> 0..Len(DefaultRates)] /\ UNCHANGED rates
        /\ \A y \in Callers \ {x} : seeding'[y] = seeding[y]
    BY <2>1, DefaultsAre DEF CountRates, Types, RateTypes
  <2>4. order'[x].pc = "rate" /\ order[x].pc = "none"
    BY <1>2, <2>1 DEF CountRates, Blank, QuoteRead, Types, OrderTypes
  <2>5. order' \in [Callers -> OrderType] /\ \A y \in Callers \ {x} : order'[y] = order[y]
    BY <2>1, <2>2 DEF CountRates, Types, OrderTypes
  <2> QED
    BY <1>1, <2>3, <2>4, <2>5 DEF Types, FeeTypes, RateTypes, OrderTypes, feeVars
<1>3. CASE Seed(x)
  <2>1. seeding[x] \in 1..4 /\ UNCHANGED order
    BY <1>3, DefaultsAre DEF Seed, SeedOne, Types, RateTypes, pricingVars
  <2>2. DefaultRates[seeding[x]].country \in Countries
    BY <2>1, DefaultsAre, DefaultCountries DEF Defaults
  <2>3. Rate(DefaultRates[seeding[x]].zone, DefaultRates[seeding[x]].rate) \in RateType
    BY <2>1, DefaultsAre DEF Rate, RateType
  <2>4. rates' \in [Countries -> RateType]
    BY <1>3, <2>2, <2>3 DEF Seed, SeedOne, Types, RateTypes
  <2>5. /\ seeding' \in [Callers -> 0..Len(DefaultRates)]
        /\ \A y \in Callers : seeding'[y] > 0 => seeding[y] > 0
    BY <1>3, <2>1, DefaultsAre DEF Seed, SeedOne, GoesOn, Types, RateTypes
  <2> QED
    BY <1>1, <2>1, <2>4, <2>5 DEF Types, FeeTypes, RateTypes, OrderTypes, feeVars
<1>4. CASE QuoteDies(x)
  <2>1. /\ seeding[x] > 0 /\ seeding' = [seeding EXCEPT ![x] = 0] /\ UNCHANGED rates
        /\ order' = [order EXCEPT ![x].pc = "dead"]
    BY <1>4 DEF QuoteDies, SeederDies
  <2>2. order[x].pc = "rate"
    BY <2>1 DEF Types, OrderTypes
  <2>3. /\ order' \in [Callers -> OrderType] /\ order'[x].pc = "dead"
        /\ \A y \in Callers \ {x} : order'[y] = order[y]
    BY <2>1, MovesOn DEF Types, OrderTypes, Places, OrderMoved
  <2>4. \A y \in Callers : order'[y].pc = "settled" <=> order[y].pc = "settled"
    BY <2>2, <2>3
  <2>5. \A y \in Callers : seeding'[y] > 0 => order'[y].pc = "rate"
    BY <2>1, <2>3, DefaultsAre DEF Types, OrderTypes, RateTypes
  <2>6. RateTypes'
    BY <2>1, DefaultsAre DEF Types, RateTypes
  <2> QED
    BY <1>1, <2>3, <2>4, <2>5, <2>6 DEF Types, FeeTypes, OrderTypes, feeVars
<1>5. CASE QuoteRate(x)
  <2>1. order[x].pc = "rate" /\ seeding[x] = 0 /\ UNCHANGED <<rates, seeding>>
    BY <1>5 DEF QuoteRate, Seeded, rateVars
  <2>2. order[x].to \in Countries
    BY DEF Types, OrderTypes, OrderType
  <2>3. /\ order' \in [Callers -> OrderType] /\ order'[x].pc \in {"refused", "fees"}
        /\ \A y \in Callers \ {x} : order'[y] = order[y]
    <3>1. CASE order' = [order EXCEPT ![x] = [Blank EXCEPT !.pc = "refused"]]
      <4>1. [Blank EXCEPT !.pc = "refused"] \in OrderType
        BY DefaultCountries DEF Blank, OrderType, Places
      <4>2. [Blank EXCEPT !.pc = "refused"].pc = "refused"
        BY DEF Blank
      <4> QED
        BY <3>1, <4>1, <4>2 DEF Types, OrderTypes
    <3>2. ASSUME NEW r \in CostsTo(order[x].to, order[x].payer),
                 order' = [order EXCEPT ![x].pc = "fees", ![x].shipping = r]
          PROVE  /\ order' \in [Callers -> OrderType] /\ order'[x].pc = "fees"
                 /\ \A y \in Callers \ {x} : order'[y] = order[y]
      <4>1. r \in Nat
        BY <2>2, CostsType DEF Types
      <4> QED
        BY <3>2, <4>1, ShippedFor DEF Types, OrderTypes, Places, OrderMoved
    <3> QED
      BY <1>5, <3>1, <3>2 DEF QuoteRate
  <2>4. \A y \in Callers : order'[y].pc = "settled" <=> order[y].pc = "settled"
    BY <2>1, <2>3
  <2>5. \A y \in Callers : seeding'[y] > 0 => order'[y].pc = "rate"
    BY <2>1, <2>3 DEF Types, OrderTypes
  <2> QED
    BY <1>1, <2>1, <2>3, <2>4, <2>5 DEF Types, FeeTypes, RateTypes, OrderTypes, feeVars
<1> QED
  BY <1>2, <1>3, <1>4, <1>5

LEMMA PriceTypes ==
  ASSUME Types, NEW x \in Callers, QuoteFees(x) \/ PriceWinner(x) \/ Settle(x)
  PROVE  Types'
<1>1. UNCHANGED <<feeVars, rateVars, listing>>
  BY DEF QuoteFees, PriceWinner, Settle
<1>2. \A c \in ConfigReads : Resolved(listing, c) \in Taken
  BY ConfigReadsType, ResolvedType DEF Types, OrderTypes
<1>3. /\ order' \in [Callers -> OrderType]
      /\ \A y \in Callers \ {x} : order'[y] = order[y]
      /\ order[x].pc # "rate" /\ order'[x].pc # "rate"
      /\ order'[x].pc = "settled" <=> x \in takenBy'
      /\ \A y \in Callers \ {x} : y \in takenBy' <=> y \in takenBy
      /\ takenBy' \subseteq takenBy \cup {x}
  <2>1. CASE QuoteFees(x)
    <3>1. PICK c \in ConfigReads :
            order' = [order EXCEPT ![x].pc = "quoted", ![x].charged = Resolved(listing, c)]
      BY <2>1 DEF QuoteFees
    <3> QED
      BY <1>2, <2>1, <3>1, ChargedUnder DEF QuoteFees, Types, OrderTypes, Places, OrderMoved
  <2>2. CASE PriceWinner(x)
    <3>1. PICK c \in ConfigReads :
            order' = [order EXCEPT ![x] =
                   [Blank EXCEPT !.pc = "quoted", !.price = listing.price,
                                 !.payer = listing.payer,
                                 !.shipping = IF listing.payer = "SELLER" THEN 0 ELSE 25,
                                 !.charged = Resolved(listing, c)]]
      BY <2>2 DEF PriceWinner
    <3> DEFINE o == [Blank EXCEPT !.pc = "quoted", !.price = listing.price,
                                 !.payer = listing.payer,
                                 !.shipping = IF listing.payer = "SELLER" THEN 0 ELSE 25,
                                 !.charged = Resolved(listing, c)]
    <3>2. o \in OrderType /\ o.pc = "quoted"
      BY <1>2, DefaultCountries DEF Blank, OrderType, Places, Types, OrderTypes, ListingType
    <3>3. order' = [order EXCEPT ![x] = o]
      BY <3>1
    <3> HIDE DEF o
    <3> QED
      BY <2>2, <3>2, <3>3 DEF PriceWinner, Types, OrderTypes
  <2>3. CASE Settle(x)
    <3>1. PICK c \in ConfigReads :
            order' = [order EXCEPT ![x].pc = "settled", ![x].settled = Resolved(listing, c),
                                   ![x].borneBy = listing.payer]
      BY <2>3 DEF Settle
    <3>2. listing.payer \in {"BUYER", "SELLER"}
      BY DEF Types, OrderTypes, ListingType
    <3> QED
      BY <1>2, <2>3, <3>2, <3>1, SettledUnder DEF Settle, Types, OrderTypes, Places, OrderMoved
  <2> QED
    BY <2>1, <2>2, <2>3
<1> QED
  BY <1>1, <1>3 DEF Types, FeeTypes, RateTypes, OrderTypes, feeVars, rateVars

LEMMA TypesStep == Types /\ [Next]_vars => Types'
<1> SUFFICES ASSUME Types, [Next]_vars PROVE Types'
  OBVIOUS
<1>1. CASE UNCHANGED vars
  BY <1>1 DEF vars, feeVars, rateVars, pricingVars, Types, FeeTypes, RateTypes, OrderTypes
<1>2. CASE Next
  BY <1>2, ListingSteps, ChangeFeesTypes, ChangeRatesTypes, QuoteTypes, PriceTypes DEF Next
<1> QED
  BY <1>1, <1>2
LEMMA TypesInvariant == Spec => []Types
BY InitTypes, TypesStep, PTL DEF Spec

\* The requests, the matrix and the orders keep their types; who seeds is a
\* quote waiting for its rate; an order is settled when its payment was booked.
THEOREM TypeCorrectness == Spec => []TypeOK
<1>1. Types => TypeOK
  <2> SUFFICES ASSUME Types PROVE TypeOK
    OBVIOUS
  <2>1. \A a \in Admins : Cardinality(admin[a]) <= 1 /\ \A c \in admin[a] : c.version \in 1..MaxUpdates
    <3> SUFFICES ASSUME NEW a \in Admins
                 PROVE  Cardinality(admin[a]) <= 1 /\ \A c \in admin[a] : c.version \in 1..MaxUpdates
      OBVIOUS
    <3>1. admin[a] = {} \/ \E c \in ConfigType : admin[a] = {c}
      BY DEF Types, FeeTypes
    <3>2. Cardinality(admin[a]) <= 1
      BY <3>1, FS_EmptySet, FS_Singleton
    <3>3. \A c \in admin[a] : c.version \in 1..MaxUpdates
      BY <3>1, MaxUpdatesAssumption DEF Types, FeeTypes, ConfigType
    <3> QED
      BY <3>2, <3>3
  <2>2. feeRow.version \in 0..MaxUpdates
    BY MaxUpdatesAssumption DEF Types, FeeTypes, ConfigType
  <2>3. \A c \in Countries : rates[c].zone \in {"none", "DOMESTIC", "GCC", "WORLDWIDE"}
    BY DEF Types, RateTypes, RateType
  <2>4. \A x \in Callers :
       /\ order[x].pc \in {"none", "rate", "fees", "quoted", "settled", "refused", "dead"}
       /\ order[x].charged.rule \in Rules \cup {"none"}
       /\ seeding[x] > 0 => order[x].pc = "rate"
       /\ order[x].pc = "settled" <=> x \in takenBy
    BY DEF Types, OrderTypes, OrderType, Places, Taken, NoSnapshot
  <2> QED
    BY <2>1, <2>2, <2>3, <2>4 DEF TypeOK
<1> QED
  BY <1>1, TypesInvariant, PTL
-------------------------------------------------------------------------------
(***************************************************************************)
(* Both sides of an order.                                                 *)
(***************************************************************************)
Priced == {"quoted", "settled"}

UnderShown == Shown # NoSnapshot =>
  \A x \in Callers : /\ order[x].pc \in Priced => order[x].charged = Shown
                     /\ order[x].pc = "settled" => order[x].settled = Shown

\* A listing with a snapshot resolves to it, whatever the configuration is by now.
LEMMA ResolvesToShown ==
  ASSUME Shown # NoSnapshot, NEW c
  PROVE  Resolved(listing, c) = Shown
BY DEF Resolved, Shown

LEMMA UnderShownStep == Types /\ UnderShown /\ [Next]_vars => UnderShown'
<1> SUFFICES ASSUME Types, UnderShown, [Next]_vars PROVE UnderShown'
  OBVIOUS
<1>1. CASE UNCHANGED vars
  BY <1>1 DEF vars, pricingVars, UnderShown, Shown
<1>2. CASE TakeSnapshot \/ TakeAuctionSnapshot
  BY <1>2 DEF TakeSnapshot, TakeAuctionSnapshot, Unquoted, UnderShown, Priced
<1>3. CASE EditPrice \/ EditPayer
  BY <1>3 DEF EditPrice, EditPayer, UnderShown, Shown, Types, OrderTypes, ListingType
<1>4. CASE ChangeFees \/ ChangeRates
  BY <1>4 DEF ChangeFees, ChangeRates, pricingVars, UnderShown, Shown
<1>5. ASSUME NEW x \in Callers, QuoteRead(x) \/ Seed(x) \/ QuoteDies(x) \/ QuoteRate(x)
      PROVE  UnderShown'
  <2>1. UNCHANGED listing
    BY <1>5 DEF QuoteRead, Seed, QuoteDies, QuoteRate, pricingVars
  <2>2. \A y \in Callers : order'[y].pc \in Priced => order'[y] = order[y]
    <3>1. CASE QuoteRead(x)
      BY <3>1 DEF QuoteRead, CountRates, Types, OrderTypes, Blank, Priced
    <3>2. CASE Seed(x)
      BY <3>2 DEF Seed, pricingVars
    <3>3. CASE QuoteDies(x)
      BY <3>3, MovesOn DEF QuoteDies, SeederDies, Types, OrderTypes, Places, Priced, OrderMoved
    <3>4. CASE QuoteRate(x)
      <4>1. CASE order' = [order EXCEPT ![x] = [Blank EXCEPT !.pc = "refused"]]
        BY <4>1 DEF Types, OrderTypes, Blank, Priced
      <4>2. ASSUME NEW r \in CostsTo(order[x].to, order[x].payer),
                   order' = [order EXCEPT ![x].pc = "fees", ![x].shipping = r]
            PROVE  \A y \in Callers : order'[y].pc \in Priced => order'[y] = order[y]
        <5>1. r \in Nat
          BY CostsType DEF Types, OrderTypes, OrderType
        <5>2. order'[x].pc = "fees" /\ \A y \in Callers \ {x} : order'[y] = order[y]
          BY <4>2, <5>1, ShippedFor DEF Types, OrderTypes, Places, OrderMoved
        <5> QED
          BY <5>2 DEF Priced
      <4> QED
        BY <3>4, <4>1, <4>2 DEF QuoteRate
    <3> QED
      BY <1>5, <3>1, <3>2, <3>3, <3>4
  <2> QED
    BY <2>1, <2>2 DEF UnderShown, Shown, Priced
<1>6. ASSUME NEW x \in Callers, QuoteFees(x) \/ PriceWinner(x) \/ Settle(x), Shown # NoSnapshot
      PROVE  UnderShown'
  <2>1. UNCHANGED listing /\ Shown \in Taken \cup {NoSnapshot}
    BY <1>6 DEF QuoteFees, PriceWinner, Settle, Shown, Types, OrderTypes, ListingType
  <2>3. CASE QuoteFees(x)
    <3>1. order' = [order EXCEPT ![x].pc = "quoted", ![x].charged = Shown] /\ order[x].pc = "fees"
      BY <1>6, <2>3, ResolvesToShown DEF QuoteFees
    <3>2. /\ order'[x].pc = "quoted" /\ order'[x].charged = Shown
          /\ \A y \in Callers \ {x} : order'[y] = order[y]
      BY <2>1, <3>1, ChargedUnder DEF Types, OrderTypes, Places, OrderMoved
    <3> QED
      BY <2>1, <3>2 DEF UnderShown, Shown, Priced
  <2>4. CASE PriceWinner(x)
    <3> DEFINE o == [Blank EXCEPT !.pc = "quoted", !.price = listing.price,
                                 !.payer = listing.payer,
                                 !.shipping = IF listing.payer = "SELLER" THEN 0 ELSE 25,
                                 !.charged = Shown]
    <3>1. order' = [order EXCEPT ![x] = o]
      BY <1>6, <2>4, ResolvesToShown DEF PriceWinner
    <3>2. o.pc = "quoted" /\ o.charged = Shown
      BY DEF Blank
    <3> HIDE DEF o
    <3> QED
      BY <2>1, <3>1, <3>2 DEF UnderShown, Shown, Priced, Types, OrderTypes
  <2>5. CASE Settle(x)
    <3>1. /\ order' = [order EXCEPT ![x].pc = "settled", ![x].settled = Shown,
                                      ![x].borneBy = listing.payer]
          /\ order[x].pc = "quoted" /\ listing.payer \in {"BUYER", "SELLER"}
      BY <1>6, <2>5, ResolvesToShown DEF Settle, Types, OrderTypes, ListingType
    <3>2. order \in [Callers -> OrderType]
      BY DEF Types, OrderTypes
    <3> DEFINE o == [order[x] EXCEPT !.pc = "settled", !.settled = Shown, !.borneBy = listing.payer]
    <3>3. order' = [order EXCEPT ![x] = o]
      BY <3>1
    <3>4. o.settled = Shown /\ o.charged = order[x].charged
      BY <3>2 DEF OrderType
    <3> HIDE DEF o
    <3>5. order'[x] = o /\ \A y \in Callers \ {x} : order'[y] = order[y]
      BY <3>2, <3>3
    <3> QED
      BY <2>1, <3>1, <3>4, <3>5 DEF UnderShown, Shown, Priced
  <2> QED
    BY <1>6, <2>3, <2>4, <2>5
<1>7. ASSUME NEW x \in Callers, QuoteFees(x) \/ PriceWinner(x) \/ Settle(x), Shown = NoSnapshot
      PROVE  UnderShown'
  BY <1>7 DEF QuoteFees, PriceWinner, Settle, UnderShown, Shown
<1> QED
  BY <1>1, <1>2, <1>3, <1>4, <1>5, <1>6, <1>7 DEF Next

\* A buyer is quoted no shipping where the seller pays for it.
FreeWhenSellerPays == \A x \in Callers :
  order[x].pc \in {"fees"} \cup Priced /\ order[x].payer = "SELLER" => order[x].shipping = 0

LEMMA FreeStep == Types /\ FreeWhenSellerPays /\ [Next]_vars => FreeWhenSellerPays'
<1> SUFFICES ASSUME Types, FreeWhenSellerPays, [Next]_vars PROVE FreeWhenSellerPays'
  OBVIOUS
<1>1. CASE UNCHANGED order
  BY <1>1 DEF FreeWhenSellerPays
<1>2. ASSUME NEW x \in Callers,
             QuoteRead(x) \/ QuoteDies(x) \/ QuoteRate(x) \/ QuoteFees(x) \/ PriceWinner(x) \/ Settle(x)
      PROVE  FreeWhenSellerPays'
  <2>1. order'[x].pc \in {"fees"} \cup Priced /\ order'[x].payer = "SELLER" => order'[x].shipping = 0
    <3>1. \A c \in ConfigReads : Resolved(listing, c) \in Taken
      BY ConfigReadsType, ResolvedType DEF Types, OrderTypes
    <3>2. CASE QuoteRead(x)
      <4>1. order'[x].pc = "rate"
        BY <3>2 DEF QuoteRead, CountRates, Blank, Types, OrderTypes
      <4> QED
        BY <4>1 DEF Priced
    <3>3. CASE QuoteDies(x)
      <4>1. order'[x].pc = "dead"
        BY <3>3, MovesOn DEF QuoteDies, SeederDies, Types, OrderTypes, Places, OrderMoved
      <4> QED
        BY <4>1 DEF Priced
    <3>4. CASE QuoteRate(x)
      <4>1. CASE order' = [order EXCEPT ![x] = [Blank EXCEPT !.pc = "refused"]]
        BY <4>1 DEF Blank, Priced, Types, OrderTypes
      <4>2. ASSUME NEW r \in CostsTo(order[x].to, order[x].payer),
                   order' = [order EXCEPT ![x].pc = "fees", ![x].shipping = r]
            PROVE  order'[x].payer = "SELLER" => order'[x].shipping = 0
        <5>1. r \in Nat
          BY CostsType DEF Types, OrderTypes, OrderType
        <5>2. order'[x].shipping = r /\ order'[x].payer = order[x].payer
          BY <4>2, <5>1, ShippedFor DEF Types, OrderTypes, Places
        <5>3. order[x].payer = "SELLER" => r = 0
          BY DEF CostsTo
        <5> QED
          BY <5>2, <5>3
      <4> QED
        BY <3>4, <4>1, <4>2 DEF QuoteRate
    <3>5. CASE QuoteFees(x)
      <4>1. PICK s \in Taken : order' = [order EXCEPT ![x].pc = "quoted", ![x].charged = s]
        BY <3>1, <3>5 DEF QuoteFees
      <4>2. order'[x].shipping = order[x].shipping /\ order'[x].payer = order[x].payer
        BY <4>1, ChargedUnder DEF Types, OrderTypes, Places
      <4> QED
        BY <3>5, <4>2 DEF QuoteFees, FreeWhenSellerPays
    <3>6. CASE PriceWinner(x)
      <4>1. order'[x].shipping = IF order'[x].payer = "SELLER" THEN 0 ELSE 25
        BY <3>6 DEF PriceWinner, Blank, Types, OrderTypes
      <4> QED
        BY <4>1
    <3>7. CASE Settle(x)
      <4>1. PICK s \in Taken, p \in {"BUYER", "SELLER"} :
              order' = [order EXCEPT ![x].pc = "settled", ![x].settled = s, ![x].borneBy = p]
        BY <3>1, <3>7 DEF Settle, Types, OrderTypes, ListingType
      <4>2. order'[x].shipping = order[x].shipping /\ order'[x].payer = order[x].payer
        BY <4>1, SettledUnder DEF Types, OrderTypes, Places
      <4> QED
        BY <3>7, <4>2 DEF Settle, FreeWhenSellerPays, Priced
    <3> QED
      BY <1>2, <3>2, <3>3, <3>4, <3>5, <3>6, <3>7
  <2>2. \A y \in Callers \ {x} : order'[y] = order[y]
    BY <1>2 DEF QuoteRead, CountRates, QuoteDies, SeederDies, QuoteRate, QuoteFees, PriceWinner,
                Settle, Types, OrderTypes
  <2> QED
    BY <2>1, <2>2 DEF FreeWhenSellerPays
<1> QED
  BY <1>1, <1>2 DEF Next, TakeSnapshot, TakeAuctionSnapshot, EditPrice, EditPayer, ChangeFees,
                    ChangeRates, Seed, pricingVars, vars

\* Of what the buyer of a listing with a snapshot paid, the platform keeps the
\* fees of that snapshot and the seller is owed the rest, to the fils, whatever
\* is changed of the matrix, the rates and the price between the two readings and
\* whatever the rounding, unless the shipping is moved from the buyer to the
\* seller between them (resolveListingFeeSnapshot, calculateSellerPayoutBreakdown).
THEOREM OneRule == Spec => []BothSidesUnderOneRule
<1>1. Init => UnderShown /\ FreeWhenSellerPays
  BY DEF Init, Blank, UnderShown, FreeWhenSellerPays, Priced
<1>2. Types /\ UnderShown /\ FreeWhenSellerPays => BothSidesUnderOneRule
  <2> SUFFICES ASSUME Types, UnderShown, FreeWhenSellerPays, NEW x \in takenBy,
                      Shown # NoSnapshot, ~ ShippingMoved(order[x])
               PROVE  Total(order[x]) - order[x].shipping - Vat(order[x]) - Net(order[x])
                        = PercentOf(order[x].price, Shown.buyer)
                          + IF listing.owned THEN order[x].price
                                             ELSE PercentOf(order[x].price, Shown.seller)
    BY DEF BothSidesUnderOneRule
  <2> DEFINE o == order[x]
             kept == IF listing.owned THEN o.price ELSE PercentOf(o.price, Shown.seller)
  <2>1. x \in Callers /\ o.charged = Shown /\ o.settled = Shown
    BY DEF Types, OrderTypes, UnderShown, Priced
  <2>2. Shown.buyer \in Rates /\ Shown.seller \in Rates
    BY DEF Shown, Types, OrderTypes, ListingType, Taken
  <2>3. o.price \in Nat /\ o.shipping \in Nat
    BY <2>1 DEF Types, OrderTypes, OrderType
  <2>4. Borne(o) = 0
    <3>1. o.pc = "settled" /\ o.payer \in {"BUYER", "SELLER"}
      BY <2>1 DEF Types, OrderTypes, OrderType
    <3> QED
      BY <2>1, <3>1 DEF Borne, ShippingMoved, FreeWhenSellerPays, Priced
  <2> HIDE DEF o
  <2>5. BuyerFee(o) = PercentOf(o.price, Shown.buyer) /\ BuyerFee(o) \in Nat
    <3>1. o.price \in Int /\ Shown.buyer \in Int
      BY <2>2, <2>3 DEF Rates
    <3>2. PercentOf(o.price, Shown.buyer) \in Nat
      BY <3>1, PercentOfType
    <3> QED
      BY <2>1, <3>2 DEF BuyerFee
  <2>6. Vat(o) \in Nat
    <3>1. o.price + BuyerFee(o) \in Int /\ VatRate \in Int
      BY <2>3, <2>5, PricesAssumption
    <3> QED
      BY <3>1, PercentOfType DEF Vat
  <2>7. kept \in Nat /\ kept <= o.price
    <3>1. o.price \in Int /\ Shown.seller \in Int
      BY <2>2, <2>3 DEF Rates
    <3>2. PercentOf(o.price, Shown.seller) \in Nat
      BY <3>1, PercentOfType
    <3>3. PercentOf(o.price, Shown.seller) <= o.price
      BY <2>2, <2>3, PercentOfAtMost
    <3> QED
      BY <2>3, <3>2, <3>3
  <2>8. Net(o) = o.price - kept
    <3>1. SellerFee(o) = kept
      BY <2>1 DEF SellerFee
    <3>2. Net(o) = IF listing.owned THEN 0 ELSE o.price - kept
      BY <2>3, <2>7, <2>4, <3>1 DEF Net
    <3> QED
      BY <2>3, <3>2 DEF kept
  <2>9. Total(o) = o.price + BuyerFee(o) + o.shipping + Vat(o)
    BY DEF Total
  <2> HIDE DEF kept
  <2>10. Total(o) - o.shipping - Vat(o) - Net(o) = BuyerFee(o) + kept
    BY <2>3, <2>5, <2>6, <2>7, <2>8, <2>9
  <2> QED
    BY <2>5, <2>10 DEF o, kept
<1> QED
  BY <1>1, <1>2, UnderShownStep, FreeStep, TypesInvariant, TypesStep, PTL DEF Spec
-------------------------------------------------------------------------------
(***************************************************************************)
(* What a version stands for.                                              *)
(***************************************************************************)
\* What a snapshot taken now, or an order priced now, is held to.
Current ==
  ListingFees(IF Shown = NoSnapshot THEN OwnShape(listing) ELSE listing, feeRow)

\* Administrators take turns, so a version is written once; nothing is of a
\* version to come, and what is of this one was taken from this matrix.
TurnShape == calm =>
  \A a \in Admins : \A c \in admin[a] :
    c.version = feeRow.version + 1 /\ \A b \in Admins \ {a} : admin[b] = {}

VersionShape == calm =>
  /\ \A s \in Snapshots : s.version <= feeRow.version
  /\ \A s \in Snapshots : s.version = feeRow.version => s = Current
  /\ \A s, t \in Snapshots : s.version = t.version => s = t

BlankShape == \A x \in Callers :
  order[x].pc = "none" => order[x].charged = NoSnapshot /\ order[x].settled = NoSnapshot

LEMMA SnapshotsAre ==
  /\ \A s : s \in Snapshots <=>
       \/ s = listing.onListing \/ s = listing.onAuction
       \/ \E x \in Callers : s = order[x].charged \/ s = order[x].settled
  /\ Types => Snapshots \subseteq Taken \cup {NoSnapshot}
BY DEF Snapshots, Types, OrderTypes, ListingType, OrderType

\* The fees of a listing do not depend on its price or its snapshots.
LEMMA FeesOfShape ==
  ASSUME NEW x \in ListingType, NEW y \in ListingType, NEW c,
         /\ y.sale = x.sale /\ y.reserve = x.reserve /\ y.startingBid = x.startingBid
         /\ y.owned = x.owned
         /\ y.sellerOverride = x.sellerOverride /\ y.sellerCustom = x.sellerCustom
         /\ y.premiumOverride = x.premiumOverride /\ y.premiumCustom = x.premiumCustom
  PROVE  ListingFees(y, c) = ListingFees(x, c) /\ ListingFees(OwnShape(y), c) = ListingFees(OwnShape(x), c)
<1>1. FeeRule(y, c) = FeeRule(x, c)
  BY DEF FeeRule
<1>2. FeeRule(OwnShape(y), c) = FeeRule(OwnShape(x), c)
  BY DEF FeeRule, OwnShape, ListingType
<1>3. ListingFees(y, c) = ListingFees(x, c)
  BY <1>1 DEF ListingFees
<1>4. ListingFees(OwnShape(y), c) = ListingFees(OwnShape(x), c)
  BY <1>2 DEF ListingFees, OwnShape, ListingType
<1> QED
  BY <1>3, <1>4

\* A step that shows nothing but what is held to now.
LEMMA NothingNew ==
  ASSUME Types, VersionShape, UNCHANGED <<feeRow, calm>>, calm,
         Current' = Current,
         Snapshots' \subseteq Snapshots \cup {Current, NoSnapshot}
  PROVE  VersionShape'
<1>1. Current \in Taken /\ Current.version = feeRow.version
  BY ListingFeesType, OwnShapeType DEF Current, Types, OrderTypes, FeeTypes
<1>2. NoSnapshot.version = Unset /\ feeRow.version \in Nat
  BY DEF NoSnapshot, Types, FeeTypes, ConfigType
<1>3. \A s \in Snapshots : s = NoSnapshot \/ s.version \in Nat
  BY SnapshotsAre DEF Taken
<1>4. \A s \in Snapshots' : s \in Snapshots \/ s = Current \/ s = NoSnapshot
  OBVIOUS
<1>5. \A s \in Snapshots' : s.version <= feeRow.version /\ (s.version = feeRow.version => s = Current)
  BY <1>1, <1>2, <1>4 DEF VersionShape, Unset
<1>6. \A s, t \in Snapshots' : s.version = t.version => s = t
  BY <1>1, <1>2, <1>3, <1>4 DEF VersionShape, Unset
<1> QED
  BY <1>5, <1>6 DEF VersionShape

LEMMA BlankStep == Types /\ BlankShape /\ [Next]_vars => BlankShape'
<1> SUFFICES ASSUME Types, BlankShape, [Next]_vars PROVE BlankShape'
  OBVIOUS
<1>1. CASE UNCHANGED order
  BY <1>1 DEF BlankShape
<1>2. ASSUME NEW x \in Callers,
             QuoteRead(x) \/ QuoteDies(x) \/ QuoteRate(x) \/ QuoteFees(x) \/ PriceWinner(x) \/ Settle(x)
      PROVE  BlankShape'
  <2>1. order'[x].pc # "none"
    <3>1. \A c \in ConfigReads : Resolved(listing, c) \in Taken
      BY ConfigReadsType, ResolvedType DEF Types, OrderTypes
    <3>2. CASE QuoteRead(x) \/ PriceWinner(x)
      BY <3>2 DEF QuoteRead, CountRates, PriceWinner, Blank, Types, OrderTypes
    <3>3. CASE QuoteDies(x)
      BY <3>3, MovesOn DEF QuoteDies, SeederDies, Types, OrderTypes, Places, OrderMoved
    <3>4. CASE QuoteRate(x)
      <4>1. \A r \in CostsTo(order[x].to, order[x].payer) : r \in Nat
        BY CostsType DEF Types, OrderTypes, OrderType
      <4>2. CASE order' = [order EXCEPT ![x] = [Blank EXCEPT !.pc = "refused"]]
        BY <4>2 DEF Blank, Types, OrderTypes
      <4>3. ASSUME NEW r \in Nat, order' = [order EXCEPT ![x].pc = "fees", ![x].shipping = r]
            PROVE  order'[x].pc = "fees"
        BY <4>3, ShippedFor DEF Types, OrderTypes, Places, OrderMoved
      <4> QED
        BY <3>4, <4>1, <4>2, <4>3 DEF QuoteRate
    <3>5. CASE QuoteFees(x)
      <4>1. PICK s \in Taken : order' = [order EXCEPT ![x].pc = "quoted", ![x].charged = s]
        BY <3>1, <3>5 DEF QuoteFees
      <4> QED
        BY <4>1, ChargedUnder DEF Types, OrderTypes, Places, OrderMoved
    <3>6. CASE Settle(x)
      <4>1. PICK s \in Taken, p \in {"BUYER", "SELLER"} :
              order' = [order EXCEPT ![x].pc = "settled", ![x].settled = s, ![x].borneBy = p]
        BY <3>1, <3>6 DEF Settle, Types, OrderTypes, ListingType
      <4> QED
        BY <4>1, SettledUnder DEF Types, OrderTypes, Places, OrderMoved
    <3> QED
      BY <1>2, <3>2, <3>3, <3>4, <3>5, <3>6
  <2>2. \A y \in Callers \ {x} : order'[y] = order[y]
    BY <1>2 DEF QuoteRead, CountRates, QuoteDies, SeederDies, QuoteRate, QuoteFees, PriceWinner,
                Settle, Types, OrderTypes
  <2> QED
    BY <2>1, <2>2 DEF BlankShape
<1> QED
  BY <1>1, <1>2 DEF Next, TakeSnapshot, TakeAuctionSnapshot, EditPrice, EditPayer, ChangeFees, ChangeRates,
                    Seed, pricingVars, vars

LEMMA TurnStep == Types /\ TurnShape /\ [Next]_vars => TurnShape'
<1> SUFFICES ASSUME Types, TurnShape, [Next]_vars PROVE TurnShape'
  OBVIOUS
<1>1. CASE UNCHANGED feeVars
  BY <1>1 DEF feeVars, TurnShape
<1>2. ASSUME calm, NEW a \in Admins, UpdateRead(a) PROVE TurnShape'
  <2>1. PICK u \in Updates : admin' = [admin EXCEPT ![a] = {NextConfig(feeRow, u)}]
    BY <1>2 DEF UpdateRead, ConfigReads
  <2>2. NextConfig(feeRow, u).version = feeRow.version + 1
    BY NextConfigType DEF Types, FeeTypes
  <2>3. \A b \in Admins : admin[b] = {}
    BY <1>2 DEF UpdateRead
  <2> QED
    BY <1>2, <2>1, <2>2, <2>3 DEF UpdateRead, TurnShape, Types, FeeTypes
<1>3. ASSUME calm, NEW a \in Admins, UpdateWrite(a) \/ UpdateLost(a) PROVE TurnShape'
  BY <1>3 DEF UpdateWrite, UpdateLost, TurnShape, Types, FeeTypes
<1>4. CASE ~ calm
  BY <1>4 DEF TurnShape, Next, TakeSnapshot, TakeAuctionSnapshot, EditPrice, EditPayer, ChangeFees, ChangeRates,
       QuoteRead, Seed, QuoteDies, QuoteRate, QuoteFees, PriceWinner, Settle, feeVars, vars,
       UpdateRead, UpdateWrite, UpdateLost
<1> QED
  BY <1>1, <1>2, <1>3, <1>4 DEF Next, TakeSnapshot, TakeAuctionSnapshot, EditPrice, EditPayer, ChangeFees,
       ChangeRates, QuoteRead, Seed, QuoteDies, QuoteRate, QuoteFees, PriceWinner, Settle, vars
\* Pricing an order shows what is held to now, whoever prices it.
LEMMA OrderShows ==
  ASSUME Types, calm, NEW x \in Callers, UNCHANGED listing,
         order' \in [Callers -> OrderType],
         \A y \in Callers \ {x} : order'[y] = order[y],
         order'[x].charged \in {order[x].charged, NoSnapshot, Resolved(listing, feeRow)},
         order'[x].settled \in {order[x].settled, NoSnapshot, Resolved(listing, feeRow)}
  PROVE  Snapshots' \subseteq Snapshots \cup {Current, NoSnapshot}
<1>1. Resolved(listing, feeRow) \in Snapshots \cup {Current}
  BY DEF Resolved, Shown, Current, Snapshots
<1>2. ASSUME NEW s \in Snapshots' PROVE s \in Snapshots \cup {Current, NoSnapshot}
  <2>1. \/ s = listing.onListing \/ s = listing.onAuction
        \/ \E y \in Callers : s = order'[y].charged \/ s = order'[y].settled
    BY <1>2 DEF Snapshots
  <2>2. /\ listing.onListing \in Snapshots /\ listing.onAuction \in Snapshots
        /\ \A y \in Callers : order[y].charged \in Snapshots /\ order[y].settled \in Snapshots
    BY DEF Snapshots
  <2> QED
    BY <1>1, <2>1, <2>2
<1> QED
  BY <1>2

LEMMA VersionStep ==
  Types /\ BlankShape /\ TurnShape /\ VersionShape /\ [Next]_vars => VersionShape'
<1> SUFFICES ASSUME Types, BlankShape, TurnShape, VersionShape, [Next]_vars PROVE VersionShape'
  OBVIOUS
<1>0. UNCHANGED calm
  BY DEF Next, TakeSnapshot, TakeAuctionSnapshot, EditPrice, EditPayer, ChangeFees, ChangeRates, QuoteRead,
         Seed, QuoteDies, QuoteRate, QuoteFees, PriceWinner, Settle, feeVars, vars,
         UpdateRead, UpdateWrite, UpdateLost
<1>1. CASE ~ calm
  BY <1>0, <1>1 DEF VersionShape
<1>2. CASE calm /\ UNCHANGED <<feeRow, listing, order>>
  <2>1. Current' = Current /\ Snapshots' = Snapshots
    BY <1>2 DEF Current, Shown, Snapshots
  <2> QED
    BY <1>0, <1>2, <2>1, NothingNew
<1>3. CASE calm /\ (TakeSnapshot \/ TakeAuctionSnapshot)
  <2> DEFINE new == ListingFees(listing, feeRow)
  <2>1. /\ listing' = [listing EXCEPT !.onListing = new] \/ listing' = [listing EXCEPT !.onAuction = new]
        /\ \A x \in Callers : order[x].charged = NoSnapshot /\ order[x].settled = NoSnapshot
        /\ UNCHANGED <<feeRow, order>>
    BY <1>3 DEF TakeSnapshot, TakeAuctionSnapshot, ConfigReads, Unquoted, BlankShape, feeVars
  <2>2. new \in Taken /\ new.version = feeRow.version
    BY ListingFeesType DEF Types, OrderTypes, FeeTypes
  <2>3. /\ listing' \in ListingType /\ ListingFees(listing', feeRow) = new
        /\ listing'.onListing \in {listing.onListing, new}
        /\ listing'.onAuction \in {listing.onAuction, new}
        /\ listing'.onListing = new \/ listing'.onAuction = new
    <3>1. listing' \in ListingType
      BY <2>1, <2>2 DEF Types, OrderTypes, ListingType
    <3>2. /\ listing'.sale = listing.sale /\ listing'.reserve = listing.reserve
          /\ listing'.startingBid = listing.startingBid /\ listing'.owned = listing.owned
          /\ listing'.sellerOverride = listing.sellerOverride
          /\ listing'.sellerCustom = listing.sellerCustom
          /\ listing'.premiumOverride = listing.premiumOverride
          /\ listing'.premiumCustom = listing.premiumCustom
      BY <2>1 DEF Types, OrderTypes, ListingType
    <3>3. ListingFees(listing', feeRow) = new
      BY <3>1, <3>2, FeesOfShape DEF Types, OrderTypes
    <3>4. /\ listing'.onListing \in {listing.onListing, new}
          /\ listing'.onAuction \in {listing.onAuction, new}
          /\ listing'.onListing = new \/ listing'.onAuction = new
      BY <2>1 DEF Types, OrderTypes, ListingType
    <3> QED
      BY <3>1, <3>3, <3>4
  <2>4. Shown' # NoSnapshot /\ Current' = new
    <3>1. Shown' # NoSnapshot
      BY <2>2, <2>3, TakenIsASnapshot DEF Shown
    <3> QED
      BY <2>1, <2>3, <3>1 DEF Current
  <2>5. \A s \in Snapshots' : s = NoSnapshot \/ s = new \/ s = listing.onListing \/ s = listing.onAuction
    BY <2>1, <2>3 DEF Snapshots
  <2>6. listing.onListing \in Snapshots /\ listing.onAuction \in Snapshots
    BY DEF Snapshots
  <2>7. \A s \in {listing.onListing, listing.onAuction} :
          s = NoSnapshot \/ (s.version \in Nat /\ (s.version = feeRow.version => s = new))
    <3> SUFFICES ASSUME NEW s \in {listing.onListing, listing.onAuction}, s # NoSnapshot
                 PROVE  s.version \in Nat /\ (s.version = feeRow.version => s = new)
      OBVIOUS
    <3>1. s \in Taken
      BY DEF Types, OrderTypes, ListingType
    <3>2. Shown # NoSnapshot
      BY DEF Shown
    <3>3. Current = new
      BY <3>2 DEF Current
    <3> QED
      BY <1>3, <2>6, <3>1, <3>3 DEF Taken, VersionShape
  <2>8. NoSnapshot.version = Unset /\ feeRow.version \in Nat
    BY DEF NoSnapshot, Types, FeeTypes, ConfigType
  <2> HIDE DEF new
  <2>9. \A s \in Snapshots' : s.version <= feeRow.version /\ (s.version = feeRow.version => s = new)
    BY <1>3, <2>2, <2>5, <2>6, <2>7, <2>8 DEF VersionShape, Unset
  <2>10. \A s, t \in Snapshots' : s.version = t.version => s = t
    BY <1>3, <2>2, <2>5, <2>6, <2>7, <2>8 DEF VersionShape, Unset
  <2> QED
    BY <2>1, <2>4, <2>9, <2>10 DEF VersionShape
<1>4. CASE calm /\ (EditPrice \/ EditPayer)
  <2>1. /\ listing' \in ListingType /\ UNCHANGED <<feeRow, order>>
        /\ listing'.onListing = listing.onListing /\ listing'.onAuction = listing.onAuction
        /\ listing'.sale = listing.sale /\ listing'.reserve = listing.reserve
        /\ listing'.startingBid = listing.startingBid /\ listing'.owned = listing.owned
        /\ listing'.sellerOverride = listing.sellerOverride
        /\ listing'.sellerCustom = listing.sellerCustom
        /\ listing'.premiumOverride = listing.premiumOverride
        /\ listing'.premiumCustom = listing.premiumCustom
    BY <1>4, PricesAssumption DEF EditPrice, EditPayer, Types, OrderTypes, ListingType, feeVars
  <2>2. Snapshots' = Snapshots /\ Shown' = Shown
    BY <2>1 DEF Snapshots, Shown
  <2>3. Current' = Current
    BY <2>1, <2>2, FeesOfShape DEF Current, Types, OrderTypes
  <2> QED
    BY <1>0, <1>4, <2>1, <2>2, <2>3, NothingNew
<1>5. ASSUME calm, NEW a \in Admins, UpdateRead(a) \/ UpdateWrite(a) \/ UpdateLost(a),
             UNCHANGED <<listing, order>>
      PROVE  VersionShape'
  <2>1. CASE UNCHANGED feeRow
    BY <1>2, <1>5, <2>1
  <2>2. CASE UpdateWrite(a)
    <3>1. feeRow'.version = feeRow.version + 1 /\ feeRow.version \in Nat
      BY <1>5, <2>2 DEF UpdateWrite, TurnShape, Types, FeeTypes, ConfigType
    <3>2. Snapshots' = Snapshots
      BY <1>5 DEF Snapshots
    <3>3. \A s \in Snapshots : s.version \in Int /\ s.version <= feeRow.version
      BY <1>5, SnapshotsAre DEF VersionShape, Taken, NoSnapshot, Unset
    <3>4. \A s \in Snapshots' : s.version <= feeRow'.version /\ s.version # feeRow'.version
      BY <3>1, <3>2, <3>3
    <3> QED
      BY <1>5, <3>2, <3>4 DEF VersionShape
  <2> QED
    BY <1>5, <2>1, <2>2 DEF UpdateRead, UpdateLost
<1>6. ASSUME calm, NEW x \in Callers,
             \/ QuoteRead(x) \/ QuoteDies(x) \/ QuoteRate(x)
             \/ QuoteFees(x) \/ PriceWinner(x) \/ Settle(x)
      PROVE  VersionShape'
  <2>1. UNCHANGED <<feeRow, listing>>
    BY <1>6 DEF QuoteRead, QuoteDies, QuoteRate, QuoteFees, PriceWinner, Settle, feeVars
  <2>2. Current' = Current
    BY <2>1 DEF Current, Shown
  <2>3. \A y \in Callers \ {x} : order'[y] = order[y]
    BY <1>6 DEF QuoteRead, CountRates, QuoteDies, SeederDies, QuoteRate, QuoteFees, PriceWinner,
                Settle, Types, OrderTypes
  <2>4. order' \in [Callers -> OrderType]
    BY <1>6, QuoteTypes, PriceTypes DEF Types, OrderTypes
  <2>5. /\ order'[x].charged \in {order[x].charged, NoSnapshot, Resolved(listing, feeRow)}
        /\ order'[x].settled \in {order[x].settled, NoSnapshot, Resolved(listing, feeRow)}
    <3>1. order[x] \in OrderType /\ order \in [Callers -> OrderType]
      BY DEF Types, OrderTypes
    <3>2. CASE QuoteRead(x)
      BY <3>1, <3>2 DEF QuoteRead, CountRates, Blank
    <3>3. CASE PriceWinner(x)
      <4> DEFINE o == [Blank EXCEPT !.pc = "quoted", !.price = listing.price,
                                   !.payer = listing.payer,
                                 !.shipping = IF listing.payer = "SELLER" THEN 0 ELSE 25,
                                   !.charged = Resolved(listing, feeRow)]
      <4>1. order' = [order EXCEPT ![x] = o]
        BY <1>6, <3>3 DEF PriceWinner, ConfigReads
      <4>2. o.charged = Resolved(listing, feeRow) /\ o.settled = NoSnapshot
        BY DEF Blank
      <4> HIDE DEF o
      <4> QED
        BY <3>1, <4>1, <4>2
    <3>4. CASE QuoteDies(x)
      BY <1>6, <3>4 DEF QuoteDies
    <3>5. CASE QuoteRate(x)
      <4>1. CASE order' = [order EXCEPT ![x] = [Blank EXCEPT !.pc = "refused"]]
        BY <3>1, <4>1 DEF Blank
      <4>2. ASSUME NEW r, order' = [order EXCEPT ![x].pc = "fees", ![x].shipping = r]
            PROVE  order'[x].charged = order[x].charged /\ order'[x].settled = order[x].settled
        <5>1. order' = [order EXCEPT ![x] = [order[x] EXCEPT !.pc = "fees", !.shipping = r]]
          BY <4>2
        <5> QED
          BY <3>1, <5>1 DEF OrderType
      <4> QED
        BY <3>5, <4>1, <4>2 DEF QuoteRate
    <3>6. CASE QuoteFees(x)
      <4> DEFINE o == [order[x] EXCEPT !.pc = "quoted", !.charged = Resolved(listing, feeRow)]
      <4>1. order' = [order EXCEPT ![x] = o]
        BY <1>6, <3>6 DEF QuoteFees, ConfigReads
      <4>2. o.charged = Resolved(listing, feeRow) /\ o.settled = order[x].settled
        BY <3>1 DEF OrderType
      <4> HIDE DEF o
      <4> QED
        BY <3>1, <4>1, <4>2
    <3>7. CASE Settle(x)
      <4> DEFINE o == [order[x] EXCEPT !.pc = "settled", !.settled = Resolved(listing, feeRow),
                                     !.borneBy = listing.payer]
      <4>1. order' = [order EXCEPT ![x] = o]
        BY <1>6, <3>7 DEF Settle, ConfigReads
      <4>2. o.settled = Resolved(listing, feeRow) /\ o.charged = order[x].charged
        BY <3>1 DEF OrderType
      <4> HIDE DEF o
      <4> QED
        BY <3>1, <4>1, <4>2
    <3> QED
      BY <1>6, <3>2, <3>3, <3>4, <3>5, <3>6, <3>7
  <2>6. Snapshots' \subseteq Snapshots \cup {Current, NoSnapshot}
    BY <1>6, <2>1, <2>3, <2>4, <2>5, OrderShows
  <2> QED
    BY <1>0, <1>6, <2>1, <2>2, <2>6, NothingNew
<1>7. CASE UNCHANGED vars
  BY <1>1, <1>2, <1>7 DEF vars, feeVars, pricingVars
<1>8. CASE ChangeFees
  BY <1>1, <1>5, <1>8 DEF ChangeFees, pricingVars
<1>9. CASE ChangeRates \/ \E x \in Callers : Seed(x)
  BY <1>1, <1>2, <1>9 DEF ChangeRates, Seed, feeVars, pricingVars
<1> QED
  BY <1>0, <1>1, <1>3, <1>4, <1>6, <1>7, <1>8, <1>9 DEF Next
\* If administrators take turns and no read fails, the version on a snapshot says
\* which matrix it was taken from, however quotes, settlements and changes
\* interleave.
THEOREM OneMatrix == Spec => []VersionNamesOneMatrix
<1>1. Init => BlankShape /\ TurnShape /\ VersionShape
  <2> SUFFICES ASSUME Init PROVE BlankShape /\ TurnShape /\ VersionShape
    OBVIOUS
  <2>1. BlankShape /\ TurnShape
    BY DEF Init, FeeInit, Blank, BlankShape, TurnShape
  <2>2. PICK x \in Shapes, p \in Prices : listing = [x EXCEPT !.price = p]
    BY DEF Init
  <2>3. listing.onListing = NoSnapshot /\ listing.onAuction = NoSnapshot
    BY <2>2, ShapesAssumption
  <2>4. \A s \in Snapshots : s = NoSnapshot
    BY <2>3, SnapshotsAre DEF Init, Blank
  <2>5. NoSnapshot.version = -1 /\ feeRow.version = 0
    BY DEF NoSnapshot, Unset, Init, FeeInit, DefaultConfig
  <2> QED
    BY <2>1, <2>4, <2>5 DEF VersionShape
<1>2. VersionShape => VersionNamesOneMatrix
  BY DEF VersionShape, VersionNamesOneMatrix, Current
<1> QED
  BY <1>1, <1>2, BlankStep, TurnStep, VersionStep, TypesInvariant, TypesStep, PTL DEF Spec
-------------------------------------------------------------------------------
(***************************************************************************)
(* The seeding.                                                            *)
(***************************************************************************)
\* The first n defaults are there; one request, or more, is about to insert the
\* next one, and nobody is ahead of it.
Filled(n) ==
  /\ \A i \in 1..4 : rates[DefaultRates[i].country] # NoRate <=> i <= n
  /\ rates["FR"] = NoRate
  /\ \A x \in Callers : seeding[x] <= n + 1
  /\ n \in 1..3 => \E x \in Callers : seeding[x] = n + 1

SeedShape == calm => \E n \in 0..4 : Filled(n)

LEMMA InitSeedShape == Init => SeedShape
<1> SUFFICES ASSUME Init PROVE SeedShape
  OBVIOUS
<1>1. CASE rates = NoRates
  <2>1. Filled(0)
    BY <1>1, DefaultsAre DEF Init, RatesInit, Filled, NoRates, Countries, Defaults
  <2> QED
    BY <2>1 DEF SeedShape
<1>2. CASE rates = SeededRates
  <2>1. \A i \in 1..4 : DefaultRates[i].country \in Defaults
    BY DefaultsAre DEF Defaults
  <2>2. \A c \in Defaults : SeededRates[c] # NoRate
    <3>1. SeededRates \in [Countries -> [zone : {"none", "DOMESTIC", "GCC", "WORLDWIDE"},
                                         rate : Nat, active : BOOLEAN]]
      BY SeededType DEF RateType
    <3>2. \A c \in Defaults : SeededRates[c].active = TRUE
      BY DefaultCountries DEF SeededRates, Rate
    <3> QED
      BY <3>2 DEF NoRate
  <2>3. SeededRates["FR"] = NoRate
    BY DefaultCountries DEF SeededRates, Countries
  <2>4. Filled(4)
    BY <1>2, <2>1, <2>2, <2>3 DEF Init, RatesInit, Filled
  <2> QED
    BY <2>4 DEF SeedShape
<1> QED
  BY <1>1, <1>2 DEF Init, RatesInit

LEMMA SeedingStep ==
  ASSUME Types, NEW n \in 0..4, Filled(n), NEW x \in Callers, SeedOne(x)
  PROVE  \E m \in 0..4 : Filled(m)'
<1> DEFINE i == seeding[x]
           d == DefaultRates[i]
<1>1. i \in 1..4 /\ i <= n + 1
  BY DefaultsAre DEF SeedOne, Types, RateTypes, Filled
<1>2. d.country \in Countries /\ \A j \in 1..4 : DefaultRates[j].country = d.country => j = i
  BY <1>1, DefaultsAre, DefaultCountries DEF Defaults
<1>3. rates[d.country] = NoRate <=> i = n + 1
  BY <1>1 DEF Filled
<1>4. CASE i = n + 1
  <2>1. rates' = [rates EXCEPT ![d.country] = Rate(d.zone, d.rate)]
    BY <1>3, <1>4 DEF SeedOne
  <2>2. Rate(d.zone, d.rate) # NoRate
    BY DEF Rate, NoRate
  <2>3. \A j \in 1..4 : rates'[DefaultRates[j].country] # NoRate <=> j <= n + 1
    <3>1. \A j \in 1..4 : DefaultRates[j].country \in Countries
      BY DefaultsAre, DefaultCountries DEF Defaults
    <3> QED
      BY <1>1, <1>2, <1>4, <2>1, <2>2, <3>1 DEF Filled, Types, RateTypes
  <2>4. rates'["FR"] = NoRate
    <3>1. d.country # "FR"
      BY <1>1, DefaultsAre
    <3> QED
      BY <2>1, <3>1 DEF Filled, Types, RateTypes, Countries
  <2>5. seeding' = [seeding EXCEPT ![x] = IF i < 4 THEN i + 1 ELSE 0]
    BY <1>3, <1>4, DefaultsAre DEF SeedOne, GoesOn
  <2>6. Filled(n + 1)'
    BY <1>1, <1>4, <2>3, <2>4, <2>5 DEF Filled, Types, RateTypes
  <2> QED
    BY <1>1, <1>4, <2>6
<1>5. CASE i # n + 1
  <2>1. UNCHANGED rates /\ seeding' = [seeding EXCEPT ![x] = 0]
    BY <1>3, <1>5 DEF SeedOne
  <2>2. Filled(n)'
    BY <1>5, <2>1 DEF Filled, Types, RateTypes
  <2> QED
    BY <2>2
<1> QED
  BY <1>4, <1>5

LEMMA SeedShapeStep == Types /\ SeedShape /\ [Next]_vars => SeedShape'
<1> SUFFICES ASSUME Types, SeedShape, [Next]_vars, calm' PROVE \E m \in 0..4 : Filled(m)'
  BY DEF SeedShape
<1>1. calm
  BY DEF Next, TakeSnapshot, TakeAuctionSnapshot, EditPrice, EditPayer, ChangeFees, ChangeRates, QuoteRead,
         Seed, QuoteDies, QuoteRate, QuoteFees, PriceWinner, Settle, feeVars, vars,
         UpdateRead, UpdateWrite, UpdateLost
<1>2. PICK n \in 0..4 : Filled(n)
  BY <1>1 DEF SeedShape
<1>3. CASE UNCHANGED <<rates, seeding>>
  BY <1>2, <1>3 DEF Filled
<1>4. ASSUME NEW x \in Callers, QuoteRead(x) PROVE \E m \in 0..4 : Filled(m)'
  <2>1. UNCHANGED rates
    BY <1>4 DEF QuoteRead, CountRates
  <2>2. CASE Listed = {}
    <3>1. n = 0
      <4>1. "AE" \in Countries /\ rates["AE"] = NoRate
        BY <2>2, DefaultCountries DEF Listed
      <4> QED
        BY <1>2, <4>1, DefaultsAre DEF Filled
    <3>2. seeding' = [seeding EXCEPT ![x] = 1]
      BY <1>4, <2>2 DEF QuoteRead, CountRates
    <3>3. Filled(0)'
      BY <1>2, <2>1, <3>1, <3>2 DEF Filled, Types, RateTypes
    <3> QED
      BY <3>3
  <2>3. CASE Listed # {}
    BY <1>3, <1>4, <2>1, <2>3 DEF QuoteRead, CountRates
  <2> QED
    BY <2>2, <2>3
<1>5. ASSUME NEW x \in Callers, Seed(x) PROVE \E m \in 0..4 : Filled(m)'
  BY <1>2, <1>5, SeedingStep DEF Seed
<1> QED
  BY <1>1, <1>3, <1>4, <1>5 DEF Next, TakeSnapshot, TakeAuctionSnapshot, EditPrice, EditPayer, ChangeFees,
     ChangeRates, QuoteDies, QuoteRate, QuoteFees, PriceWinner, Settle, rateVars, vars

\* Of any number of requests that seed at a time one goes through: when none is at
\* it any more and the table is not empty, it is complete.
THEOREM Complete == Spec => []DefaultsComplete
<1>1. Types /\ SeedShape => DefaultsComplete
  <2> SUFFICES ASSUME Types, SeedShape, calm, Listed # {}, \A x \in Callers : seeding[x] = 0
               PROVE  Defaults \subseteq Listed
    BY DEF DefaultsComplete
  <2>1. PICK n \in 0..4 : Filled(n)
    BY DEF SeedShape
  <2>2. n \notin 1..3
    BY <2>1 DEF Filled
  <2>3. n # 0
    <3>1. n = 0 => \A c \in Countries : rates[c] = NoRate
      BY <2>1, DefaultsAre, DefaultCountries DEF Filled, Countries
    <3> QED
      BY <3>1 DEF Listed
  <2>4. n = 4
    BY <2>2, <2>3
  <2>5. \A c \in Defaults : rates[c] # NoRate /\ c \in Countries
    BY <2>1, <2>4, DefaultsAre, DefaultCountries DEF Filled
  <2> QED
    BY <2>5 DEF Listed
<1> QED
  BY <1>1, InitSeedShape, SeedShapeStep, TypesInvariant, TypesStep, PTL DEF Spec
===============================================================================
