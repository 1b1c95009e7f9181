---------------------------- MODULE MCOrderPricing ----------------------------
\* Small instances of OrderPricing for TLC.
EXTENDS OrderPricing, TLC

CONSTANTS a1, a2, o1, o2

TwoAdmins == {a1, a2}
TwoOrders == {o1, o2}

Plain == [sale |-> "AUCTION", reserve |-> 0, startingBid |-> 5, owned |-> FALSE,
          sellerOverride |-> Unset, sellerCustom |-> Unset,
          premiumOverride |-> Unset, premiumCustom |-> Unset,
          payer |-> "BUYER", coverage |-> "WORLDWIDE",
          price |-> 0, onListing |-> NoSnapshot, onAuction |-> NoSnapshot]

\* A sale at a fixed price with a custom fee, an auction from five on, one with a
\* reserve and an override, and TradeAuct's own stock.
SomeShapes == {
  [Plain EXCEPT !.sale = "BUY_NOW", !.sellerCustom = 5, !.payer = "SELLER"],
  Plain,
  [Plain EXCEPT !.reserve = 40, !.premiumOverride = 1, !.coverage = "GCC"],
  [Plain EXCEPT !.owned = TRUE, !.sellerOverride = 2, !.coverage = "UAE_ONLY"]}

\* The least bid, which decides the rule of Plain, and two cells.
SomeUpdates == {
  [part |-> "minimumBid", rule |-> "BUY_NOW", to |-> 10],
  [part |-> "seller", rule |-> "CUSTOM_START_NO_RESERVE", to |-> 9],
  [part |-> "buyer", rule |-> "BUY_NOW", to |-> 7]}

SomePrices == {0, 55}

\* The matrix and the price; who pays for the shipping; the rates.
Apart == {{"snapshots", "fees", "price"}, {"snapshots", "payer", "price"}, {"rates"}}
===============================================================================
