------------------------------ MODULE MCPayments ------------------------------
\* Small instances of Payments for TLC.
EXTENDS Payments, TLC

CONSTANTS c1, c2

OneCaller == {c1}
TwoCallers == {c1, c2}

\* One checkout, by intent or by hosted session, and everything that reports it.
Elements == {"elements", "confirm", "abandon", "crash"}
Hosted == {"session", "confirm", "abandon", "crash"}
\* An auction's winner, charged by a worker that may die or miss an answer.
Auction == {"auction", "nocard", "lost", "crash"}
\* Declined charges, retries and expiring windows; retries whose answer is lost.
Recovery == {"auction", "declines", "retry", "expiry"}
Retries == {"elements", "retry", "lost"}
\* Refunds made in Stripe's dashboard.
Refunds == {"session", "refunds"}

AllScenarios == {Elements, Hosted, Auction, Recovery, Retries, Refunds}
OneCheckout == {Elements \cup {"declines", "refunds"}, Hosted \cup {"declines", "refunds"}}
TwoTabs == {{"elements"}}
Auctions == {{"auction"}}
DeclinedFirst == {{"session", "declines"}}
===============================================================================
