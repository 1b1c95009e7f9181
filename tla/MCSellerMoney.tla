---------------------------- MODULE MCSellerMoney ----------------------------
\* Small instances of SellerMoney for TLC.
EXTENDS SellerMoney, TLC

CONSTANTS c1, c2, s1, s2

OneCaller == {c1}
TwoCallers == {c1, c2}
OneSale == {s1}
TwoSales == {s1, s2}
Halves == {2}
UpAndDown == {-1, 1}

\* Refunds of every kind before the money leaves, with adjustments.
Held == {"refund", "dashboard", "adjust", "dispute", "lost"}
\* Refunds around and after a payout.
Left == {"refund", "dashboard", "transfer", "adjust"}
\* One payout: refusals, lost answers, manual payouts, adjustments, bounces, and a
\* lost dispute before or after the bank has the money, or has returned it.
Payouts == {"transfer", "manual", "refused", "lost", "adjust", "bounce", "dispute"}
\* Two payouts to one account, whose transactions may not be listed.
Bundled == {"sales", "transfer", "bounce", "emptyList"}
\* A debt from one sale is held back from the next, in whole or in part.
Debts == {"sales", "transfer", "dispute", "adjust"}
Others == {"sales", "owned", "cancel", "adjust", "manual"}

Sellers == Permutations(TwoSales)

AllScenarios == {Held, Left, Payouts, Bundled, Debts, Others}
AfterPayout == {{"refund", "transfer"}}
===============================================================================
