----------------------------- MODULE MCSettlement -----------------------------
\* Small instances of Settlement for TLC.
EXTENDS Settlement, TLC

CONSTANTS c1, c2, d1, d2

OneCaller == {c1}
TwoCallers == {c1, c2}
OneDispute == {d1}
TwoDisputes == {d1, d2}

\* What the environment issues in each instance.
Troubles == {"FULFILLMENT_ORDER_CREATED", "FULFILLMENT_DELIVERED", "FULFILLMENT_CANCELLED",
             "DISPUTE_CASE", "dispute", "confirm", "refund", "dashboard", "manual", "transfer"}
Races == {"FULFILLMENT_DELIVERED", "dispute", "hold", "dashboard", "transfer", "manual",
          "crash"}
DeliveryAndHold == {"FULFILLMENT_DELIVERED", "hold"}
ReturnAndDispute == {"FULFILLMENT_ORDER_CREATED", "FULFILLMENT_DELIVERED", "RETURN", "dispute"}
CaseOnly == {"FULFILLMENT_ORDER_CREATED", "FULFILLMENT_DELIVERED", "DISPUTE_CASE"}
RefundAndTransfer == {"FULFILLMENT_DELIVERED", "refund", "transfer"}
TransferOnly == {"FULFILLMENT_DELIVERED", "transfer"}

CallerSymmetry == Permutations(Callers)
===============================================================================
