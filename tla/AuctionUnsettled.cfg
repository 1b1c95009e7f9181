CONSTANTS
  c1 = c1
  c2 = c2
  Callers <- OneCaller
  MaxCheckouts = 1
  MaxAttempts = 1
  Scenarios <- Auctions
SPECIFICATION Spec
CHECK_DEADLOCK FALSE
INVARIANT PaidHasSettlement
