CONSTANTS
  c1 = c1
  c2 = c2
  d1 = d1
  d2 = d2
  Callers <- TwoCallers
  Disputes <- OneDispute
  EarlyRelease = FALSE
  Operations <- DeliveryAndHold
  MaxEvents = 9
SPECIFICATION Spec
CHECK_DEADLOCK FALSE
INVARIANT DeliveredLeavesPending
