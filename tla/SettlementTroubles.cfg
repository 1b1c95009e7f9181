CONSTANTS
  c1 = c1
  c2 = c2
  d1 = d1
  d2 = d2
  Callers <- OneCaller
  Disputes <- TwoDisputes
  EarlyRelease = TRUE
  Operations <- Troubles
  MaxEvents = 6
SPECIFICATION Spec
CHECK_DEADLOCK FALSE
INVARIANT TypeOK
INVARIANT RefundReachesSettlement
INVARIANT DeliveredLeavesPending
PROPERTY DisputeStopsMoney
PROPERTY CaseStopsRelease
