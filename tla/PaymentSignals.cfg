CONSTANTS
  c1 = c1
  c2 = c2
  Callers <- TwoCallers
  MaxCheckouts = 1
  MaxAttempts = 1
  Scenarios <- AllScenarios
SPECIFICATION Spec
CHECK_DEADLOCK FALSE
INVARIANT TypeOK
INVARIANT PaidMeansCaptured
INVARIANT BookedMeansReconciled
INVARIANT BookedOnce
PROPERTY PaidStaysPaid
