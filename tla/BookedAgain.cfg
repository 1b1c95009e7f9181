CONSTANTS
  c1 = c1
  c2 = c2
  Callers <- TwoCallers
  MaxCheckouts = 1
  MaxAttempts = 1
  Scenarios <- DeclinedFirst
SPECIFICATION Spec
CHECK_DEADLOCK FALSE
INVARIANT AlwaysBookedOnce
