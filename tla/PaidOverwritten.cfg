CONSTANTS
  c1 = c1
  c2 = c2
  Callers <- TwoCallers
  MaxCheckouts = 2
  MaxAttempts = 1
  Scenarios <- TwoTabs
SPECIFICATION Spec
CHECK_DEADLOCK FALSE
PROPERTY NeverPendingAgain
