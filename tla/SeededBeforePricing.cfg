CONSTANTS
  a1 = a1
  a2 = a2
  o1 = o1
  o2 = o2
  Admins <- TwoAdmins
  Updates <- SomeUpdates
  MaxUpdates = 2
  Callers <- TwoOrders
  MaxEdits = 1
  MaxCrashes = 1
  Shapes <- SomeShapes
  Prices <- SomePrices
  VatRate = 5
  Environments <- Apart
SPECIFICATION Spec
CHECK_DEADLOCK FALSE
INVARIANT SeededBeforePricing
