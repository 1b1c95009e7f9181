CONSTANTS
  c1 = c1
  c2 = c2
  s1 = s1
  s2 = s2
  Callers <- OneCaller
  Settlements <- TwoSales
  Price = 4
  Total = 4
  FeePercent = 25
  Parts <- Halves
  Changes <- UpAndDown
  MaxRefunds = 2
  MaxChanges = 1
  MaxCrashes = 1
  Scenarios <- AllScenarios
SPECIFICATION Spec
CHECK_DEADLOCK FALSE
INVARIANT TypeOK
INVARIANT PayableIsNet
INVARIANT RecoverableIsDebt
INVARIANT SellerPaidNetLessDebt
INVARIANT PaidOutReachedBank
SYMMETRY Sellers
