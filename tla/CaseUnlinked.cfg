CONSTANTS
  c1 = c1
  c2 = c2
  d1 = d1
  d2 = d2
  Callers <- OneCaller
  Disputes <- OneDispute
  EarlyRelease = FALSE
  Operations <- CaseOnly
  MaxEvents = 9
SPECIFICATION Spec
CHECK_DEADLOCK FALSE
PROPERTY CaseAlwaysStopsRelease
