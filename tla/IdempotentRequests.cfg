CONSTANTS
  r1 = r1
  r2 = r2
  r3 = r3
  b1 = b1
  b2 = b2
  Requests <- Trio
  Bodies <- TwoBodies
  Asked <- SameOrOneOther
  Lease = 1
  MaxSlips = 2
SPECIFICATION FairSpec
CHECK_DEADLOCK FALSE
INVARIANT TypeOK
INVARIANT OneEffect
INVARIANT ReplaysTheWork
PROPERTY Served
