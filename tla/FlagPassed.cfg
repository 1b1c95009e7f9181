CONSTANTS
  t1 = t1
  t2 = t2
  s1 = s1
  w1 = w1
  w2 = w2
  admin = admin
  p1 = p1
  p2 = p2
  Tabs <- OneTab
  Settlements <- OneSale
  Workers <- OneWorker
  Admin = admin
  Passes <- OnePass
  Hourly = p1
  MaxStages = 2
  MaxWindows = 1
  MaxClicks = 2
  MaxAttempts = 2
  MaxSlips = 2
  MaxFlips = 2
  MaxNotes = 1
  MaxLost = 1
  Watched <- Books
  MaxErrors = 2
  Scenarios <- Forced
SPECIFICATION FairSpec
CHECK_DEADLOCK FALSE
PROPERTY NobodyPassesTheFlag
