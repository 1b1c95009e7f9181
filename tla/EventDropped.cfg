CONSTANTS
  e1 = e1
  r1 = r1
  r2 = r2
  w1 = w1
  x1 = x1
  x2 = x2
  Events <- OneEvent
  Requests <- OneRequest
  Workers <- OneWorker
  MaxDeliveries = 2
  MaxTries = 2
  MaxCrashes = 1
  Environments <- NoQueue
  Relays <- OneRelay
  BatchSize = 1
  MaxAttempts = 2
  MaxErrors = 1
  MaxDeaths = 1
  MaxRows = 0
SPECIFICATION FairPipelineSpec
CHECK_DEADLOCK FALSE
PROPERTY AnsweredIsFinished
