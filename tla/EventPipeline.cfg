CONSTANTS
  e1 = e1
  r1 = r1
  r2 = r2
  w1 = w1
  x1 = x1
  x2 = x2
  Events <- OneEvent
  Requests <- TwoRequests
  Workers <- OneWorker
  MaxDeliveries = 2
  MaxTries = 2
  MaxCrashes = 1
  Environments <- Everything
  Relays <- TwoRelays
  BatchSize = 1
  MaxAttempts = 2
  MaxErrors = 1
  MaxDeaths = 1
  MaxRows = 1
SPECIFICATION FairPipelineSpec
CHECK_DEADLOCK FALSE
INVARIANT TypeOK
INVARIANT HandledOncePerFailure
INVARIANT PublishedMeansQueued
PROPERTY ProcessedForGood
PROPERTY AnsweredIsAnnounced
