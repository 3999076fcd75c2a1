SPECIFICATION FairSpec
CONSTANTS
  w1 = w1  w2 = w2  r = r
  Workers <- OneWorker
  Reclaimer = r
  MaxMsgs = 2
  MaxLen = 1
  BatchSize = 1
  MaxRetries = 2
  PendingWindow = 5
  FaultKinds <- AllFaultKinds
  MaxFaults = 1
  MaxExits = 1
  MaxResets = 1
  MaxDeliveries = 10
PROPERTIES KeepsPromise Settles Drains
