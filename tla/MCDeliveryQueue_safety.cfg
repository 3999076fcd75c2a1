SPECIFICATION Spec
CONSTANTS
  w1 = w1  w2 = w2  r = r
  Workers <- TwoWorkers
  Reclaimer = r
  MaxMsgs = 3
  MaxLen = 5
  BatchSize = 2
  MaxRetries = 2
  PendingWindow = 5
  FaultKinds <- AllFaultKinds
  MaxFaults = 1
  MaxExits = 1
  MaxResets = 0
  MaxDeliveries = 10
SYMMETRY Symmetry
INVARIANTS TypeOK NoSilentLoss DeliveryBound
PROPERTIES OnlyFailuresLeaveEntries
