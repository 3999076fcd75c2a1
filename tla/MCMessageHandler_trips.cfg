SPECIFICATION FairSpec
CONSTANTS
  d1 = d1 
  Devices <- OneDevice
  Msgs <- ThreeMsgs
  Records <- OddTrip
  MaxInFlight = 2
  MaxRetries = 2
  MaxFailures = 1
  MaxCrashes = 1
CHECK_DEADLOCK FALSE
INVARIANTS MovesDelivered StopCovered
PROPERTIES AllSettle
