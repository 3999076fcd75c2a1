SPECIFICATION Spec
CONSTANTS
  d1 = d1 
  Devices <- OneDevice
  Msgs <- ThreeMsgs
  Records <- Trip
  MaxInFlight = 1
  MaxRetries = 2
  MaxFailures = 1
  MaxCrashes = 0
CHECK_DEADLOCK FALSE
INVARIANTS StateIsLastSent
