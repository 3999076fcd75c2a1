SPECIFICATION FairSpec
CONSTANTS
  Ops <- FourOps
  Capacity = 1
  MaxFaults = 1
CHECK_DEADLOCK FALSE
INVARIANTS TypeOK Conserved CloseDrains
PROPERTIES Tried
