SPECIFICATION Spec
CONSTANTS
  Ops <- FourOps
  Capacity = 1
  MaxFaults = 0
CHECK_DEADLOCK FALSE
INVARIANTS CloseFinishesWrites
