SPECIFICATION Spec
CONSTANTS
  s1 = s1  s2 = s2  s3 = s3
  Slots <- ThreeSlots
  MaxLen = 10
  BackpressureLimit = 2
  MaxTCP = 1
  MaxFaults = 1
  MaxRestarts = 1
SYMMETRY Symmetry
CHECK_DEADLOCK FALSE
INVARIANTS TypeOK DepthBounded NoHttpEviction
