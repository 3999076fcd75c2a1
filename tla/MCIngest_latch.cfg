SPECIFICATION FairSpec
CONSTANTS
  s1 = s1  s2 = s2  s3 = s3
  Slots <- TwoSlots
  MaxLen = 4
  BackpressureLimit = 2
  MaxTCP = 0
  MaxFaults = 0
  MaxRestarts = 1
CHECK_DEADLOCK FALSE
PROPERTIES BackpressureLifts
