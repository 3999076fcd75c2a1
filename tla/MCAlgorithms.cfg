SPECIFICATION Spec
CONSTANTS
  d1 = d1  d2 = d2  bad = bad
  Imeis = {d1}
  Seconds = {1, 2}
  MaxObjects = 3
  Devices = {d1, d2}
  BadImei = bad
  Times = {1, 2, 3}
  Day = {1, 2}
  PathLimit = 3
  PageLimit = 2
  MaxBatch = 2
  MaxRows = 4
CHECK_DEADLOCK FALSE
INVARIANTS Understood DamageRefused ObjectsAccounted WrappedKept MirrorRestores PathFaithful ListComplete
