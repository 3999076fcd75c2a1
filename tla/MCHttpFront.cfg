SPECIFICATION Spec
CONSTANTS
  s1 = s1  s2 = s2  c1 = c1  i1 = i1  i2 = i2  i3 = i3
  Clients = {c1}
  Slots = {s1, s2}
  Burst = 2
  Refill = 2
  IdleLimit = 2
  RequestIds = {i1, i2, i3}
  MaxSize = 2
  SampleAll = FALSE
  MaxTracked = 3
SYMMETRY Symmetry
INVARIANTS TypeOK RateKept Counted Truthful
PROPERTIES FailedLeaveFirst
