SPECIFICATION Spec
CONSTANTS
  k1 = k1
  k2 = k2
  Callbacks = {k1, k2}
  Intervals = {2, 3}
  MaxGap = 2
  RemoveOthers = FALSE
  MaxNodes = 4
  MaxTime = 6
CHECK_DEADLOCK FALSE
INVARIANTS
  WalkInv
  OnTime
PROPERTIES
  NoneMissed
