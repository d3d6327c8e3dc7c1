SPECIFICATION Spec
CONSTANTS
  k1 = k1
  k2 = k2
  k3 = k3
  None = None
  ThreadNum = 1
  Tasks = {k1}
  Parent <- ParentOf
CHECK_DEADLOCK FALSE
INVARIANTS
  JoinedIsAwake
