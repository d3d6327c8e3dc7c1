SPECIFICATION FairSpec
CONSTANTS
  k1 = k1
  k2 = k2
  k3 = k3
  None = None
  ThreadNum = 2
  Tasks = {k1, k2, k3}
  Parent <- ParentOf
CHECK_DEADLOCK FALSE
INVARIANTS
  QueueInv
  NoSleepOnTask
  DeletedIdle
PROPERTIES
  AddedRuns
