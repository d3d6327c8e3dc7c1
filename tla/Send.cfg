SPECIFICATION FairSpec
CONSTANTS
  Junk <- NoByte
  MaxSendSize = 2
  SndBuf = 2
  Lens = {1, 3}
  MaxBytes = 7
CHECK_DEADLOCK FALSE
INVARIANTS
  InOrder
  QueueInv
PROPERTIES
  AllArrive
