SPECIFICATION Spec
CONSTANTS
  c1 = c1
  c2 = c2
  Conns = {c1, c2}
  Outgoing = {c1}
  Foreign = {c1, c2}
  CloseOthers = TRUE
  MaxUnread = 2
  None = None
INVARIANTS
  NoLeak
PROPERTIES
  FinAfterData
