SPECIFICATION Spec
CONSTANTS
  c1 = c1
  c2 = c2
  Conns = {c1, c2}
  Outgoing = {c1}
  Foreign = {c2}
  CloseOthers = FALSE
  MaxUnread = 1
  None = None
INVARIANT
  HandledOpen
