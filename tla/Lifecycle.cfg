SPECIFICATION FairSpec
CONSTANTS
  c1 = c1
  c2 = c2
  Conns = {c1, c2}
  Outgoing = {c1}
  Foreign = {c2}
  CloseOthers = FALSE
  MaxUnread = 2
  None = None
INVARIANTS
  LifetimeInv
  NoLostEdge
PROPERTIES
  ClosedForGood
  PeerGoneClosed
  EstablishedConfirmed
