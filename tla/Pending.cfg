SPECIFICATION FairSpec
CONSTANTS
  c1 = c1
  c2 = c2
  t1 = t1
  t2 = t2
  p1 = p1
  p2 = p2
  p3 = p3
  LoopThread = io
  Conns = {c1, c2}
  Outgoing = {c1}
  Threads = {t1, t2}
  Packets = {p1, p2, p3}
  From <- Sender
  To <- Receiver
  WakeCap = 1
  MaxClose = 1
INVARIANTS
  PacketsInv
  NoLostWakeup
PROPERTIES
  SendThenClose
  ImplementsMailbox
  RequestsHandled
