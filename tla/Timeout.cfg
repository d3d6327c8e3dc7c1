SPECIFICATION TimeoutSpec
CONSTANTS
  c1 = c1
  c2 = c2
  Conns = {c1, c2}
  Punctual = {c1}
  SendEvery = 1
  Timeout = 2
  Interval = 2
  WaitTimeout = 1
  MaxBusy = 1
  MaxClock = 12
CHECK_DEADLOCK FALSE
INVARIANTS
  PunctualKept
  SilentClosed
