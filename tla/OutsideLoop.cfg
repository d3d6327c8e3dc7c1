SPECIFICATION MCSpec
CONSTANTS
  Junk <- NoByte
  Base = 4
  Ints <- AllInts
  Strings <- SomeStrings
  PktId = 1
  MaxFields = 2
  MaxSets = 1
  t1 = t1
  t2 = t2
  Loggers = {t1, t2}
  MaxDay = 3
  MaxLogs = 2
  HeadLen = 2
  PktLen = 3
  MaxRequests = 3
  Threads = {t1, t2}
  Main = t1
  IoThreads = 2
  HalfRange = 4
  LateListen = FALSE
  MaxListen = 1
  MaxOpen = 2
  MaxFetches = 5
  MaxBacklog = 2
CHECK_DEADLOCK FALSE
INVARIANTS
  ValuesSurvive
  AcceptedIffWhole
  HeaderOnWire
  InDayFile
  AnswersMatch
  HandleInv
  UniqueUntilWrap
  NoClientForgotten
