SPECIFICATION Spec
CONSTANTS
  Entry = 2
  InitialSL = 1
  MinPrice = 1
  MaxPrice = 7
  TP1 = 3
  TP2 = 5
  TP3 = 7
  BETrigger = 3
  ProfitLockTrigger = 4
  StrongLockTrigger = 5
  TrailStart = 5
  ProfitLock = 3
  StrongLock = 4
  FreezeDistance = 0
  Lots = 4
  TP1Percent = 50
  TP2Percent = 50
  PauseAfter = 2
  MaxFaults = 1
  HistoryMayMiss = FALSE
  OperatorRemovesStop = FALSE
INVARIANTS DoneIsEarned
