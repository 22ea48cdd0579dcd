SPECIFICATION FairSpec
CONSTANTS
  Entry = 2
  InitialSL = 1
  MinPrice = 1
  MaxPrice = 7
  TP1 = 3
  TP2 = 5
  TP3 = 7
  BETrigger = 3
  ProfitLockTrigger = 4
  StrongLockTrigger = 5
  TrailStart = 6
  ProfitLock = 3
  StrongLock = 4
  FreezeDistance = 0
  Lots = 4
  TP1Percent = 50
  TP2Percent = 50
  PauseAfter = 1
  MaxFaults = 1
  HistoryMayMiss = TRUE
  OperatorRemovesStop = TRUE
INVARIANTS TypeOK PartialsTakenOnce StageIsHonest UnprotectedIsKnown
PROPERTIES StopNeverLoosens MissingStopEnds BreakEvenReached
