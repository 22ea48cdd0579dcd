SPECIFICATION FairSpec
CONSTANTS
  Symbols = {s1}
  NoSymbol = none
  MaxNonce = 2
  MaxTime = 8
  Window = 3
  GeoWindow = 3
  Slack = 1
  HandlerDelay = 0
  CallDelay = 1
  BrokerLatency = 2
  MaxPositions = 1
  CommentKept = FALSE
  HistoryMayMiss = FALSE
  ChaosAllowed = TRUE
INVARIANTS AtMostOneExposure LiveOrderIsDurable SettlementIsTrue LedgerPrecedesOrder
PROPERTIES SubmitsOnce AmbiguityResolves
