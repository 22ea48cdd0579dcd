SPECIFICATION Spec
CONSTANTS
  Symbols = {s1}
  NoSymbol = none
  MaxNonce = 2
  MaxTime = 12
  Window = 3
  GeoWindow = 3
  Slack = 0
  HandlerDelay = 1
  CallDelay = 1
  BrokerLatency = 1
  MaxPositions = 2
  CommentKept = TRUE
  HistoryMayMiss = TRUE
  ChaosAllowed = FALSE
INVARIANT FailedMeansNoDeal
