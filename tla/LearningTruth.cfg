SPECIFICATION FairSpec
CONSTANTS
    TradeCount = 2
    Gains <- BothWays
    MaxExits = 2
    MaxQueue = 2
    MaxFaults = 1
    MaxCrashes = 1
INVARIANTS LearnedTruly AccountingIsTrue TouchedIsNotLearned
PROPERTIES EveryTradeFinalized
