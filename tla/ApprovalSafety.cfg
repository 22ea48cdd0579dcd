SPECIFICATION FairSpec
CONSTANTS
    SymbolCount = 2
    Chart = 1
    MaxSetups = 2
    MaxCrashes = 1
INVARIANTS TypeOK OnlyApprovedIsSent OnePromptPerSymbol
PROPERTIES PromptEnds StaleWaitEnds
