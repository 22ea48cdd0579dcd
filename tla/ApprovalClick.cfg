SPECIFICATION Spec
CONSTANTS
    SymbolCount = 2
    Chart = 1
    MaxSetups = 2
    MaxCrashes = 0
PROPERTY ApprovedWhatIsShown
