SPECIFICATION Spec
CONSTANTS
    Symbols = {s1}
    MaxPrompts = 1
    MaxFaults = 0
    VariablesMayBeLost = TRUE
INVARIANT DayBaselineRecovered
