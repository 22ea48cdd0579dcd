SPECIFICATION Spec
CONSTANTS
    Symbols = {s1, s2}
    MaxPrompts = 2
    MaxFaults = 2
    VariablesMayBeLost = TRUE
INVARIANTS SettledStaysSettled ResurrectedIsCooled SnapshotSurvivesFault
SYMMETRY SymbolSymmetry
