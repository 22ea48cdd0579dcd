SPECIFICATION FairSpec
CONSTANTS
    Commits = {c1, c2}
    Generics = 2
    Desks = {d1, d2}
    MaxChanges = 1
    MaxJumps = 1
INVARIANTS
    RestsOnAccepted
    TestedBinaryShips
PROPERTIES
    ReleaseValidates
