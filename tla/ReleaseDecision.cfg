SPECIFICATION FairSpec
CONSTANTS
    Commits = {c1, c2}
    Countries = {u1, u2}
    WithSet = TRUE
    Disturbed = {"head", "ex5", "set", "handout", "docs", "compile", "privacy", "risk", "static", "evidence", "review"}
    MaxDisturbances = 2
INVARIANTS
    GoWasReviewed
PROPERTIES
    IssuedForTheWorld
    ShippedIsCertified
    PackagedDashboardIsTrue
    CandidateDelivered
