SPECIFICATION FairSpec
CONSTANTS
    Crews = {{w1}, {w1, w2}}
    IdleLimit = 1
    MaxCrashes = 2
    MaxClaims = 4
    MaxRevivals = 1
    Signatures = {f1, f2}
    MaxAttempts = 3
INVARIANTS
    ResolvedIsAccepted
    NothingLeftToGrill
    OneOutcome
PROPERTIES
    GrilledBeforeLast
    ClaimsAreDecided
    UndisturbedStops
