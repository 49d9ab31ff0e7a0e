SPECIFICATION FairSpec
CONSTANTS
    Crews = {{w1}}
    IdleLimit = 1
    MaxCrashes = 0
    MaxClaims = 1
    MaxRevivals = 0
    Signatures = {f1, f2}
    MaxAttempts = 3
PROPERTIES
    DriverStops
