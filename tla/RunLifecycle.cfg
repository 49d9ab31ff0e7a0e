CONSTANTS
    MaxAttempts = 3
    RepairMax = 2
    Workers = {w1, w2}
    Timer = w1
    MaxCrashes = 1
SPECIFICATION FairSpec
INVARIANTS
    StoreAgrees
    OneCommitter
    ReceiptsMatchDigests
    VerifiedByItsOwnAttempt
PROPERTIES
    ImplementsContract
    RunningResolves
    Settles
