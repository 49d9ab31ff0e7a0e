CONSTANTS
    MaxAttempts = 2
    RepairMax = 2
    Crews = {{w1}, {w1, w2}}
    Pollers = {}
    Diffs = {d1, d2}
    MaxCrashes = 1
SPECIFICATION Spec
INVARIANTS
    ReadyPrecedesVerified
    VerifiedByItsOwnAction
    ParkedIsAsked
PROPERTIES
    ImplementsContract
