CONSTANTS
    MaxAttempts = 2
    RepairMax = 2
    Crews = {{w1}}
    Pollers = {}
    Diffs = {d1}
    MaxCrashes = 1
SPECIFICATION FairSpec
PROPERTY ParkedIsResumed
