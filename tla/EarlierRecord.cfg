CONSTANTS
    MaxAttempts = 3
    RepairMax = 3
    Crews = {{w1, w2}}
    Pollers = {}
    Diffs = {d1, d2}
    MaxCrashes = 0
SPECIFICATION Spec
INVARIANT RecordIsOfItsAttempt
