CONSTANTS
    MaxAttempts = 2
    RepairMax = 2
    Crews = {{w1}}
    Pollers = {w2}
    Diffs = {d1, d2}
    MaxCrashes = 0
SPECIFICATION Spec
INVARIANT OwnActionSucceeded
