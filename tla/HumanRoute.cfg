CONSTANTS
    MaxAttempts = 2
    RepairMax = 2
    Workers = {w1}
    Timer = w1
    MaxCrashes = 1
SPECIFICATION Spec
INVARIANT HumanRouteIsKept
