SPECIFICATION Spec
CHECK_DEADLOCK FALSE
CONSTANTS
    Hosts = {h1}
    Requests = {r1, r2}
    MaxAttempts = 1
    Limits <- MCLimits
    MaxBlinks = 0
PROPERTY UnknownBlocks
