SPECIFICATION Spec
CHECK_DEADLOCK FALSE
CONSTANTS
    Hosts = {h1, h2}
    Requests = {r1, r2}
    MaxAttempts = 3
    Limits <- MCLimits
    MaxBlinks = 1
SYMMETRY Symmetry
INVARIANTS OneRoleCall CallsWithinBudget RetriedOnItsVerdict 
