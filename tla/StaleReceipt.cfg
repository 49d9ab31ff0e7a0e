CONSTANTS
    Goal = g
    Goals = {g}
    MaxGoalRevisions = 2
    Commands = {c1, c2}
    Standing = {}
    Budget = 2
    MaxCrashes = 0
SPECIFICATION Spec
INVARIANTS
    CompletedByItsOwnRun
