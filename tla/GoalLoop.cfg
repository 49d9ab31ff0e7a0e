CONSTANTS
    Goal = g
    Goals = {g}
    MaxGoalRevisions = 2
    Commands = {c1, c2, c3}
    Standing = {c3}
    Budget = 2
    MaxCrashes = 1
SPECIFICATION FairSpec
INVARIANTS
    ActiveIsBacked
    FailLoopIsCapped
PROPERTIES
    FreshRunPerCycle
    CompletionIsAnnounced
    CommandsAreAnswered
    ActiveGoalsEnd
