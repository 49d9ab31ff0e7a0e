CONSTANTS
    Goals = {g1, g2, g3}
    MaxGoalRevisions = 1
SYMMETRY GoalSymmetry
SPECIFICATION HierarchySpec
PROPERTIES
    RollupReachesTheTop
    StoppedBreaksDependents
