CONSTANTS
    Units <- MCUnits
    DependsOn <- MCDependsOn
    DeliveryAfter <- MCDeliveryAfter
    Overlaps <- MCOverlaps
    Reviewed <- MCReviewed
    MaxWorkers = 2
    MaxLaunches = 2
    RepairBudget = 2
    MaxCycles = 2
    MaxFaults = 1
SPECIFICATION Spec
INVARIANT BoundBeforeStart
