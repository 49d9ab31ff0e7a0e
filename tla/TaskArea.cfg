CONSTANTS
    Units <- MCUnits
    DependsOn <- MCDependsOn
    DeliveryAfter <- MCDeliveryAfter
    Overlaps <- MCOverlaps
    Reviewed <- MCReviewed
    MaxWorkers = 2
    MaxLaunches = 2
    RepairBudget = 2
    MaxCycles = 2
    MaxFaults = 2
SPECIFICATION FairSpec
INVARIANTS
    LaunchesCounted
    EffectsOnce
    IntegratedOnOwnEvidence
PROPERTIES
    KnownOutcomeBeforeRetry
    ImplementsWave
    ComesToRest
