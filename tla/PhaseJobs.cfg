SPECIFICATION FairSpec
CHECK_DEADLOCK FALSE
CONSTANTS
    Controllers = {h1, h2}
    Units = {u1, u2}
    DurablePhases <- MCPhases
    Slots <- MCSlots
    Needs <- MCNeeds
    Limit <- MCLimit
    MaxFaults = 1
INVARIANTS EffectsNeverOverlap 
PROPERTIES UndisturbedSettles
