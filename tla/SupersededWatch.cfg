SPECIFICATION FairSpec
CONSTANTS
    Ticks = {t1, t2}
    Hook = hook
    MaxPolls = 2
    MaxFaults = 1
INVARIANTS SupersededStaysRetired
