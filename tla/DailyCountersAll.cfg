SPECIFICATION FairStoreSpec
CONSTANTS
    DailyLock = 1
    MaxDates = 2
    MaxCount = 2
    MaxStops = 2
    MaxSaves = 2
INVARIANTS NeverOvercounts ExactUnlessDisturbed LockSurvives
PROPERTIES EveryCountSaved
CHECK_DEADLOCK FALSE
