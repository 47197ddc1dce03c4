SPECIFICATION FairSpec
CONSTANTS
    Requests = {q1, q2}
    MaxRuns = 3
    MaxCrashes = 2
    q1 = q1 q2 = q2
INVARIANTS NeverStuck BootClosesOldRuns UnmixedRunsTell ReportedOnce
PROPERTIES IsNoticeBook EveryRunCloses
CHECK_DEADLOCK FALSE
