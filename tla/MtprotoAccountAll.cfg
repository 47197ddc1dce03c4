SPECIFICATION FairSpec
CONSTANTS
    job = job other = other
    Callers = {job, other}
    OpsOf <- MCOpsOf
    DailyLimit = 2
    Limit <- MCLimit
    Reserve = 1
    StreakLimit = 2
    JoinDaily = 1
    JoinGap = 1
    FloodWaits = {1}
    MaxTime = 2
    MaxDays = 2
    MaxOps = 2
    MaxRestarts = 1
INVARIANTS BudgetHeld JoinsHeld
PROPERTIES FloodRespected StopsEnd
