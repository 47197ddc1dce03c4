SPECIFICATION FairSpec
CONSTANTS
    Collectors = {c1, c2}
    Previewers = {p1}
    Inspectors = {i1}
    CollectPatience = {0, 2}
    CollectStart = 2
    CollectMax = 2
    PreviewLimit = 1
    InspectLimit = 1
    TotalMin = 1
    TotalSpare = 0
    GapStart = 5
    GapMin = 4
    GapMax = 10
    GapStep = 1
    CoolMin = 2
    CoolMax = 3
    RetryAfters = {0, 3}
    TimeoutLimit = 2
    SuccessesNeeded = 2
    IncreaseEvery = 2
    DailyLock = 1
    MaxRequests = 4
    MaxDays = 1
    c1 = c1 c2 = c2 p1 = p1 i1 = i1
INVARIANTS NoLostWakeup
PROPERTIES SlowsDownOncePerCooldown LockedForTheDay EveryRequestEnds IsSlotPool
CHECK_DEADLOCK FALSE
