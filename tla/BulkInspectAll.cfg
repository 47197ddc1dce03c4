SPECIFICATION FairSpec
CONSTANTS
    Links = {l1, l2}
    Malformed = Malformed
    Texts <- MCTexts
    NoRow = NoRow
    Clients = {c1, c2}
    Server = Server
    Workers = {w1, w2}
    l1 = l1 l2 = l2
    MaxJobs = 2
    MaxLines = 3
    MaxEvents = 3
    MaxFaults = 1
INVARIANTS CompletedMeansDone RegisteredOnce
PROPERTIES JobsEnd
CHECK_DEADLOCK FALSE
