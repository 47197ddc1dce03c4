SPECIFICATION FairSpec
CONSTANTS
    one = one
    two = two
    w1 = w1
    w2 = w2
    desk = desk
    Channels = {one, two}
    NoChannel = NoChannel
    Invites = {}
    Chat <- MCChat
    Workers = {w1, w2}
    Lead = w1
    Desk = {desk}
    RealKind <- MCRealKind
    Verdicts = {"failed", "invalid", "later"}
    DeskWork <- MCDeskWork
    QueueLimit = 2
    FirstRows <- MCRows
    MaxRuns = 1
    MaxBeside = 1
INVARIANTS VerdictsEarned OneRowKept
PROPERTIES MergedStays IsPool EveryRoundEnds
CHECK_DEADLOCK FALSE
