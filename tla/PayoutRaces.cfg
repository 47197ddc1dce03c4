SPECIFICATION Spec
CONSTANTS
    Channels = {c1}
    Requests = {q1, q2}
    Currencies = {"TON"}
    ForceChoices = {FALSE}
    MaxLegacy = 0
    MaxLive = 2
    MaxPayments = 1
    MaxRestarts = 0
SYMMETRY Symmetry
INVARIANTS
    NoDoublePayout
    StatusMatchesLedger
    DualWriteExactlyOnce
