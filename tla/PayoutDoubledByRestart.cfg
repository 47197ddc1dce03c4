SPECIFICATION Spec
CONSTANTS
    Channels = {c1}
    Requests = {q1}
    Currencies = {"TON"}
    ForceChoices = {FALSE}
    MaxLegacy = 0
    MaxLive = 1
    MaxPayments = 1
    MaxRestarts = 1
PROPERTIES
    RestartAddsNoPayout
