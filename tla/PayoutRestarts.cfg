SPECIFICATION Spec
CONSTANTS
    Channels = {c1}
    Requests = {q1}
    Currencies = {"TON", "STARS"}
    ForceChoices = {FALSE, TRUE}
    MaxLegacy = 1
    MaxLive = 1
    MaxPayments = 1
    MaxRestarts = 2
INVARIANTS
    OneCopyPerTonPayment
    BackfillCompletes
PROPERTIES
    SecondRestartChangesNothing
