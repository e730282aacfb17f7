CONSTANTS
    j1 = j1
    j2 = j2
    w1 = w1
    w2 = w2
    JobIds = {j1, j2}
    Workers = {w1, w2}
    Clients = {cl}
    Cases = {c1}
    Modules = {Webhook, Plaso}
    AlwaysValid = {Webhook}
    EarlyTick = FALSE
    MaxExits = 2
    NoJob = NoJob
    NoCase = NoCase
SPECIFICATION FairSpec
INVARIANT NoDoubleClaim
CHECK_DEADLOCK FALSE
PROPERTIES ImplementsLifecycle JobsSettle
