CONSTANTS
    j1 = j1
    j2 = j2
    w1 = w1
    w2 = w2
    JobIds = {j1, j2}
    Workers = {w1, w2}
    Clients = {cl}
    Cases = {c1}
    Modules = {Webhook, Plaso}
    AlwaysValid = {Webhook}
    EarlyTick = TRUE
    MaxExits = 2
    NoJob = NoJob
    NoCase = NoCase
SPECIFICATION Spec
SYMMETRY MCSymmetry
INVARIANTS ClaimedOncePerLife RunningIsHeld JobsHaveCase
PROPERTY ResultIsFinal
CHECK_DEADLOCK FALSE
