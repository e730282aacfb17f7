SPECIFICATION Spec
CONSTANTS
    Requests = {r1, r2}
    NoReq = NoReq
    NoResult = NoResult
    Events = {1, 2}
    PageSize = 1
    Sizes = {0, 3}
    ChunkSize = 2
    MaxExpiries = 1
    MaxStars = 1
    MaxFails = 1
    MaxMishaps = 2
INVARIANTS TypeOK LoneRequestsAreServed TransfersAreWhole
PROPERTY RequestsEnd
CHECK_DEADLOCK FALSE
