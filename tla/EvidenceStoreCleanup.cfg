CONSTANTS
    a = a
    b = b
    c = c
    Ids = {e1, e2, e3}
    Names = {a, b, c}
    Entered = {a}
    Contents = {f1, f2}
    Typed = {NoHash}
    Requests = {r1, r2}
    Outputs <- MCOutputs
    Partial = Partial
    NoHash = NoHash
    NoFile = NoFile
    Absent = Absent
    NoId = NoId
    MaxBegun = 4
    MaxCrashes = 1
SPECIFICATION Spec
SYMMETRY MCSymmetry
CHECK_DEADLOCK FALSE
PROPERTY CleanupSparesEvidence
