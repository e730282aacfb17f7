SPECIFICATION Spec
CONSTANTS
    Events = {e1}
    Assets = {a1}
    Indicators = {i1}
    Malware = {m1, m2}
    Comments = {c1}
    Names = {n1}
    Values = {h1, h2}
    Hashes = {h1, h2}
    Texts = {edited, imported}
    FromSketch = imported
    Requests = {r1, r2}
    NoRow = NoRow
    None = None
    MaxOps = 3
    MaxFails = 1
INVARIANT ImportsKeepEdits
SYMMETRY Symmetry
CHECK_DEADLOCK FALSE
