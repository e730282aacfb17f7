SPECIFICATION CaseSpec
CONSTANTS
    Events = {e1}
    Assets = {a1}
    Indicators = {i1}
    Malware = {m1, m2}
    Comments = {c1}
    Names = {n1}
    Values = {h1, h2}
    Hashes = {h1, h2}
    Texts = {edited, imported}
    FromSketch = imported
    Requests = {r1, r2}
    Tasks = {t1}
    Notes = {k1}
    Editors = {ed}
    NoRow = NoRow
    None = None
    MaxOps = 3
    MaxFails = 1
INVARIANTS CaseTypeOK CommentsHaveObjects EventsAreAsSaved SamplesKeepTheirFiles ClosedMeansAsked
SYMMETRY Symmetry
CHECK_DEADLOCK FALSE
