CONSTANTS
    b1 = b1
    b2 = b2
    b3 = b3
    Builds = {b1, b2, b3}
    Latest <- MCLatest
    Release <- MCRelease
    Versions <- MCVersions
    Files = {enterprise, ics}
    sigma = sigma
    mappings = mappings
    Modules = {chainsaw}
    Trees <- MCTrees
    Updates = {u1, u2}
    NoBuild = NoBuild
    NoTree = NoTree
    MaxBegun = 3
    MaxStarts = 1
SPECIFICATION Spec
SYMMETRY MCSymmetry
INVARIANTS VersionTellsApplied AppliedOnce ServesOwnSchema CompleteUpdatesPin
CHECK_DEADLOCK FALSE
