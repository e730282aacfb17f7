CONSTANTS
    Source = Source
    Elsewhere = Elsewhere
    Forks = {fork}
    AssetIds = {a1}
    EventIds = {v1}
    CommentIds = {m1}
    LogIds = {g1}
    Requests = {r1, r2}
    Tokens = {t1}
    Slots = {1, 2}
    SourceFiles <- MCSourceFiles
    ForeignFiles <- MCForeignFiles
    Budget = 2
    NoArchive = NoArchive
    NoCase = NoCase
    NoToken = NoToken
    MaxEdits = 2
    MaxBegun = 3
SPECIFICATION Spec
SYMMETRY MCSymmetry
INVARIANTS TypeOK LinksStayInCase CommentsHaveObjects NoStrayFiles OneWriterPerCase RestoredFilesAreWhole
CHECK_DEADLOCK FALSE
