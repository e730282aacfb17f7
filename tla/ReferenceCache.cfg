CONSTANTS
    Tables = {valueLists}
    Contents = {c1, c2, c3}
    Readers = {r1, r2}
    Writers = {w1, w2}
    None = None
SPECIFICATION FairCacheSpec
INVARIANT QuietReadsAreCurrent
PROPERTY ReadsAndWritesEnd
CHECK_DEADLOCK FALSE
