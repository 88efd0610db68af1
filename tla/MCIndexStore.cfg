SPECIFICATION Spec
CONSTANTS
    NoRow = NoRow
    NColumns = 2
    Keys <- MCKeys
    Block <- MCBlock
    HeightOf <- MCHeightOf
    Touch <- MCTouch
    MaxCached <- MCMaxCached
    Partial <- MCPartial
    MaxBulkAddresses = 1
    Keep = 2
    MaxCount = 1
    WriteErrors = TRUE
    b1 = b1
    b2 = b2
    f2 = f2
    b3 = b3
    f3 = f3
    b4 = b4
    k1 = k1
    k2 = k2
CONSTRAINT NotLost
INVARIANTS DiskConsistent
PROPERTIES CleanupKeepsNewest Implements
CHECK_DEADLOCK FALSE
