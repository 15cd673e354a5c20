\* Values of at least 8 bytes and smaller ones; exchanges fail spuriously; the process dies twice, anywhere.
SPECIFICATION FairSpec
CONSTANTS
    MaxTime = 3
    DataCaps = {2, 3}
    IndexCap = 2
    HeaderRoom = 1
    MaxRun = 3
    WeakCas = TRUE
    MaxRecords = 5
    MaxCrashes = 2
INVARIANTS
    Aligned
    NodesSorted
    StoredOnce
    LatestIsNewest
PROPERTY PushesEnd
CHECK_DEADLOCK FALSE
