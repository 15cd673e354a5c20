\* Two connections push messages of both sizes with times in any order; nodes of two entries; offsets wrap; the process dies once, anywhere.
SPECIFICATION FairSpec
CONSTANTS
    Conns = {c1, c2}
    Times = {1, 2}
    WalCap = 2
    DataCap = 3
    OffsetCap = 2
    OffsetMod = 2
    MaxMsgs = 3
    MaxCrashes = 1
INVARIANTS
    ReadBack
PROPERTIES
    StreamForward
    AcceptedSettled
CHECK_DEADLOCK FALSE
