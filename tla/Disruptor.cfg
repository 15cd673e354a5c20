SPECIFICATION PushingSpec
CONSTANTS
    Writers = {w1}
    Readers = {p, q}
    Founders = {p}
    NoWriter = NoWriter
    Cap = 7
    Lens = {3}
    MaxTotal = 15
INVARIANTS
    GrantSparesUnread
    ReadsInOrder
PROPERTIES
    ReadersCatchUp
    PushesAccepted
    ImplementsLog
CHECK_DEADLOCK FALSE
