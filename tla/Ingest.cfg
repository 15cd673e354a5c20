\* Two connections feed a component that one of them created or the server reopened.
SPECIFICATION FairSpec
CONSTANTS
    Conns = {c1, c2}
    Main = Main
    None = None
    WalCap = 3
    MaxTime = 2
    MaxSends = 5
INVARIANTS
    NothingLost
    StoredSorted
PROPERTIES
    StoredWhileHosted
CHECK_DEADLOCK FALSE
