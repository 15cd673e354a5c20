\* Three readers opened and closed by up to two threads at a time, and a walking writer.
SPECIFICATION ListFairSpec
CONSTANTS
    Nodes = {n1, n2, n3}
    Head = Head
    Null = Null
    MaxOps = 2
INVARIANTS
    ListIsRegistered
    WalkMeetsAll
PROPERTY ListWorkEnds
CHECK_DEADLOCK FALSE
