SPECIFICATION FairSpec
CONSTANTS
    Tasks = {m, t}
    Main = m
    Sleepers = {t}
    SqCap = 2
    TickSize = 2
    MaxOps = 2
    MaxEvents = 1
    MaxTime = 1
INVARIANTS
    OpsIsolated
PROPERTIES
    WokenPolled
    WaitsEnd
CHECK_DEADLOCK FALSE
