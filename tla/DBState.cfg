\* Two connections, one kill and one failed write at any point.
SPECIFICATION Spec
CONSTANTS
    Components = {"a", "b"}
    Schemas = {"f64", "u8"}
    Names = {"gyro"}
    Keys = {"schematic"}
    Conns = {"p", "q"}
    VTables <- MCVTables
    MaxOps = 4
    MaxCrashes = 2
    MaxFaults = 1
INVARIANTS
    Reopens
    ToldKept
    RegisteredBacked
    ConfigSaved
CHECK_DEADLOCK FALSE
