SPECIFICATION FairSpec
CONSTANTS
    Components = {"a", "b"}
    MaxSamples = 3
    MaxTables = 1
PROPERTIES AllFollowed NewestSent
CHECK_DEADLOCK FALSE
