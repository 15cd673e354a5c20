SPECIFICATION PlaybackFairSpec
CONSTANTS
    Tables = {"t1"}
    Messages = {"m1"}
    Stages = {"g1"}
    Conn <- MCConn
    Control = "editor"
    Requests <- MCRequests
    MaxTick = 2
    MaxSets = 2
    MaxTasks = 2
PROPERTIES ScrubStands ScrubShown PlaybackRuns PauseHolds
CHECK_DEADLOCK FALSE
