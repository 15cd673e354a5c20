\* Two fields, one of them a mean of two samples; the set-up may fail, the client or the connection may go at any time.
SPECIFICATION FairSpec
CONSTANTS
    FieldCount = 2
    Mean = {2}
    Window = 2
    RingCap = 2
    MaxSamples = 5
INVARIANTS
    NoMissingTable
    
 
CHECK_DEADLOCK FALSE
