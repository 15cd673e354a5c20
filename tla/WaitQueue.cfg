\* One task waits and one waits for a value; two threads store, wake and close; a wake batch holds one waker, so that wake_all takes the lock again.
SPECIFICATION FairSpec
CONSTANTS
    Plain = {w1}
    Watchers = {w2}
    Callers = {k1, k2}
    NoOne = NoOne
    MaxWakers = 1
    MaxStores = 1
    MaxWakes = 1
    MaxCloses = 1
    MaxDrops = 1
INVARIANTS
    SleepersReachable
    WakeKept
PROPERTY WaitForReturns
CHECK_DEADLOCK FALSE
