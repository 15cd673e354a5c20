\* One node and several, with and without a limit, and a writer that may not wait.
SPECIFICATION QuerySpec
CONSTANTS
    NodeCap = 3
    MinStep = 1
    MaxStamp = 6
    MaxSamples = 6
    MaxLate = 3
    Limits = {0, 1, 2}
INVARIANTS
    AnswerExact
    NothingMissedInNode
CHECK_DEADLOCK FALSE
