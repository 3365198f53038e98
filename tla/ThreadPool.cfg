CONSTANTS
    Producers = {p1, p2}
    Workers = {w1, w2}
    Tasks = {a, b, c, d}
    NoTask = none
    MaxQueue = 2
SPECIFICATION FairSpec
CHECK_DEADLOCK FALSE
INVARIANTS
    QueueKept
    NobodyOversleeps
PROPERTY StopReturns
