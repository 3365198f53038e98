CONSTANTS
    Workers = 3
    Messages = 3
    Capacities = {1, 2, 6}
SPECIFICATION FairSpec
CHECK_DEADLOCK FALSE
INVARIANT QueueInv
PROPERTY ProgramEnds
