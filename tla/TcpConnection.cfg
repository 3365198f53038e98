CONSTANTS
    LoopThread = io
    Threads = {io, t1}
    Setups <- Programs
    MessageLen = 2
    HighWater = 2
    MaxOutput = 3
    MaxMail = 2
SPECIFICATION FairSpec
CHECK_DEADLOCK FALSE
INVARIANTS
    CallbacksInOrder
    AssertionsHold
    OutputInv
PROPERTIES
    ShutdownCompletes
    ClosedIsRemoved
