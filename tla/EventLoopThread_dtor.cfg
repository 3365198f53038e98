CONSTANTS
    LoopThread = loop
    Threads = {main}
    NoFunctor = none
    Channels = {}
    WakeupChannel = wakeupChannel
    NoChannel = nochannel
    EventfdMax = 3
    Owner = main
    Functors = {f1, f2}
SPECIFICATION ThreadFairSpec
CHECK_DEADLOCK FALSE
PROPERTY DtorReturns
