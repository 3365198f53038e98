CONSTANTS
    LoopThread = loop
    Threads = {t1, t2}
    Functors = {f1, f2}
    NoFunctor = none
    Channels = {sock}
    WakeupChannel = wakeupChannel
    NoChannel = nochannel
    EventfdMax = 2
SPECIFICATION FairSpec
INVARIANTS
    NoLostWakeup
    NoMissedQuit
PROPERTIES
    ImplementsFunctorQueue
    CallsTakeEffect
    FunctorsDoNotStarvePoll
