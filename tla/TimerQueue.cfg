CONSTANTS
    t1 = t1
    t2 = t2
    LoopThread = loop
    Threads = {main}
    Timers = {t1, t2}
    NoTimer = none
    Interval <- OneRepeats
    MaxTime = 2
SPECIFICATION FairSpec
INVARIANTS
    TimerInv
    CancelIsFinal
PROPERTY TimersRun
