CONSTANTS
    Threads = {main}
    MaxDelay = 3
    Setups <- Programs
SPECIFICATION FairSpec
CHECK_DEADLOCK FALSE
INVARIANTS
    AttemptInv
    StopIsFinal
    DestroyedIsNotCalled
PROPERTY ConnectsInTheEnd
