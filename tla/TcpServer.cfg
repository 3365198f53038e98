CONSTANTS
    Base = base
    io1 = io1
    io2 = io2
    IoLoops <- TwoIoLoops
    Setups <- Programs
    MaxFds = 4
    MaxClients = 3
SPECIFICATION FairSpec
CHECK_DEADLOCK FALSE
INVARIANTS
    AssertionsHold
    LifetimeInv
PROPERTIES
    ClosedIsFreed
    ClientsServed
