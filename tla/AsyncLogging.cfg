CONSTANTS
    SmallBuffer = 28
    MaxNumericSize = 6
    Statements <- FourStatements
    Capacity = 38
    NoticeSize = 3
    NoBuffer = null
    DropAbove = 2
    RollSize = 40
    FlushSeconds = 0
    CheckEveryN = 2
    Day = 3
    LocalTime <- SetBack
    NumbersUpTo = 1100
    MaxLines = 6
    MaxClock = 3
SPECIFICATION FairSpec
CHECK_DEADLOCK FALSE
INVARIANTS
    BuffersInv
    LinesInOrder
    DropsAnnounced
    FilesInv
    RecordsInv
PROPERTIES
    LinesReachDisk
    StopJoins
