CONSTANTS
    CheapPrepend = 2
    InitialSize = 3
    ExtraSize = 4
    Unset = unset
    Streams <- TwoRequests
    Paths <- ThreePaths
    HttpCallback <- Pages
SPECIFICATION Spec
CHECK_DEADLOCK FALSE
INVARIANTS
    AnswersFollowStream
    NothingLeftBehind
    OpenSetsMethodOnce
    BufferInv
