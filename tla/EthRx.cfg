SPECIFICATION ModeFairSpec
CONSTANTS
    RingSize = 4
    MaxFrames = 4
    MaxDowns = 2
    NULL = NULL
    Status = Status
INVARIANTS
    IndicatesInOrder
    NothingLeftBehind
    BuffersSurviveModeChange
PROPERTY
    RxIrqTerminates
CHECK_DEADLOCK FALSE
