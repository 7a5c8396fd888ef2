SPECIFICATION Spec
CONSTANTS
    RingSize = 3
    NULL = NULL
    Stamp = Stamp
    BufferBase = 2304
    MaxFrames = 5
    FrameLens = {60}
INVARIANT
    AllQueuedAreChecked
CHECK_DEADLOCK FALSE
