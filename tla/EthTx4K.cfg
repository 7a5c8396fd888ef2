SPECIFICATION Spec
CONSTANTS
    RingSize = 3
    NULL = NULL
    Stamp = Stamp
    BufferBase = 2304
    MaxFrames = 3
    FrameLens = {60, 1532}
INVARIANT
    NoBoundaryCrossing
CHECK_DEADLOCK FALSE
