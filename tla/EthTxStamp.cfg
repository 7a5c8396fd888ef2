SPECIFICATION Spec
CONSTANTS
    RingSize = 3
    NULL = NULL
    Stamp = Stamp
    BufferBase = 2304
    MaxFrames = 6
    FrameLens = {60}
INVARIANT
    GrantedBufferIsRestored
CHECK_DEADLOCK FALSE
