SPECIFICATION FairSpec
CONSTANTS
    RingSize = 3
    NULL = NULL
    Stamp = Stamp
    BufferBase = 2304
    MaxFrames = 8
    FrameLens = {60}
INVARIANTS
    TypeOK
    NoWriteUnderDma
    GrantedBufferIsSendable
    NoNullLookup
    WireOrder
    ConfirmOnceInOrder
    CompletionsAreSeen
PROPERTIES
    AcceptedReachesWire
    IrqTerminates
CHECK_DEADLOCK FALSE
