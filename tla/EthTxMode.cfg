SPECIFICATION ModeFairSpec
CONSTANTS
    RingSize = 3
    MaxFrames = 5
    MaxDowns = 2
    FrameLens = {64}
    BufferBase = 0
    NULL = NULL
    Stamp = Stamp
PROPERTIES
    DownReleasesAll
    NoStaleTransmission
    ModeChangeEnds
CHECK_DEADLOCK FALSE
