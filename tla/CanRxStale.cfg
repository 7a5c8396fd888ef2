SPECIFICATION Spec
CONSTANTS
    Instances = 2
    MbCount = 1
    FrameOf <- MCFrameOf
    QueueLength = 2
    MaxArrivals = 2
INVARIANT
    QueuedIsNew
