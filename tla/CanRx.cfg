SPECIFICATION FairSpec
CONSTANTS
    Instances = 2
    MbCount = 1
    FrameOf <- MCFrameOf
    QueueLength = 2
    MaxArrivals = 3
INVARIANTS
    TypeOK
    UnreadIsFlagged
    AlwaysRearmed
    NoReordering
    StaleAtMostOnce
PROPERTY
    ArrivalsAreRead
