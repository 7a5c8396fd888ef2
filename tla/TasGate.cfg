SPECIFICATION Spec
CONSTANTS
    StartTimes <- MCStartTimes
    Tick = 100000
    Horizon = 1007000000
INVARIANTS
    TypeOK
    OpenMeansOpen
    RemainingIsExact
PROPERTY
    ClosedMeansClosing
