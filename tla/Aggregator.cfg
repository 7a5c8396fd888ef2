SPECIFICATION FairSpec
CONSTANTS
    CanIds = {1, 2, 9}
    Payloads = {"a"}
    PduLens = {1, 4}
    CanPduMap <- MCCanPduMap
    MaxSend = 13
    QueueLength = 2
    MaxOffered = 4
INVARIANTS
    TypeOK
    PduConservation
    CarryOverSafe
    ContainerFits
    SentContainersWellFormed
    AtMostOneLateContainer
PROPERTIES
    ForwardsInBatches
    TakenPdusLeave
