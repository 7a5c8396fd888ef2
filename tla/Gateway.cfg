SPECIFICATION GatewaySpec
CONSTANTS
    Instances = 2
    MbCount = 1
    FrameOf <- MCFrameOf
    MaxArrivals = 3
    CanIds = {0, 1, 2}
    PduLens = {0, 1, 4}
    Payloads <- MCPayloads
    CanPduMap <- MCCanPduMap
    MaxSend = 10
    QueueLength = 2
    MaxOffered = 6
INVARIANTS
    WireOrderPerId
    LossesAreCounted
PROPERTIES
    ReceptionHolds
    AggregationHolds
