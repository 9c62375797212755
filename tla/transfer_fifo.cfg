SPECIFICATION Spec
CONSTANTS
    PacketId = {1, 2}
    NumParts <- OneAndTwoParts
    Capacity = 2
    ReceiveTimeout <- None
    DrainUnit = 4
    AckResults = {"sent", "blocked", "error"}
    DeliveredMax = 2
    ResendDelay = 1
    MaxMissedAcks = 1
    InitialBatchSize = 1
    BatchSizeMax = 4
    BackgroundThreshold = 1
    SocketFaults = {"blocked", "error"}
    MissedAcksMax = 6
    NetworkFaults = {"lose", "duplicate"}
INVARIANTS
    QueueIsContiguous
PROPERTIES
    DeliverySpec
