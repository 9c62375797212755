SPECIFICATION Spec
CONSTANTS
    PacketId = {1, 2}
    NumParts <- OnePart
    Capacity = 2
    ReceiveTimeout = 1
    DrainUnit = 4
    AckResults = {"sent"}
    DeliveredMax = 2
    ResendDelay = 1
    MaxMissedAcks = 0
    InitialBatchSize = 2
    BatchSizeMax = 2
    BackgroundThreshold = 2
    SocketFaults = {"blocked", "error"}
    MissedAcksMax = 1
    NetworkFaults = {"lose", "duplicate", "reorder"}
INVARIANTS
    TypeOK
    AckedPartsArrived
    DoneMeansReceived
PROPERTIES
    DeliverySpec
