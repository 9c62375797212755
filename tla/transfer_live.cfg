SPECIFICATION FairSpec
CONSTANTS
    PacketId = {1}
    NumParts <- OnePart
    Capacity = 3
    ReceiveTimeout <- None
    DrainUnit = 4
    AckResults = {"sent", "blocked"}
    DeliveredMax = 2
    ResendDelay = 1
    MaxMissedAcks <- None
    InitialBatchSize = 2
    BatchSizeMax = 4
    BackgroundThreshold = 2
    SocketFaults = {}
    MissedAcksMax = 6
    NetworkFaults = {"lose"}
PROPERTIES
    ReliableDelivery
