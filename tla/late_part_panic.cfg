SPECIFICATION Spec
CONSTANTS
    PacketId = {1}
    NumParts <- TwoParts
    Capacity = 2
    ReceiveTimeout = 2
    DrainUnit = 2
    AckResults = {"sent", "blocked"}
    DeliveredMax = 2
    ResendDelay = 1
    MaxMissedAcks = 1
    InitialBatchSize = 2
    BatchSizeMax = 4
    BackgroundThreshold = 2
    SocketFaults = {}
    MissedAcksMax = 6
    NetworkFaults = {}
INVARIANTS
    NoPanic
