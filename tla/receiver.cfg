SPECIFICATION ReceiverSpec
CONSTANTS
    PacketId = {1, 2}
    NumParts <- FivePartsAndOne
    Capacity = 1
    ReceiveTimeout = 2
    DrainUnit = 2
    AckResults = {"sent", "blocked", "error"}
    DeliveredMax = 2
INVARIANTS
    ReceiverTypeOK
    ReassembledIntact
    CompleteIsDelivered
    ChunksAreTracked
PROPERTIES
    OncePerEntry
