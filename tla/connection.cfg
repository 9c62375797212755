SPECIFICATION FairSpec
CONSTANTS
    TheClient = TheClient
    TheServer = TheServer
    NoOne = NoOne
    NoServer = NoServer
    PingId = {1, 2, 3}
    PingDelay = 0
    MaxMissedPongs = 0
    MissedPongsMax = 1
    ResendDelay = 0
    Timeout = 0
    Capacity = 1
    SendResults = {"sent", "error"}
INVARIANTS
    PanicIsEarned
PROPERTIES
    SessionSpec
    SilentIsDropped
    ServerNotices
    ClientNotices
