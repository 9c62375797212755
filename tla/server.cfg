SPECIFICATION Spec
CONSTANTS
    a1 = a1
    a2 = a2
    Addr = {a1, a2}
    NoOne = NoOne
    PingId = {1, 2, 3}
    PingDelay = 1
    MaxMissedPongs = 1
    MissedPongsMax = 2
    SendResults = {"sent", "blocked", "error"}
SYMMETRY Symmetry
INVARIANTS
    TypeOK
    OneHome
    SlotsAreReused
    TimeoutIsEarned
PROPERTIES
    SlotsAreStable
