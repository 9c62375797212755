SPECIFICATION Spec
CONSTANTS
    s1 = s1
    s2 = s2
    s3 = s3
    Servers = {s1, s2, s3}
    NoServer = NoServer
    ResendDelay = 1
    Timeout = 1
    SendResults = {"sent", "blocked", "error"}
SYMMETRY Symmetry
INVARIANTS
    TypeOK
    OneListener
    ConnectedIsCompatible
PROPERTIES
    SessionKeepsServer
