\* A meter that comes back is refused until the server restarts.
SPECIFICATION Spec
CONSTANTS
    Region = 1
    Devices = {m1}
    Conns = {c1, c2}
    Powers = {2}
    RegisteredTypes = {1}
    Clock <- Noon
    ReportsPerCycle = 5
    ReportUris <- OwnUri
    NoDevice = NoDevice
    DbMayFail = FALSE
    KillAllowed = FALSE
SYMMETRY Symmetry
INVARIANT LoneMeterIsRegistered
