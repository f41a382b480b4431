\* The load a reduce command is decided on may be gone when it is sent.
SPECIFICATION Spec
CONSTANTS
    Region = 1
    Devices = {m1, m2}
    Conns = {c1, c2}
    Powers = {2, 12}
    RegisteredTypes = {1}
    Clock <- Noon
    ReportsPerCycle = 2
    ReportUris <- OwnUri
    NoDevice = NoDevice
    DbMayFail = FALSE
    KillAllowed = FALSE
PROPERTY ReduceOnlyUnderHighLoad
