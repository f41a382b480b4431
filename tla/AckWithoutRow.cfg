\* An INSERT that fails: status 1 is sent all the same.
SPECIFICATION Spec
CONSTANTS
    Region = 1
    Devices = {m1}
    Conns = {c1}
    Powers = {2}
    RegisteredTypes = {1}
    Clock <- Noon
    ReportsPerCycle = 5
    ReportUris <- OwnUri
    NoDevice = NoDevice
    DbMayFail = TRUE
    KillAllowed = FALSE
SYMMETRY Symmetry
INVARIANT AcknowledgedIsStored
