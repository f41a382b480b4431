\* The central server goes away and takes the regional process with it.
SPECIFICATION Spec
CONSTANTS
    Region = 1
    Devices = {m1}
    Conns = {c1}
    Powers = {2}
    RegisteredTypes = {1}
    Clock <- Noon
    ReportsPerCycle = 5
    ReportUris <- OwnUri
    NoDevice = NoDevice
    DbMayFail = FALSE
    KillAllowed = FALSE
PROPERTY EveryReportAnswered
