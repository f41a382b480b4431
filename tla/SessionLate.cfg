\* One meter in region 2, the five reports of the code, late answers, a server that may be
\* killed.
SPECIFICATION FairSessionSpec
CONSTANTS
    Region = 2
    Devices = {m1}
    Conns = {m1}
    Meters = {m1}
    Powers = {2, 12, 24}
    MeasuredPowers = {2, 12, 24}
    RegisteredTypes = {1, 2}
    MeterTypes = {1, 2}
    Clock <- Noon
    ReportsPerCycle = 5
    ReportsSent = 5
    ReportUris <- OwnUri
    NoDevice = NoDevice
    DbMayFail = FALSE
    KillAllowed = TRUE
    MaxUnread = 2
INVARIANTS
    NobodyStuck
    AcceptedIsReduced
    OnlyCommandsFail
PROPERTY WaitingEnds
