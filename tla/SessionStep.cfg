\* One meter, of either type, in region 1: connections lost, processes that end, prices
\* that change with the hour, and waits that miss one message or two.
SPECIFICATION SessionSpec
CONSTANTS
    Region = 1
    Devices = {m1}
    Conns = {m1}
    Meters = {m1}
    Powers = {2, 12, 24}
    MeasuredPowers = {2, 12, 24}
    RegisteredTypes = {1, 2}
    MeterTypes = {1, 2}
    Clock <- NoonAndNight
    ReportsPerCycle = 2
    ReportsSent = 2
    ReportUris <- OwnUri
    NoDevice = NoDevice
    DbMayFail = FALSE
    KillAllowed = TRUE
    MaxUnread = 2
INVARIANTS
    SessionTypeOK
    InStep
    PriceShown
