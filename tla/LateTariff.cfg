\* A tariff that is read too late.
SPECIFICATION SessionSpec
CONSTANTS
    Region = 1
    Devices = {m1}
    Conns = {m1}
    Meters = {m1}
    Powers = {2, 12, 24}
    MeasuredPowers = {2, 12, 24}
    RegisteredTypes = {1, 2}
    MeterTypes = {1}
    Clock <- Noon
    ReportsPerCycle = 5
    ReportsSent = 5
    ReportUris <- OwnUri
    NoDevice = NoDevice
    DbMayFail = FALSE
    KillAllowed = FALSE
    MaxUnread = 0
INVARIANT PriceAlwaysShown
