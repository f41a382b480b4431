\* Region 2: the five reports of the code, an industry, cheap and expensive hours, a database
\* that fails.
SPECIFICATION Spec
CONSTANTS
    Region = 2
    Devices = {m1}
    Conns = {c1, c2}
    Powers = {2, 20}
    RegisteredTypes = {2}
    Clock <- NoonAndNight
    ReportsPerCycle = 5
    ReportUris <- OwnUri
    NoDevice = NoDevice
    DbMayFail = TRUE
    KillAllowed = TRUE
SYMMETRY Symmetry
INVARIANT MeterKnowsPrice
PROPERTY RefinesTariffService
