\* Region 1: two meters on two connections, a short cycle, crashes and restarts.
SPECIFICATION Spec
CONSTANTS
    Region = 1
    Devices = {m1, m2}
    Conns = {c1, c2}
    Powers = {2, 12}
    RegisteredTypes = {1}
    Clock <- Noon
    ReportsPerCycle = 2
    ReportUris <- OwnUri
    NoDevice = NoDevice
    DbMayFail = FALSE
    KillAllowed = TRUE
SYMMETRY Symmetry
INVARIANTS
    TypeOK
    OneSessionPerMeter
    DiscountEarned
    MeterKnowsPrice
    NoRepeatedPrice
    LoadMatchesDatabase
    DiscountPaysOff
    PricesFollowLoad
    RegionsChargeAlike
    CheapHoursHold
PROPERTIES
    OutdatedByAnotherMeter
    RefinesTariffService
