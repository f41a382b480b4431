\* Two regions, silent peers, processes that die at any moment, no monitor.
SPECIFICATION FairSpec
CONSTANTS
    Regions = {1, 2}
    Slots = {s1, s2}
    NoSlot = NoSlot
    NoRegion = NoRegion
    MaxSyncs = 2
    MonitorRuns = FALSE
    SilenceAllowed = TRUE
INVARIANTS
    CentralTypeOK
    OneInDatabase
    AckedIsStored
PROPERTIES
    RefinesCentralStore
    SyncEnds
    ConnectEnds
