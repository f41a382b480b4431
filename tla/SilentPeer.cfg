\* One silent peer in the handshake.
SPECIFICATION FairSpec
CONSTANTS
    Regions = {1, 2}
    Slots = {s1, s2}
    NoSlot = NoSlot
    NoRegion = NoRegion
    MaxSyncs = 1
    MonitorRuns = FALSE
    SilenceAllowed = TRUE
PROPERTY AllConnect
