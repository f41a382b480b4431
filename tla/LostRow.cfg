\* The monitor reads during an insert.
SPECIFICATION Spec
CONSTANTS
    Regions = {1, 2}
    Slots = {s1, s2}
    NoSlot = NoSlot
    NoRegion = NoRegion
    MaxSyncs = 1
    MonitorRuns = TRUE
    SilenceAllowed = FALSE
INVARIANT AckedIsStored
