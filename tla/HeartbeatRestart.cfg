\* The set of active alarms does not survive a restart, the table does.
SPECIFICATION Spec
CONSTANTS
    Meters = {m1}
    Heartbeats = 5
    MaxTransit = 1
    MaxDelay = 0
    MaxAge = 7
    MaxOpen = 2
    DbMayFail = FALSE
    CrashAllowed = TRUE
PROPERTY OnlineMeterHasNoOpenAlarm
