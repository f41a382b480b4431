\* The clock is read before the mutex is taken; datagrams arrive in the second in which
\* they are sent, so that no alarm is due to a late one.
SPECIFICATION Spec
CONSTANTS
    Meters = {m1}
    Heartbeats = 5
    MaxTransit = 0
    MaxDelay = 1
    MaxAge = 8
    MaxOpen = 2
    DbMayFail = FALSE
    CrashAllowed = FALSE
PROPERTY NoFalseAlarm
