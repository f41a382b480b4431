\* An old heartbeat arrives after a newer one, or arrives alone but late; the status thread
\* is never held up, so that no alarm is due to the race.
SPECIFICATION Spec
CONSTANTS
    Meters = {m1}
    Heartbeats = 5
    MaxTransit = 6
    MaxDelay = 0
    MaxAge = 8
    MaxOpen = 2
    DbMayFail = FALSE
    CrashAllowed = FALSE
PROPERTY NoFalseAlarm
