\* Datagrams lost, late and overtaken, statements that fail, a status thread that may be
\* held up, crashes.
SPECIFICATION FairSpec
CONSTANTS
    Meters = {m1}
    Heartbeats = 5
    MaxTransit = 3
    MaxDelay = 2
    MaxAge = 9
    MaxOpen = 2
    DbMayFail = TRUE
    CrashAllowed = TRUE
INVARIANTS
    TypeOK
    OneOpenAlarm
PROPERTIES
    FalseOnlyByDelayOrRace
    SilenceIsReported
