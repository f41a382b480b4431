\* Two clients and one server, each started and killed at any time; a reader
\* finds the first bytes of a header or of a payload, or all there is.
SPECIFICATION Spec
CONSTANTS
    Clients = {c1, c2}
    Arrivals = {3, 100}
INVARIANTS
    MessagesSurvive
    MessagesDelimited
    TypeOK
    ReportsIntact
    LockStep
    FailsOnlyWhenCut
PROPERTIES
    ClientEnds
    ServerEnds
