CONSTANTS
    b1 = b1
    b2 = b2
    x = x
    y = y
    z = z
    w = w
    Tests = {0, 1, 2}
    Serial = {0}
    Jobs = 2
    Builds = {b1, b2}
    Names = {x, y, z, w}
    TestName <- Renamed
    MaxRuns = 2
    MaxTears = 1
SPECIFICATION Spec
INVARIANTS
    TypeOK
    SerialExclusive
    NoStalePass
    JournalComplete
    OneLineEach
PROPERTIES
    TimedOutHangs
    RunEnds
    KeepsPromises
\* A run that is done need not be followed by another.
CHECK_DEADLOCK FALSE
