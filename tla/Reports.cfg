CONSTANTS
    s1 = s1
    s2 = s2
    r1 = r1
    r2 = r2
    Sessions = {s1, s2}
    Requests = {r1, r2}
    QueueSize = 2
    PageLimit = 2
    RowCount = 3
    MaxQueries = 1
SPECIFICATION FairSpec
CHECK_DEADLOCK FALSE
INVARIANTS
    UpdateVisible
    PageInOrder
    OpenHasTimer
PROPERTIES
    QueriesCleaned
