CONSTANTS
    Keys <- MCKeys
    Values <- MCValues
    Mentions <- MCMentions
    text = text
    Readers = {r1, r2}
    Wants <- MCWants
    c1 = c1
    a1 = a1
    f1 = f1
    f2 = f2
    r1 = r1
    r2 = r2
    MaxAge = 1
    MaxFailures = 1
    MaxWrites = 2
    Int32 = 4
    Int64 = 8
    None = None
SPECIFICATION FairSpec
CHECK_DEADLOCK FALSE
INVARIANTS
    ReadsWhatWasWritten
PROPERTIES
    RemovalsApart
    OrphansRemoved
    ReadersReturn
    ShutdownReturns
