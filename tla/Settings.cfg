CONSTANTS
    Requests = {r1, r2, r3}
    Names = {n1, n2}
    Chunks = 2
    Hole = Hole
    None = None
    Torn = Torn
    Unread = Unread
    Ops <- MCOps
    Docs <- MCDocs
    InitialDoc <- MCInitialDoc
    DefaultDoc <- MCInitialDoc
    Atoi <- MCAtoi
    Paths <- MCPaths
SPECIFICATION Spec
SYMMETRY Symmetry
CHECK_DEADLOCK FALSE
INVARIANTS
    TornOnlyByInterruptedSave
    OnlyThePathChanges
PROPERTIES
    StoreSpec
    OkMeansSaved
