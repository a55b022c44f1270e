CONSTANTS
    wan1 = wan1
    wan2 = wan2
    Faces = {wan1, wan2}
    a = a
    Targets = {a}
    s1 = s1
    s2 = s2
    s3 = s3
    Socks = {s1, s2, s3}
    None = None
    Reading = Reading
    Seqs = 3
    MaxPings = 2
    MaxTroubles = 2
SPECIFICATION MCFairSpec
CHECK_DEADLOCK FALSE
INVARIANTS
    OneFate
    ReplyFindsOwnPing
    StuckNeedsSignal
PROPERTIES
    SocketsFollowLinks
    ShutdownReturns
